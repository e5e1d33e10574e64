---------------------------------- MODULE Wire ----------------------------------
(***************************************************************************)
(* The wire format of messages, transactions and entries: the primitives of  *)
(* encoding/bincode.go, Message.Marshal and DecodeMessage for the legacy, v0  *)
(* and v1 formats, Transaction.Marshal and DecodeTransaction, DecodeEntries.  *)
(*                                                                          *)
(* Every byte is there, but bytes are small: Cont stands for 0x80, the        *)
(* continuation bit of a shortvec and the version bit of a message, and the   *)
(* sizes of keys, hashes, signatures and wide integers are constants.  The     *)
(* properties depend on where a field ends and on the top bit, not on 0x80.   *)
(***************************************************************************)
EXTENDS Integers, SequencesExt, TLC

CONSTANTS
    Cont,                          \* 0x80
    KeySize, HashSize, SigSize,    \* 32, 32, 64
    U32Size, U64Size,              \* 4, 8
    MaxEntriesPerDecode, MaxTxPerEntry

ASSUME SizesAssumption ==
    /\ Cont \in Nat /\ Cont >= 4
    /\ KeySize \in Nat \ {0} /\ HashSize \in Nat \ {0} /\ SigSize \in Nat \ {0}
    /\ U32Size \in Nat /\ U32Size >= 2 /\ U64Size \in Nat \ {0}   \* a config mask fits

ByteMod == 2 * Cont
MaxU8   == ByteMod - 1
MaxU16  == ByteMod * ByteMod - 1

\* Message.Version; the version prefix is Cont + version.
Legacy == MaxU8
V0 == 0
V1 == 1

Low(n) == n % Cont                 \* the bits below the continuation bit

Refused == <<>>                    \* Marshal returned an error

(***************************************************************************)
(* Encoder.                                                                *)
(***************************************************************************)

\* v >> 8n.
Shifted(v, n) ==
    LET q[i \in 0 .. n] == IF i = 0 THEN v ELSE q[i - 1] \div ByteMod IN q[n]

\* WriteUint16, WriteUint32, WriteUint64: n bytes, little-endian.
WriteUint(v, n) == [i \in 1 .. n |-> Shifted(v, i - 1) % ByteMod]

EncodeShortvec(v) ==
    IF v < Cont THEN <<v>>
    ELSE IF v < Cont * Cont THEN <<Low(v) + Cont, v \div Cont>>
    ELSE <<Low(v) + Cont, Low(v \div Cont) + Cont, v \div (Cont * Cont)>>

\* A count and the bytes, or the items, it counts.
Prefixed(bytes) == EncodeShortvec(Len(bytes)) \o bytes
PrefixedItems(items) == EncodeShortvec(Len(items)) \o FlattenSeq(items)

(***************************************************************************)
(* Decoder.  p.err is sticky, which is what returning at the first error     *)
(* comes to; p.val is the value read last.                                  *)
(***************************************************************************)
NewDecoder(bytes) == [err |-> "nil", rest |-> bytes, val |-> <<>>]
Fail(p, err) == [p EXCEPT !.err = err]
Take(p, n, v) == [p EXCEPT !.rest = SubSeq(@, n + 1, Len(@)), !.val = v]
Value(p, v) == IF p.err = "nil" THEN [p EXCEPT !.val = v] ELSE p

ReadAvailable(p, n) ==             \* mutant: a short read is not an error
    IF p.err # "nil" THEN p
    ELSE Take(p, n, [i \in 1 .. n |-> IF i <= Len(p.rest) THEN p.rest[i] ELSE 0])
ReadBytes(p, n) ==
    IF p.err # "nil" THEN p
    ELSE IF Len(p.rest) < n THEN Fail(p, "short")
    ELSE Take(p, n, SubSeq(p.rest, 1, n))

\* From the last byte, the most significant one, to the first.
LittleEndian(bytes) ==
    LET v[i \in 0 .. Len(bytes)] ==
            IF i = 0 THEN 0 ELSE bytes[Len(bytes) + 1 - i] + ByteMod * v[i - 1]
    IN  v[Len(bytes)]
ReadUint(p, n) ==
    LET q == ReadBytes(p, n) IN Value(q, LittleEndian(q.val))

\* intN(v) of an unsigned v of n bytes, and back.
AsInt(v, n)  == IF v < ByteMod ^ n \div 2 THEN v ELSE v - ByteMod ^ n
AsUint(v, n) == v % ByteMod ^ n

AnyShortvec(p) ==                  \* mutant: overlong encodings are accepted
    LET b == p.rest
    IN  IF p.err # "nil" THEN p
        ELSE IF Len(b) = 0 THEN Fail(p, "short")
        ELSE IF b[1] < Cont THEN Take(p, 1, b[1])
        ELSE IF Len(b) < 2 THEN Fail(p, "short")
        ELSE IF b[2] < Cont THEN Take(p, 2, Low(b[1]) + Cont * b[2])
        ELSE IF Len(b) < 3 THEN Fail(p, "short")
        ELSE IF b[3] > 3 THEN Fail(p, "invalid")
        ELSE Take(p, 3, Low(b[1]) + Cont * Low(b[2]) + Cont * Cont * b[3])
\* DecodeShortvec: one to three groups; a terminal group of 0 is overlong, and
\* more than 3 in the third one does not fit a uint16.
ReadShortvec(p) ==
    LET b == p.rest
    IN  IF p.err # "nil" THEN p
        ELSE IF Len(b) = 0 THEN Fail(p, "short")
        ELSE IF b[1] < Cont THEN Take(p, 1, b[1])
        ELSE IF Len(b) < 2 THEN Fail(p, "short")
        ELSE IF b[2] = 0 THEN Fail(p, "invalid")
        ELSE IF b[2] < Cont THEN Take(p, 2, Low(b[1]) + Cont * b[2])
        ELSE IF Len(b) < 3 THEN Fail(p, "short")
        ELSE IF b[3] = 0 \/ b[3] > 3 THEN Fail(p, "invalid")
        ELSE Take(p, 3, Low(b[1]) + Cont * Low(b[2]) + Cont * Cont * b[3])

\* n items, each read by Item, which also gets the item's number.
Push(p, q) == Value(q, Append(p.val, q.val))
ReadItems(p, n, Item(_, _)) ==
    LET read[i \in 0 .. n] ==
            IF i = 0 THEN Value(p, <<>>)
            ELSE LET q == read[i - 1] IN Push(q, Item(q, i))
    IN  IF p.err = "nil" THEN read[n] ELSE p

\* A shortvec count c, then c items, or c bytes.
ReadVec(p, Item(_, _)) == LET c == ReadShortvec(p) IN ReadItems(c, c.val, Item)
ReadPrefixed(p) == LET c == ReadShortvec(p) IN ReadBytes(c, c.val)

ReadKey(p, i) == ReadBytes(p, KeySize)
ReadSig(p, i) == ReadBytes(p, SigSize)
ReadU8(p, i)  == ReadUint(p, 1)

\* p.val is a struct being decoded: q, read from p, becomes its field f.
Field(p, f, q)        == Value(q, [p.val EXCEPT ![f] = q.val])
UintField(p, f, n)    == Field(p, f, ReadUint(p, n))
BytesField(p, f, n)   == Field(p, f, ReadBytes(p, n))
PrefixedField(p, f)   == Field(p, f, ReadPrefixed(p))
VecField(p, f, Item(_, _)) == Field(p, f, ReadVec(p, Item))
ItemsField(p, f, n, Item(_, _)) == Field(p, f, ReadItems(p, n, Item))

(***************************************************************************)
(* Messages.  A message is a record of version, header (three counts), keys,  *)
(* hash, ixs, lookups and config; config is <<>> for nil, else the four        *)
(* optional fields of TransactionConfig, each <<>> or <<value>>.               *)
(***************************************************************************)

Validate(m) ==
    /\ m.version \in {Legacy, V0, V1}
    /\ m.version # V0 => m.lookups = <<>>

MarshalInstruction(ix) == <<ix.program>> \o Prefixed(ix.accounts) \o Prefixed(ix.data)
MarshalLookup(lk) == lk.key \o Prefixed(lk.writable) \o Prefixed(lk.readonly)

\* Counts are cut to a uint16 after they were checked against 0xFFFF.
CountsFit(m) ==
    /\ Len(m.keys) <= MaxU16 /\ Len(m.ixs) <= MaxU16
    /\ \A ix \in ToSet(m.ixs) : Len(ix.accounts) <= MaxU16 /\ Len(ix.data) <= MaxU16
    /\ m.version = V0 =>
          /\ Len(m.lookups) <= MaxU16
          /\ \A lk \in ToSet(m.lookups) :
                Len(lk.writable) <= MaxU16 /\ Len(lk.readonly) <= MaxU16

MarshalV0(m) ==
    IF ~CountsFit(m) THEN Refused
    ELSE (IF m.version = Legacy THEN <<>> ELSE <<Cont + m.version>>)
         \o m.header \o PrefixedItems(m.keys) \o m.hash
         \o PrefixedItems([i \in DOMAIN m.ixs |-> MarshalInstruction(m.ixs[i])])
         \o (IF m.version = V0
                THEN PrefixedItems([i \in DOMAIN m.lookups |-> MarshalLookup(m.lookups[i])])
                ELSE <<>>)

\* TransactionConfig: priority fee (two bits), and three limits (one bit each).
FieldMask == <<3, 4, 8, 16>>
FieldSize == <<U64Size, U32Size, U32Size, U32Size>>
Mask(config) ==
    LET bits(f) == IF config # <<>> /\ config[f] # <<>> THEN FieldMask[f] ELSE 0
    IN  bits(1) + bits(2) + bits(3) + bits(4)
MaskHas(mask, f) ==
    IF f = 1 THEN mask % 4 # 0 ELSE (mask \div FieldMask[f]) % 2 = 1
MaskValid(mask) == mask < 32 /\ mask % 4 \notin {1, 2}

MarshalConfig(config) ==
    FlattenSeq([f \in DOMAIN config |->
        IF config[f] = <<>> THEN <<>> ELSE WriteUint(config[f][1], FieldSize[f])])

MarshalV1(m) ==
    IF \/ Len(m.keys) > MaxU8 \/ Len(m.ixs) > MaxU8
       \/ \E ix \in ToSet(m.ixs) : Len(ix.accounts) > MaxU8 \/ Len(ix.data) > MaxU16
      THEN Refused
    ELSE <<Cont + V1>> \o m.header \o WriteUint(Mask(m.config), U32Size) \o m.hash
         \o <<Len(m.ixs), Len(m.keys)>> \o FlattenSeq(m.keys) \o MarshalConfig(m.config)
         \o FlattenSeq([i \in DOMAIN m.ixs |->
                <<m.ixs[i].program, Len(m.ixs[i].accounts)>>
                \o WriteUint(Len(m.ixs[i].data), 2)])
         \o FlattenSeq([i \in DOMAIN m.ixs |-> m.ixs[i].accounts \o m.ixs[i].data])

MarshalInto(m) == IF m.version = V1 THEN MarshalV1(m) ELSE MarshalV0(m)
Marshal(m) == IF Validate(m) THEN MarshalInto(m) ELSE Refused

SumOf(sizes) ==
    LET sum[i \in 0 .. Len(sizes)] == IF i = 0 THEN 0 ELSE sum[i - 1] + sizes[i]
    IN  sum[Len(sizes)]
SvSize(n) == IF n < Cont THEN 1 ELSE IF n < Cont * Cont THEN 2 ELSE 3
SizeOf(bytes) == SvSize(Len(bytes)) + Len(bytes)

SerializedSizeV1(m) ==
    1 + 3 + U32Size + HashSize + 1 + 1 + Len(m.keys) * KeySize
    + SumOf([f \in DOMAIN m.config |-> IF m.config[f] = <<>> THEN 0 ELSE FieldSize[f]])
    + SumOf([i \in DOMAIN m.ixs |-> 4 + Len(m.ixs[i].accounts) + Len(m.ixs[i].data)])

InstructionSizes(m) ==
    [i \in DOMAIN m.ixs |-> 1 + SizeOf(m.ixs[i].accounts) + SizeOf(m.ixs[i].data)]
LookupSizes(m) ==
    [i \in DOMAIN m.lookups |->
        KeySize + SizeOf(m.lookups[i].writable) + SizeOf(m.lookups[i].readonly)]

SerializedSizeNoPrefix(m) ==       \* mutant: the version prefix is not counted
    IF m.version = V1 THEN SerializedSizeV1(m)
    ELSE 3 + SvSize(Len(m.keys)) + Len(m.keys) * KeySize + HashSize
         + SvSize(Len(m.ixs))
         + SumOf(InstructionSizes(m))
         + (IF m.version # V0 THEN 0 ELSE SvSize(Len(m.lookups)) + SumOf(LookupSizes(m)))
SerializedSize(m) ==
    IF m.version = V1 THEN SerializedSizeV1(m)
    ELSE 3 + (IF m.version = Legacy THEN 0 ELSE 1)
         + SvSize(Len(m.keys)) + Len(m.keys) * KeySize + HashSize
         + SvSize(Len(m.ixs))
         + SumOf(InstructionSizes(m))
         + (IF m.version # V0 THEN 0 ELSE SvSize(Len(m.lookups)) + SumOf(LookupSizes(m)))

DecodeInstruction(p, i) ==
    LET ix       == Value(p, [program |-> 0, accounts |-> <<>>, data |-> <<>>])
        program  == UintField(ix, "program", 1)
        accounts == PrefixedField(program, "accounts")
    IN  PrefixedField(accounts, "data")

DecodeLookup(p, i) ==
    LET lk       == Value(p, [key |-> <<>>, writable |-> <<>>, readonly |-> <<>>])
        key      == BytesField(lk, "key", KeySize)
        writable == PrefixedField(key, "writable")
    IN  PrefixedField(writable, "readonly")

EmptyMessage(version) ==
    [version |-> version, header |-> <<>>, keys |-> <<>>, hash |-> <<>>, ixs |-> <<>>,
     lookups |-> <<>>, config |-> <<>>]

\* decodeMessageV1: all the instruction heads, then all their contents.  The mask,
\* the counts and the heads are locals, kept in the struct while it is decoded.
MaskField(p) ==
    LET q == UintField(p, "mask", U32Size)
    IN  IF q.err = "nil" /\ ~MaskValid(q.val.mask) THEN Fail(q, "invalid") ELSE q
CountsField(p) == ItemsField(p, "counts", 2, ReadU8)     \* instructions, keys
KeysField(p) == ItemsField(p, "keys", p.val.counts[2], ReadKey)
ReadOption(mask, p, f) ==
    IF ~MaskHas(mask, f) THEN Value(p, <<>>)
    ELSE LET r == ReadUint(p, FieldSize[f]) IN Value(r, <<r.val>>)
ConfigField(p) ==
    ItemsField(p, "config", 4, LAMBDA q, f : ReadOption(p.val.mask, q, f))
ReadHead(p, i) == LET h == ReadItems(p, 2, ReadU8) IN Push(h, ReadUint(h, 2))
HeadsField(p) == ItemsField(p, "heads", p.val.counts[1], ReadHead)
ReadBody(head, p) ==
    LET ix == Value(p, [program |-> head[1], accounts |-> <<>>, data |-> <<>>])
    IN  BytesField(BytesField(ix, "accounts", head[2]), "data", head[3])
BodiesField(p) ==
    ItemsField(p, "ixs", p.val.counts[1], LAMBDA q, i : ReadBody(p.val.heads[i], q))
EmptyWithLocals ==
    [mask |-> 0, counts |-> <<>>, heads |-> <<>>, version |-> V1, header |-> <<>>,
     keys |-> <<>>, hash |-> <<>>, ixs |-> <<>>, lookups |-> <<>>, config |-> <<>>]
WithoutLocals(p) ==
    Value(p, [f \in DOMAIN EmptyMessage(V1) |-> p.val[f]])

DecodeMessageV1(p) ==
    LET m      == Value(ReadUint(p, 1), EmptyWithLocals)
        header == ItemsField(m, "header", 3, ReadU8)
        hash   == BytesField(MaskField(header), "hash", HashSize)
        keys   == KeysField(CountsField(hash))
    IN  WithoutLocals(BodiesField(HeadsField(ConfigField(keys))))

LookupsField(p) ==
    IF p.err = "nil" /\ p.val.version = V0 THEN VecField(p, "lookups", DecodeLookup) ELSE p

DecodeMessage(p) ==
    LET m      == IF p.rest[1] < Cont THEN Value(p, EmptyMessage(Legacy))
                  ELSE Value(ReadUint(p, 1), EmptyMessage(V0))
        header == ItemsField(m, "header", 3, ReadU8)
        keys   == VecField(header, "keys", ReadKey)
        hash   == BytesField(keys, "hash", HashSize)
        ixs    == VecField(hash, "ixs", DecodeInstruction)
    IN  IF p.err # "nil" THEN p
        ELSE IF p.rest = <<>> THEN Fail(p, "short")
        ELSE IF p.rest[1] = Cont + V1 THEN DecodeMessageV1(p)
        ELSE IF p.rest[1] > Cont + V1 THEN Fail(p, "invalid")
        ELSE LookupsField(ixs)

\* UnmarshalBinary, of a message or a transaction: nothing may be left over.
NoTrailing(p) == IF p.err = "nil" /\ p.rest # <<>> THEN Fail(p, "trailing") ELSE p
UnmarshalMessage(bytes) == NoTrailing(DecodeMessage(NewDecoder(bytes)))

(***************************************************************************)
(* Transactions: sigs, one signature per slot, and msg.                     *)
(***************************************************************************)

\* Legacy and v0: count and signatures, then the message.  V1: the message, then
\* the signatures, whose number is in the header.
MarshalTx(tx) ==
    LET body == MarshalInto(tx.msg)
        sigs == FlattenSeq(tx.sigs)
    IN  IF \/ Len(tx.sigs) > MaxU16 \/ ~Validate(tx.msg)
           \/ Len(tx.sigs) # tx.msg.header[1] \/ body = Refused
          THEN Refused
        ELSE IF tx.msg.version = V1 THEN body \o sigs
        ELSE EncodeShortvec(Len(tx.sigs)) \o sigs \o body

SerializedSizeTx(tx) ==
    LET n == Len(tx.sigs)
    IN  SerializedSize(tx.msg) + n * SigSize
        + (IF tx.msg.version = V1 THEN 0 ELSE IF n >= Cont THEN 2 ELSE 1)

MessageField(p) == Field(p, "msg", DecodeMessage(p))
HeaderSigs(p) == ItemsField(p, "sigs", p.val.msg.header[1], ReadSig)

CountedSigs(p) ==                  \* mutant: v1 signatures have a count as well
    LET t == Value(p, [sigs |-> <<>>, msg |-> <<>>])
    IN  IF p.err # "nil" THEN p
        ELSE IF p.rest = <<>> THEN Fail(p, "short")
        ELSE MessageField(VecField(t, "sigs", ReadSig))
DecodeTransaction(p) ==
    LET t == Value(p, [sigs |-> <<>>, msg |-> <<>>])
    IN  IF p.err # "nil" THEN p
        ELSE IF p.rest = <<>> THEN Fail(p, "short")
        ELSE IF p.rest[1] = Cont + V1 THEN HeaderSigs(MessageField(t))
        ELSE MessageField(VecField(t, "sigs", ReadSig))

UnmarshalTx(bytes) == NoTrailing(DecodeTransaction(NewDecoder(bytes)))

(***************************************************************************)
(* Entries: a bincode Vec of (num_hashes, hash, Vec of transactions).        *)
(***************************************************************************)
TxsField(p) ==
    IF p.err = "nil" /\ p.val.count > MaxTxPerEntry THEN Fail(p, "invalid")
    ELSE ItemsField(p, "txs", p.val.count, LAMBDA q, j : DecodeTransaction(q))
DecodeEntry(p, i) ==
    LET e      == Value(p, [hashes |-> 0, hash |-> <<>>, count |-> 0, txs |-> <<>>])
        hashes == UintField(e, "hashes", U64Size)
        hash   == BytesField(hashes, "hash", HashSize)
    IN  TxsField(UintField(hash, "count", U64Size))

DecodeEntries(bytes) ==
    LET count == ReadUint(NewDecoder(bytes), U64Size)
    IN  IF count.err = "nil" /\ count.val > MaxEntriesPerDecode THEN Fail(count, "invalid")
        ELSE NoTrailing(ReadItems(count, count.val, DecodeEntry))
================================================================================
