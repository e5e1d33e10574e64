--------------------------------- MODULE TxFlow ---------------------------------
(***************************************************************************)
(* A transaction on its way through several hands (transaction.go over the   *)
(* wire format of Wire): a party gets it with some of its signature slots,    *)
(* signs with the signers it has, any of which may fail, may replace the      *)
(* blockhash, marshals it, and a party decodes it and goes on.  Independently, *)
(* a reader is fed a message byte by byte.                                   *)
(***************************************************************************)
EXTENDS Wire

CONSTANTS
    Messages,        \* the messages transactions are made of
    Signers,         \* public keys of the signers at hand, required or not
    Hashes,          \* blockhashes
    NoTx,            \* no transaction: the reader's part
    EdSign(_, _),    \* Ed25519 signature of a key over bytes, external
    MaxSigners,      \* bound: signers per call of Sign
    Alphabet(_),     \* bound: the bytes tried after an input
    MaxInput         \* bound: length of the input

(***************************************************************************)
(* What the Go types of Message and its parts allow.                        *)
(***************************************************************************)
Byte == 0 .. MaxU8
OfSize(n) == [1 .. n -> Byte]
Instruction == [program : Byte, accounts : Seq(Byte), data : Seq(Byte)]
AddressTableLookup == [key : OfSize(KeySize), writable : Seq(Byte), readonly : Seq(Byte)]
Message ==
    [version : Byte, header : OfSize(3), keys : Seq(OfSize(KeySize)), hash : OfSize(HashSize),
     ixs : Seq(Instruction), lookups : Seq(AddressTableLookup), config : Seq(Seq(Nat))]

\* Only a v1 message has a config, four optional values of their width.
ConfigFits(m) ==
    m.config # <<>> =>
        /\ m.version = V1 /\ Len(m.config) = 4
        /\ \A f \in 1 .. 4 :
              m.config[f] # <<>> => /\ Len(m.config[f]) = 1
                                    /\ Shifted(m.config[f][1], FieldSize[f]) = 0

ASSUME MessagesAssumption ==
    /\ \A m \in Messages : m \in Message /\ ConfigFits(m)
    /\ Hashes \subseteq OfSize(HashSize)

VARIABLES
    tx,      \* the Transaction
    todo,    \* signers the running Sign has yet to ask, with their slots; <<>> when none runs
    wire,    \* what was marshalled last
    fresh,   \* history: slots filled since the message last changed
    sent,    \* history: fresh when wire was marshalled
    input    \* the bytes the reader got

vars == <<tx, todo, wire, fresh, sent, input>>

Zero == [i \in 1 .. SigSize |-> 0]
NumReq(t) == t.msg.header[1]

\* NewTransaction gives every required signer a slot; a literal, or a transaction
\* decoded from bytes, may have fewer, the first of them signed.
NewTransaction(m) == [sigs |-> [i \in 1 .. m.header[1] |-> Zero], msg |-> m]
Given(m, n, signed) ==
    [sigs |-> [i \in 1 .. n |-> IF i = 1 /\ signed /\ Marshal(m) # Refused
                                  THEN EdSign(m.keys[1], Marshal(m)) ELSE Zero],
     msg |-> m]

Init ==
    /\ tx \in {NoTx} \cup {NewTransaction(m) : m \in Messages} \cup
              UNION {{Given(m, n, signed) : n \in 0 .. m.header[1], signed \in BOOLEAN}
                        : m \in Messages}
    /\ todo = <<>> /\ wire = Refused /\ fresh = {} /\ sent = {} /\ input = <<>>

(***************************************************************************)
(* Transaction.Sign.                                                       *)
(***************************************************************************)
GrownEmpty(sigs, n) ==             \* mutant: what was there is not copied
    IF Len(sigs) >= n THEN sigs ELSE [i \in 1 .. n |-> Zero]
Grown(sigs, n) ==
    IF Len(sigs) >= n THEN sigs
    ELSE [i \in 1 .. n |-> IF i <= Len(sigs) THEN sigs[i] ELSE Zero]

\* index: the slots of a public key; the last one counts.
Slots(t, k) == {i \in 1 .. NumReq(t) : t.msg.keys[i] = k}

SlotsInOrder(t, signers) ==        \* mutant: n-th signer, n-th slot
    [i \in DOMAIN signers |-> Min({i, NumReq(t)})]
SlotsOf(t, signers) == [i \in DOMAIN signers |-> Max(Slots(t, signers[i]))]

\* Checks and growth, before any signer is asked.  (With no required signature, or
\* fewer keys than signatures, Sign returns an error and changes nothing.)
Sign(signers) ==
    /\ tx # NoTx /\ todo = <<>>
    /\ NumReq(tx) > 0 /\ Len(tx.msg.keys) >= NumReq(tx)
    /\ tx' = [tx EXCEPT !.sigs = Grown(@, NumReq(tx))]
    /\ todo' = IF /\ \A k \in ToSet(signers) : Slots(tx, k) # {}
                  /\ Marshal(tx.msg) # Refused
               THEN Zip(signers, SlotsOf(tx, signers)) ELSE <<>>
    /\ UNCHANGED <<wire, fresh, sent, input>>

SignerSigns ==
    /\ todo # <<>>
    /\ LET key == Head(todo)[1]  slot == Head(todo)[2]
       IN  /\ tx' = [tx EXCEPT !.sigs[slot] = EdSign(key, Marshal(tx.msg))]
           /\ fresh' = fresh \cup {slot}
    /\ todo' = Tail(todo)
    /\ UNCHANGED <<wire, sent, input>>

\* Sign returns at the first failing signer; earlier slots stay filled.
SignerFails ==
    /\ todo # <<>> /\ todo' = <<>>
    /\ UNCHANGED <<tx, wire, fresh, sent, input>>

VerifySignatures(t) ==
    /\ Len(t.sigs) >= NumReq(t) /\ Len(t.msg.keys) >= NumReq(t)
    /\ Marshal(t.msg) # Refused
    /\ \A i \in 1 .. NumReq(t) :
          t.sigs[i] # Zero => t.sigs[i] = EdSign(t.msg.keys[i], Marshal(t.msg))

(***************************************************************************)
(* The party that holds the transaction, and the reader.                    *)
(***************************************************************************)
ReplaceBlockhash(h) ==
    /\ tx # NoTx /\ todo = <<>> /\ h # tx.msg.hash
    /\ tx' = [tx EXCEPT !.msg.hash = h]
    /\ fresh' = {}
    /\ UNCHANGED <<todo, wire, sent, input>>

Publish ==
    /\ tx # NoTx /\ todo = <<>> /\ MarshalTx(tx) # Refused
    /\ wire' = MarshalTx(tx) /\ sent' = fresh
    /\ UNCHANGED <<tx, todo, fresh, input>>

Receive ==
    /\ todo = <<>> /\ wire # Refused
    /\ LET p == UnmarshalTx(wire) IN p.err = "nil" /\ tx' = p.val
    /\ fresh' = sent
    /\ UNCHANGED <<todo, wire, sent, input>>

ReadByte(b) ==
    /\ tx = NoTx /\ Len(input) < MaxInput /\ UnmarshalMessage(input).err = "short"
    /\ input' = Append(input, b)
    /\ UNCHANGED <<tx, todo, wire, fresh, sent>>

Next ==
    \/ \E signers \in UNION {[1 .. n -> Signers] : n \in 1 .. MaxSigners} : Sign(signers)
    \/ SignerSigns \/ SignerFails \/ Publish \/ Receive
    \/ \E h \in Hashes : ReplaceBlockhash(h)
    \/ \E b \in Alphabet(input) : ReadByte(b)

Spec == Init /\ [][Next]_vars

--------------------------------------------------------------------------------
\* A v1 message with a nil config decodes to one with an empty config.
Decoded(m) == IF m.version = V1 /\ m.config = <<>>
                THEN [m EXCEPT !.config = <<<<>>, <<>>, <<>>, <<>>>>] ELSE m

\* "numRequiredSignatures ... is strictly less than 0x80 in any valid transaction".
Unambiguous(t) == NumReq(t) < Cont

\* What Marshal writes decodes to the same transaction, in all three formats, and
\* none of its proper prefixes decodes: a truncated transaction is always noticed.
RoundTrip ==
    tx # NoTx /\ todo = <<>> =>
    LET bytes == MarshalTx(tx)
    IN  bytes # Refused /\ Unambiguous(tx) =>
            /\ UnmarshalTx(bytes).err = "nil"
            /\ UnmarshalTx(bytes).val = [tx EXCEPT !.msg = Decoded(@)]
            /\ \A n \in 0 .. Len(bytes) - 1 :
                    UnmarshalTx(SubSeq(bytes, 1, n)).err = "short"

\* SerializedSize "equals len(tx.Marshal()) for any valid transaction", and
\* likewise for the message alone.
SizeExact ==
    tx # NoTx =>
        /\ MarshalTx(tx) # Refused => Len(MarshalTx(tx)) = SerializedSizeTx(tx)
        /\ Marshal(tx.msg) # Refused => Len(Marshal(tx.msg)) = SerializedSize(tx.msg)

\* A message that the decoder accepts marshals to the bytes it came from: there is
\* one encoding of a message, as the signatures over it need.
Canonical ==
    LET p == UnmarshalMessage(input) IN p.err = "nil" => Marshal(p.val) = input

\* An entry of transactions, as ShredStream delivers it (external).
EntryOf(txs) == WriteUint(1, U64Size) \o WriteUint(2, U64Size)
                \o [i \in 1 .. HashSize |-> 1] \o WriteUint(Len(txs), U64Size)
                \o FlattenSeq([i \in DOMAIN txs |-> MarshalTx(txs[i])])

\* DecodeTransaction takes exactly its own bytes out of a stream, whatever format
\* comes before or after: an entry decodes to the transactions it was made of.
StreamDecodes ==
    tx # NoTx /\ todo = <<>> => (MarshalTx(tx) # Refused /\ Unambiguous(tx) =>
        \A m \in Messages :
            LET other == NewTransaction(m)
                txs == <<other, tx, other>>
                p == DecodeEntries(EntryOf(txs))
            IN  MarshalTx(other) # Refused /\ Unambiguous(other) =>
                    /\ p.err = "nil"
                    /\ p.val[1].txs = [i \in 1 .. 3 |->
                                         [txs[i] EXCEPT !.msg = Decoded(@)]])

\* Incremental signing: a slot filled since the message last changed verifies,
\* although other calls failed half-way, other parties signed in between and the
\* transaction went over the wire; once all are filled it can be sent.
SignedVerifies ==
    /\ \A i \in fresh : tx.sigs[i] = EdSign(tx.msg.keys[i], Marshal(tx.msg))
    /\ fresh # {} /\ fresh = 1 .. NumReq(tx) => VerifySignatures(tx)

\* "any slot whose signer did not appear in the signers list retains its previous
\* value": no call of Sign loses a signature, whether it succeeds or fails.
SignaturesKept ==
    [][tx # NoTx => \A i \in DOMAIN tx.sigs :
          (tx'.sigs[i] # tx.sigs[i] /\ ~Receive) =>
              todo # <<>> /\ tx'.sigs[i] = EdSign(tx.msg.keys[i], Marshal(tx.msg))]_vars
================================================================================
