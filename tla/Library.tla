-------------------------------- MODULE Library --------------------------------
(***************************************************************************)
(* A program's calls of the decoders and conversions: goroutines decode into     *)
(* Go types through the shared plan cache (PlanCache over Codec), and account     *)
(* state, wide integers, program addresses, transaction errors and the data of     *)
(* precompiles are computed by functions that share nothing.  ret is the call that returned last: what went in, what came     *)
(* out.                                                                      *)
(***************************************************************************)
EXTENDS PlanCache, Codec, Accounts, WideInts, Pda, TxError, Precompile

CONSTANTS
    NoCall,
    Decoded(_),         \* the values of a type that are encoded and decoded back
    Garbage(_),         \* other bytes a type is decoded from
    Tails,           \* what follows an encoded value
    Mints, TokenAccounts, Tables,     \* account states with extensions and truncation
    Wide128, Wide256, BigInts, Texts,           \* bytes, integers and decimal texts
    Seeds, Programs, Slots,    \* seed lists, keys and slots
    RawErrors, RuntimeErrors,  \* err fields, errors of the runtime
    SignedMessages, OffsetLists   \* messages and descriptors for the precompiles

VARIABLES
    inUse,    \* the types this program decodes into
    ret

vars == <<cacheVars, inUse, ret>>

Old == 5       \* what the scalars of a value hold before it is decoded into

Init ==
    /\ CacheInit
    /\ inUse \in {{}} \cup {{t, u} : t, u \in Types}
    /\ ret = NoCall

\* Steps of decodePlanFor.
Begin(g)     == (\E t \in inUse : DecodeFast(g, t)) /\ ret' = NoCall /\ UNCHANGED inUse
Refuse(g)    == DecodeFastRefused(g) /\ ret' = NoCall /\ UNCHANGED inUse
LoadPlan(g)  == Load(g) /\ ret' = NoCall /\ UNCHANGED inUse
Emit(g)      == CompilePlan(g) /\ ret' = NoCall /\ UNCHANGED inUse
Publish(g)   == LoadOrStore(g) /\ ret' = NoCall /\ UNCHANGED inUse
Ends(g)      == Return(g) /\ ret' = NoCall /\ UNCHANGED inUse

\* The plan is run over bytes that hold a value of the type, or do not.  The run
\* reads the plan and writes memory that is g's own, so it is enough to look at its
\* result where nothing else goes on.
Alone(g) == Cardinality(inUse) = 1 /\ \A h \in Goroutines \ {g} : At(h, "idle")
DecodeValue(g) ==
    /\ At(g, "exec") /\ Alone(g) /\ Return(g)
    /\ \E borsh \in BOOLEAN, v \in Decoded(target[g]), suffix \in Tails :
          ret' = [op |-> "decode", typ |-> target[g], borsh |-> borsh, from |-> <<v>>,
                  bytes |-> Encode(target[g], v, borsh) \o suffix, suffix |-> suffix,
                  out |-> DecodeTo(target[g], borsh, Encode(target[g], v, borsh) \o suffix, Old)]
    /\ UNCHANGED inUse
DecodeBytes(g) ==
    /\ At(g, "exec") /\ Alone(g) /\ Return(g)
    /\ \E borsh \in BOOLEAN, b \in Garbage(target[g]) :
          ret' = [op |-> "decode", typ |-> target[g], borsh |-> borsh, from |-> <<>>,
                  bytes |-> b, suffix |-> <<>>, out |-> DecodeTo(target[g], borsh, b, Old)]
    /\ UNCHANGED inUse

\* The other calls share nothing with those: a program that makes only them is enough.
Quiet == ret = NoCall /\ inUse = {}
Call(r) == ret' = r /\ UNCHANGED <<cacheVars, inUse>>

Cut(data, n) == SubSeq(data, 1, Len(data) - n)
DecodeMintCall ==
    /\ Quiet
    /\ \E m \in Mints :
          LET data == IF m.tlv = <<>> THEN Cut(EncodeMint(m.state), m.cut)
                      ELSE EncodeMint(m.state) \o Zeros(AccountSize - MintSize) \o <<1>> \o m.tlv
          IN  \E order \in SetToSeqs(DOMAIN TLVOf(data)) :
                 Call([op |-> "mint", in |-> m, out |-> DecodeMintState(data, order)])
DecodeAccountCall ==
    /\ Quiet
    /\ \E a \in TokenAccounts :
          LET data == IF a.tlv = <<>> THEN Cut(EncodeAccount(a.state), a.cut)
                      ELSE EncodeAccount(a.state) \o <<2>> \o a.tlv
          IN  \E order \in SetToSeqs(DOMAIN TLVOf(data)) :
                 Call([op |-> "account", in |-> a, out |-> DecodeAccount(data, order)])
DecodeTableCall ==
    /\ Quiet
    /\ \E s \in Tables :
          Call([op |-> "table", in |-> s,
                out |-> DecodeTableState(Cut(EncodeTable(s.state), s.cut))])

\* U128 and U256 take x, or a text, over what they held.
SetWide ==
    /\ Quiet
    /\ \E x \in BigInts, n \in {Size128, Size256} :
          Call([op |-> "set", in |-> x, held |-> WriteUint(Old, n),
                out |-> SetBigInt(WriteUint(Old, n), x), low |-> Uint128FromBigInt(x)])
ParseWide ==
    /\ Quiet
    /\ \E s \in Texts, n \in {Size128, Size256} :
          Call([op |-> "parse", in |-> s, held |-> WriteUint(Old, n),
                out |-> UnmarshalJSON(WriteUint(Old, n), s)])
Read128Call ==
    /\ Quiet
    /\ \E u \in Wide128 : Call([op |-> "wide", in |-> u,
          low |-> SetUint64(Lo(u)), back |-> SetLoHi(Lo(u), Hi(u)), text |-> MarshalJSON(u),
          uint |-> UnmarshalUint128(NewDecoder(u)), int |-> UnmarshalInt128(NewDecoder(u))])
Read256Call ==
    /\ Quiet
    /\ \E u \in Wide256 : Call([op |-> "wide", in |-> u,
          low |-> u,
          back |-> SetWord(SetWord(SetWord(SetWord(Zeros(Size256), 0, Word(u, 0)),
                           1, Word(u, 1)), 2, Word(u, 2)), 3, Word(u, 3)),
          text |-> MarshalJSON(u),
          uint |-> UnmarshalUint256(NewDecoder(u)), int |-> UnmarshalInt256(NewDecoder(u))])

\* The addresses on the curve are those that some set of bumps leads to.
OnCurve(seeds, program, curve) == {Hashed(Append(seeds, <<b>>), program) : b \in curve}
Found(seeds, program, curve, out) ==
    Call([op |-> "find", seeds |-> seeds, program |-> program, curve |-> curve, out |-> out])
FindCall ==
    /\ Quiet
    /\ \E seeds \in Seeds, program \in Programs, curve \in SUBSET Bumps :
          Found(seeds, program, curve,
                FindProgramAddress(seeds, program, OnCurve(seeds, program, curve)))
FindAtaCall ==
    /\ Quiet
    /\ \E wallet, mint, token, program \in Programs, curve \in SUBSET Bumps :
          LET seeds == <<wallet, token, mint>>
          IN  Found(seeds, program, curve, FindAssociatedTokenAddress(
                        wallet, mint, token, program, OnCurve(seeds, program, curve)))
FindTableCall ==
    /\ Quiet
    /\ \E authority, program \in Programs, slot \in Slots, curve \in SUBSET Bumps :
          LET seeds == <<authority, WriteUint(slot, U64Size)>>
          IN  Found(seeds, program, curve, DeriveLookupTableAddress(
                        authority, slot, program, OnCurve(seeds, program, curve)))

\* What a node reports, as the text of a response and unmarshalled; and anything else.
DecodeReportedCall ==
    /\ Quiet
    /\ \E e \in RuntimeErrors :
          Call([op |-> "reported", in |-> e,
                text |-> DecodeTransactionError(RawMessage(ErrorDoc(e))),
                value |-> DecodeTransactionError(Unmarshal(ErrorDoc(e), FALSE))])
DecodeErrorCall ==
    /\ Quiet
    /\ \E raw \in RawErrors :
          Call([op |-> "error", in |-> raw, out |-> DecodeTransactionError(raw)])

TheKey == [i \in 1 .. KeySize |-> i]
TheSig == [i \in 1 .. SigSize |-> 6]
TheEth == [i \in 1 .. EthSize |-> 3]
VerifyEdCall ==
    /\ Quiet
    /\ \E m \in SignedMessages :
          Call([op |-> "verify", in |-> m, start |-> 2, widths |-> EdWidths, key |-> TheKey,
                sig |-> TheSig, self |-> MaxU16, out |-> NewVerifySignature(TheKey, TheSig, m)])
VerifyEthCall ==
    /\ Quiet
    /\ \E m \in SignedMessages, id \in 0 .. 1 :
          Call([op |-> "verify", in |-> m, start |-> 1, widths |-> SecpWidths, key |-> TheEth,
                sig |-> Append(TheSig, id), self |-> MaxU8,
                out |-> NewVerifyEthSignature(TheEth, TheSig, id, m)])
SignatureVerifyCall ==
    /\ Quiet
    /\ \E l \in OffsetLists :
          \/ Call([op |-> "offsets", in |-> l, start |-> 2, widths |-> EdWidths,
                   out |-> EdSignatureVerify(l)])
          \/ Call([op |-> "offsets", in |-> l, start |-> 1, widths |-> SecpWidths,
                   out |-> SecpSignatureVerify(l)])

Returned == ret # NoCall /\ inUse = {} /\ ret' = NoCall /\ UNCHANGED <<cacheVars, inUse>>
Dead == crashed /\ UNCHANGED vars

Next ==
    \/ \E g \in Goroutines :
          \/ Begin(g) \/ Refuse(g) \/ LoadPlan(g) \/ Emit(g) \/ Publish(g) \/ Ends(g)
          \/ DecodeValue(g) \/ DecodeBytes(g)
    \/ DecodeMintCall \/ DecodeAccountCall \/ DecodeTableCall
    \/ SetWide \/ ParseWide \/ Read128Call \/ Read256Call
    \/ FindCall \/ FindAtaCall \/ FindTableCall
    \/ DecodeReportedCall \/ DecodeErrorCall
    \/ VerifyEdCall \/ VerifyEthCall \/ SignatureVerifyCall
    \/ Returned \/ Dead

Spec == Init /\ [][Next]_vars

--------------------------------------------------------------------------------

\* The compiler does not consult the cache for the types inside a type, so it ends
\* exactly on the types that do not contain themselves: one that does, through a
\* pointer or a slice, overflows the stack and takes the process with it, and a
\* field that is skipped, or a type that unmarshals itself, breaks the cycle.
CrashOnlyOnCycle ==
    /\ crashed => \E t \in inUse : ContainsItself(t)
    /\ \A g \in Goroutines : pc[g] = "exec" => ~ContainsItself(target[g])

\* The cells of a value that are not on the wire.
RECURSIVE OffWire(_, _)
OffWire(t, base) ==
    LET d == TypeOf[t]
    IN  IF d.kind # "Struct" \/ d.iface THEN {}
        ELSE UNION {LET from == base + FieldOffset(d, i)
                    IN  IF i \in ToSet(OnWire(d)) THEN OffWire(d.fields[i].typ, from)
                        ELSE from + 1 .. from + Size(d.fields[i].typ)
                       : i \in DOMAIN d.fields}

\* Running the plan inverts the wire format.  Of the encoding of a value every
\* field comes back, whatever follows it, and nothing of what follows is read; any
\* bytes that decode at all are the encoding of what was decoded; and fields that
\* are not on the wire keep what they held, also when the decoding fails.
DecodeInverts ==
    ret # NoCall /\ ret.op = "decode" =>
        LET p == ret.out.p
            v == View(ret.typ, ret.out.mem, 0)
        IN  /\ ret.from # <<>> => p.err = "nil" /\ v = ret.from[1] /\ p.rest = ret.suffix
            /\ p.err = "nil" => ret.bytes = Encode(ret.typ, v, ret.borsh) \o p.rest
            /\ \A i \in OffWire(ret.typ, 0) : ret.out.mem[i] = Cells(ret.typ, Old)[i]

\* What an extension of type t comes to: the last entry of its type that comes
\* before the bytes stop being entries counts, if it is long enough.
Expected(t, entries) ==
    LET of == {i \in DOMAIN entries : entries[i].t = t}
        e  == entries[Max(of)]
    IN  IF of = {} \/ e.cut < 0 THEN <<>> ELSE e.val

\* The decoders invert the account layouts: a buffer that is long enough gives
\* every field, an optional one only if its tag is 1 whatever its slot holds, and
\* the extensions, in whatever order the map is iterated; a buffer that is too
\* short, or not a lookup table, is refused.
AccountsDecoded ==
    ret # NoCall =>
        /\ ret.op \in {"mint", "account"} =>
              LET out == ret.out
                  short == ret.in.tlv = <<>> /\ ret.in.cut > 0
              IN  /\ (out.state.err # "nil") <=> short
                  /\ ~short =>
                        /\ out.state.val = IF ret.op = "mint" THEN ExpectedMint(ret.in.state)
                                           ELSE ExpectedAccount(ret.in.state)
                        /\ \A t \in DOMAIN out.exts : out.exts[t] = Expected(t, ret.in.entries)
        /\ ret.op = "table" =>
              LET addresses == ret.in.state.addresses
                  whole == /\ ret.in.cut % KeySize = 0
                           /\ ret.in.cut <= KeySize * Len(addresses)
                  kept == SubSeq(addresses, 1, Len(addresses) - ret.in.cut \div KeySize)
              IN  /\ (ret.out.err = "nil") <=> whole /\ ret.in.state.disc = 1
                  /\ ret.out.err = "nil" =>
                        ret.out.val = [ExpectedTable(ret.in.state) EXCEPT !.addresses = kept]

\* A wide integer is what its bytes say: its words put it together again, its text
\* parses back to it, the signed reading is its two's complement.  What does not
\* fit is refused and leaves the receiver as it was; Uint128FromBigInt instead
\* keeps the low bits of the magnitude.
WideExact ==
    ret # NoCall =>
        /\ ret.op = "set" =>
              LET n == Len(ret.held)
              IN  /\ IF ret.in \in 0 .. ByteMod ^ n - 1
                       THEN ret.out.err = "nil" /\ BigInt(ret.out.u) = ret.in
                       ELSE ret.out.err # "nil" /\ ret.out.u = ret.held
                  /\ BigInt128(ret.low) = Abs(ret.in) % ByteMod ^ Size128
        /\ ret.op = "parse" => (ret.out.err # "nil" => ret.out.u = ret.held)
        /\ ret.op = "wide" =>
              LET n == Len(ret.in)
                  x == LittleEndian(ret.in)
                  value(v) == IF n = Size128 THEN BigInt128(v) ELSE BigInt256(v)
                  bytes(v) == IF n = Size128 THEN Bytes128(v) ELSE Bytes256(v)
              IN  /\ ret.back = ret.in
                  /\ n = Size128 => BigInt(ret.low) = x % ByteMod ^ WordSize
                  /\ IsZero(ret.in) <=> x = 0
                  /\ UnmarshalJSON(Zeros(n), ret.text) = [err |-> "nil", u |-> ret.in]
                  /\ value(ret.uint.val) = x /\ value(ret.int.val) = AsInt(x, n)
                  /\ bytes(ret.uint.val) = ret.in /\ bytes(ret.int.val) = ret.in

\* For seeds within both limits, room for the bump included, the bump that is found
\* is the highest whose address is off the curve, the address is the one that
\* CreateProgramAddress gives for it, and the search fails exactly if there is none.
\* (Other seeds are refused, which the comment at pda.go:76, "an error only" if every
\* bump is on the curve, does not say; nothing is claimed of them here.)
BumpHighest ==
    ret # NoCall /\ ret.op = "find" =>
        LET off == Bumps \ ret.curve
            withinLimits == /\ Len(ret.seeds) + 1 <= MaxPDASeeds
                            /\ \A i \in DOMAIN ret.seeds : Len(ret.seeds[i]) <= MaxPDASeedLength
        IN  withinLimits =>
                /\ (ret.out.err = "nil") <=> off # {}
                /\ off # {} =>
                      /\ ret.out.bump = Max(off)
                      /\ ret.out.pk = Hashed(Append(ret.seeds, <<Max(off)>>), ret.program)

\* The same failure, whatever its details are made of.
SameError(x, y) == [x EXCEPT !.details = Nil] = [y EXCEPT !.details = Nil]

\* A failed transaction is never taken for a successful one, nor for another failure.
\* nil comes back only for nil, nothing and null, so confirmSignature reports success
\* for no other err; what the runtime reports comes back exactly, from the text and
\* from the unmarshalled value; whatever else is recognised as an instruction error
\* has the index and the custom code that the input has, which fit a uint8 and a
\* uint32; and a text that is recognised is recognised alike once unmarshalled.
ErrorDecoded ==
    ret # NoCall =>
        /\ ret.op = "reported" =>
              ret.text = ExpectedError(ret.in) /\ SameError(ret.value, ret.text)
        /\ ret.op = "error" =>
              LET raw == ret.in
                  out == ret.out
                  document == raw.t = "bytes" /\ raw.doc.t \notin {"blank", "invalid"}
                  value == IF document THEN Unmarshal(raw.doc, TRUE) ELSE raw
                  parts == value.of["InstructionError"].elems
              IN  /\ out.is = "nil" <=>
                        raw.t = "nil" \/ (raw.t = "bytes" /\ raw.doc.t \in {"blank", "null"})
                  /\ out.is = "instruction" =>
                        /\ out.index = parts[1].n /\ out.index \in 0 .. MaxU8
                        /\ out.kind = "Custom" /\ parts[2].t = "map" =>
                              out.code = parts[2].of["Custom"].n /\ out.code \in 0 .. MaxUint32
                  /\ document /\ out.is # "unrecognized" =>
                        SameError(out, DecodeTransactionError(Unmarshal(raw.doc, FALSE)))

\* A precompile that follows the descriptors finds what the caller passed: key,
\* signature and message of a self-contained instruction, in this instruction, and
\* every descriptor of a list, to the last byte.  A message longer than a uint16 and a
\* list longer than a uint8 can say are refused, not cut.
PrecompileReads ==
    ret # NoCall =>
        /\ ret.op = "verify" =>
              /\ (ret.out.err = "nil") <=> Len(ret.in) <= MaxU16
              /\ ret.out.err = "nil" =>
                    LET data == ret.out.data
                        d == Descriptors(data, ret.start, ret.widths)
                    IN  /\ Len(d) = 1 /\ {d[1].sigIx, d[1].keyIx, d[1].msgIx} = {ret.self}
                        /\ Slice(data, d[1].sig, Len(ret.sig)) = ret.sig
                        /\ Slice(data, d[1].key, Len(ret.key)) = ret.key
                        /\ Slice(data, d[1].msg, d[1].size) = ret.in
                        /\ Len(data) = d[1].msg + d[1].size
        /\ ret.op = "offsets" =>
              /\ (ret.out.err = "nil") <=> Len(ret.in) <= MaxU8
              /\ ret.out.err = "nil" =>
                    /\ Descriptors(ret.out.data, ret.start, ret.widths) = ret.in
                    /\ Len(ret.out.data) = ret.start + Len(ret.in) * SumOf(ret.widths)
================================================================================
