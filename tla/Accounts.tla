-------------------------------- MODULE Accounts --------------------------------
(***************************************************************************)
(* On-chain account state: SPL Token mints and accounts (programs/token/         *)
(* state.go), their Token-2022 extensions (programs/token2022/state.go) and      *)
(* address lookup tables (programs/address-lookup-table/state.go).  The sticky   *)
(* Reader of encoding/reader.go is the sticky decoder of Wire.  Field sizes are   *)
(* the constants of Wire; every length and offset the code writes as a number     *)
(* is the same sum of them.                                                     *)
(*                                                                          *)
(* A nil pointer is <<>>, a pointer to v is <<v>>.                              *)
(***************************************************************************)
EXTENDS Wire

OptKeySize  == U32Size + KeySize
MintSize    == 2 * OptKeySize + U64Size + 2                           \* 82
AccountSize == 2 * KeySize + 3 * U64Size + 2 * OptKeySize + U32Size + 1   \* 165
TLVStart    == AccountSize + 1                                        \* 166
LookupTableMetaSize == U32Size + 2 * U64Size + 2 + KeySize + 2        \* 56

(***************************************************************************)
(* encoding.Reader: each accessor fills a field of the state that is decoded.    *)
(***************************************************************************)
U8(p, f)  == UintField(p, f, 1)
U32(p, f) == UintField(p, f, U32Size)
U64(p, f) == UintField(p, f, U64Size)
Bool(p, f) == LET q == ReadUint(p, 1) IN Field(p, f, Value(q, q.val # 0))
Bytes32(p, f) == BytesField(p, f, KeySize)
Skip(p, n) == LET q == ReadBytes(p, n) IN Value(q, p.val)

\* A tag and a slot that is there whatever the tag says: q is the reader after the
\* tag, slot after both.
TaggedField(p, f, q, slot) ==
    Value(slot, [p.val EXCEPT ![f] = IF q.val = 1 THEN <<slot.val>> ELSE <<>>])
KeyAfter(p, f, q) == TaggedField(p, f, q, ReadBytes(q, KeySize))
U64After(p, f, q) == TaggedField(p, f, q, ReadUint(q, U64Size))
OptionalPubkey(p, f) == KeyAfter(p, f, ReadUint(p, U32Size))       \* ReadOptionalPubkey
OptionalU64(p, f)    == U64After(p, f, ReadUint(p, U32Size))

Short == Fail(NewDecoder(<<>>), "short")
Header(data, n, state) == Value(NewDecoder(SubSeq(data, 1, n)), state)

(***************************************************************************)
(* token.DecodeMintState and token.DecodeAccountState.                         *)
(***************************************************************************)
NoMint == [mintAuthority |-> <<>>, supply |-> 0, decimals |-> 0, initialized |-> FALSE,
           freezeAuthority |-> <<>>]
TokenMint(data) ==
    LET authority   == OptionalPubkey(Header(data, MintSize, NoMint), "mintAuthority")
        supply      == U64(authority, "supply")
        decimals    == U8(supply, "decimals")
        initialized == Bool(decimals, "initialized")
    IN  IF Len(data) < MintSize THEN Short
        ELSE OptionalPubkey(initialized, "freezeAuthority")

NoAccount == [mint |-> <<>>, owner |-> <<>>, amount |-> 0, delegate |-> <<>>, state |-> 0,
              isNative |-> <<>>, delegatedAmount |-> 0, closeAuthority |-> <<>>]
TokenAccount(data) ==
    LET mint      == Bytes32(Header(data, AccountSize, NoAccount), "mint")
        owner     == Bytes32(mint, "owner")
        amount    == U64(owner, "amount")
        delegate  == OptionalPubkey(amount, "delegate")
        state     == U8(delegate, "state")
        native    == OptionalU64(state, "isNative")
        delegated == U64(native, "delegatedAmount")
    IN  IF Len(data) < AccountSize THEN Short
        ELSE OptionalPubkey(delegated, "closeAuthority")

(***************************************************************************)
(* Token-2022 extensions.                                                    *)
(***************************************************************************)
Part(raw, off, n) == SubSeq(raw, off + 1, off + n)
U16At(raw, off) == LittleEndian(Part(raw, off, 2))
U64At(raw, off) == LittleEndian(Part(raw, off, U64Size))
I16At(raw, off) == AsInt(U16At(raw, off), 2)
I64At(raw, off) == AsInt(U64At(raw, off), U64Size)
ZeroKey == [i \in 1 .. KeySize |-> 0]
OptKey(key) == IF key = ZeroKey THEN <<>> ELSE <<key>>
optPubkey(raw, off) == OptKey(Part(raw, off, KeySize))

\* parseTLV: raw by type; a later entry replaces an earlier one of its type.
KeepFirst(map, t, raw) == map @@ (t :> raw)     \* mutant: the first entry stays
Entry(map, t, raw) == (t :> raw) @@ map
RECURSIVE TLV(_, _)
TLV(data, map) ==
    IF Len(data) < 4 \/ U16At(data, 0) = 0 \/ 4 + U16At(data, 2) > Len(data) THEN map
    ELSE LET next == 4 + U16At(data, 2)
         IN  TLV(SubSeq(data, next + 1, Len(data)),
                 Entry(map, U16At(data, 0), SubSeq(data, 5, next)))
parseTLV(data) == TLV(data, [t \in {} |-> <<>>])

TransferFeeConfig   == 1
TransferFeeAmount   == 2
MintCloseAuthority  == 3
DefaultAccountState == 6
ImmutableOwner      == 7
MemoTransfer        == 8
NonTransferable     == 9
InterestBearing     == 10
CpiGuard            == 11
PermanentDelegate   == 12
MetadataPointer     == 16
TransferHook        == 18

MintExts == {TransferFeeConfig, MintCloseAuthority, DefaultAccountState, NonTransferable,
             InterestBearing, PermanentDelegate, MetadataPointer, TransferHook}
AccountExts == {TransferFeeAmount, MemoTransfer, ImmutableOwner, CpiGuard}

TransferFee(raw, off) ==
    [epoch |-> U64At(raw, off), maximumFee |-> U64At(raw, off + U64Size),
     basisPoints |-> U16At(raw, off + 2 * U64Size)]
TwoKeys(raw) == [authority |-> optPubkey(raw, 0), address |-> optPubkey(raw, KeySize)]

\* The shortest raw an extension is decoded from.
MinRaw(t) ==
    CASE t \in {MintCloseAuthority, PermanentDelegate}          -> KeySize
      [] t \in {MetadataPointer, TransferHook}                  -> 2 * KeySize
      [] t \in {DefaultAccountState, MemoTransfer, CpiGuard}    -> 1
      [] t = TransferFeeAmount  -> U64Size
      [] t = TransferFeeConfig  -> 2 * KeySize + 5 * U64Size + 4      \* 108
      [] t = InterestBearing    -> KeySize + 2 * U64Size + 4          \* 52
      [] OTHER                  -> 0

\* The value of an extension; NonTransferable and ImmutableOwner are only flags.
DecodedExt(t, raw) ==
    CASE t \in {MintCloseAuthority, PermanentDelegate} -> optPubkey(raw, 0)
      [] t \in {MetadataPointer, TransferHook}         -> <<TwoKeys(raw)>>
      [] t = DefaultAccountState                       -> <<raw[1]>>
      [] t \in {MemoTransfer, CpiGuard}                -> <<raw[1] # 0>>
      [] t = TransferFeeAmount                         -> <<U64At(raw, 0)>>
      [] t = TransferFeeConfig ->
            <<[keys |-> TwoKeys(raw), withheld |-> U64At(raw, 2 * KeySize),
               older |-> TransferFee(raw, 2 * KeySize + U64Size),
               newer |-> TransferFee(raw, 2 * KeySize + 3 * U64Size + 2)]>>
      [] t = InterestBearing ->
            <<[authority |-> optPubkey(raw, 0),
               initialized |-> I64At(raw, KeySize), averageRate |-> I16At(raw, KeySize + U64Size),
               updated |-> I64At(raw, KeySize + U64Size + 2),
               rate |-> I16At(raw, KeySize + 2 * U64Size + 2)]>>
      [] OTHER -> <<TRUE>>

\* decodeMintExt and decodeAccountExt: an extension of another kind is ignored.
DecodeExt(exts, t, raw) ==
    IF t \notin DOMAIN exts \/ Len(raw) < MinRaw(t) THEN exts
    ELSE [exts EXCEPT ![t] = DecodedExt(t, raw)]

\* The loop over the map, in the order the runtime picks: order.
TLVOf(data) == parseTLV(SubSeq(data, TLVStart + 1, Len(data)))
Extensions(kinds, map, order) ==
    FoldLeft(LAMBDA exts, t : DecodeExt(exts, t, map[t]), [t \in kinds |-> <<>>], order)

Extended(base, kinds, data, order) ==
    [state |-> base, exts |-> IF base.err = "nil" THEN Extensions(kinds, TLVOf(data), order)
                              ELSE [t \in kinds |-> <<>>]]
DecodeMintState(data, order) == Extended(TokenMint(data), MintExts, data, order)
DecodeAccount(data, order) == Extended(TokenAccount(data), AccountExts, data, order)

(***************************************************************************)
(* DecodeTableState.                                                         *)
(***************************************************************************)
NoTable == [disc |-> 0, deactivationSlot |-> 0, lastExtendedSlot |-> 0, startIndex |-> 0,
            authority |-> <<>>, addresses |-> <<>>]
Discriminant(p) == IF p.err = "nil" /\ p.val.disc # 1 THEN Fail(p, "invalid") ELSE p
AddressesField(p, tail) ==
    IF p.err # "nil" THEN p
    ELSE IF Len(tail) % KeySize # 0 THEN Fail(p, "invalid")
    ELSE Value(p, [p.val EXCEPT !.addresses =
            [i \in 1 .. Len(tail) \div KeySize |-> Part(tail, (i - 1) * KeySize, KeySize)]])
DecodeTableState(data) ==
    LET disc     == U32(Header(data, LookupTableMetaSize, NoTable), "disc")
        slot     == U64(Discriminant(disc), "deactivationSlot")
        extended == U64(slot, "lastExtendedSlot")
        start    == U8(extended, "startIndex")
        meta     == KeyAfter(start, "authority", ReadUint(start, 1))
    IN  IF Len(data) < LookupTableMetaSize THEN Short
        ELSE AddressesField(Skip(meta, 2), SubSeq(data, LookupTableMetaSize + 1, Len(data)))

(***************************************************************************)
(* Reference: the layouts, by writing the fields one after the other.  An        *)
(* optional field has a tag and a slot: <<tag, bytes of the slot>>.              *)
(***************************************************************************)
Opt(o) == IF o[1] = 1 THEN <<o[2]>> ELSE <<>>
EncodeMint(m) ==
    WriteUint(m.mintAuthority[1], U32Size) \o m.mintAuthority[2]
    \o WriteUint(m.supply, U64Size) \o <<m.decimals, m.initialized>>
    \o WriteUint(m.freezeAuthority[1], U32Size) \o m.freezeAuthority[2]
ExpectedMint(m) ==
    [m EXCEPT !.mintAuthority = Opt(@), !.freezeAuthority = Opt(@), !.initialized = (@ # 0)]

EncodeAccount(a) ==
    a.mint \o a.owner \o WriteUint(a.amount, U64Size)
    \o WriteUint(a.delegate[1], U32Size) \o a.delegate[2] \o <<a.state>>
    \o WriteUint(a.isNative[1], U32Size) \o WriteUint(a.isNative[2], U64Size)
    \o WriteUint(a.delegatedAmount, U64Size)
    \o WriteUint(a.closeAuthority[1], U32Size) \o a.closeAuthority[2]
ExpectedAccount(a) ==
    [a EXCEPT !.delegate = Opt(@), !.isNative = Opt(@), !.closeAuthority = Opt(@)]

EncodeTable(s) ==
    WriteUint(s.disc, U32Size) \o WriteUint(s.deactivationSlot, U64Size)
    \o WriteUint(s.lastExtendedSlot, U64Size) \o <<s.startIndex>>
    \o <<s.authority[1]>> \o s.authority[2] \o <<0, 0>> \o FlattenSeq(s.addresses)
ExpectedTable(s) == [s EXCEPT !.authority = Opt(@)]

\* The raw bytes of an extension, from the fields in their order.
EncodeExt(fields) == FlattenSeq([i \in DOMAIN fields |-> WriteUint(
    AsUint(fields[i].v, fields[i].n), fields[i].n)])
EncodeTLV(entries) ==
    FlattenSeq([i \in DOMAIN entries |->
        WriteUint(entries[i].t, 2) \o WriteUint(Len(entries[i].raw), 2) \o entries[i].raw])
================================================================================
