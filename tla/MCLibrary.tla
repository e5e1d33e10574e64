------------------------------- MODULE MCLibrary -------------------------------
(***************************************************************************)
(* A small instance of Library: bytes of three bits, keys of two bytes, length    *)
(* prefixes of two (Borsh) and three (bincode) bytes.                             *)
(***************************************************************************)
EXTENDS Library

GoroutineSymmetry == Permutations(Goroutines)

(***************************************************************************)
(* Go types.                                                                 *)
(***************************************************************************)
GoType(kind, elem, len, fields, iface) ==
    [kind |-> kind, elem |-> elem, len |-> len, fields |-> fields, iface |-> iface]
Scalar(kind) == GoType(kind, "", 0, <<>>, FALSE)
Of(kind, elem) == GoType(kind, elem, 0, <<>>, FALSE)
ArrayOf(len, elem) == GoType("Array", elem, len, <<>>, FALSE)
Struct(fields) == GoType("Struct", "", 0, fields, FALSE)
F(typ)       == [typ |-> typ, exported |-> TRUE, skip |-> FALSE]
Hidden(typ)  == [typ |-> typ, exported |-> FALSE, skip |-> FALSE]
Skipped(typ) == [typ |-> typ, exported |-> TRUE, skip |-> TRUE]

\* Wide has every width and sign; Mixed fields of a struct in an array, with fields
\* that are not on the wire between them; Vecs slices and strings; Blob bytes;
\* Node and Nodes contain themselves; Chain would, but for a tag; Tree would, but
\* unmarshals itself; Bad has a field of interface type.
MCTypeOf ==
    [u8 |-> Scalar("U8"), u16 |-> Scalar("U16"), u32 |-> Scalar("U32"), u64 |-> Scalar("U64"),
     i8 |-> Scalar("I8"), i16 |-> Scalar("I16"), i32 |-> Scalar("I32"), i64 |-> Scalar("I64"),
     uint |-> Scalar("Uint"), int |-> Scalar("Int"),
     bool |-> Scalar("Bool"), string |-> Scalar("String"), map |-> Scalar("Map"),
     any |-> Scalar("Interface"),
     bytes |-> Of("Slice", "u8"), key |-> ArrayOf(2, "u8"),
     Pair |-> Struct(<<F("u8"), Hidden("u8"), F("i8")>>),
     pairs |-> ArrayOf(2, "Pair"), optPair |-> Of("Pointer", "Pair"),
     pairList |-> Of("Slice", "Pair"), nodePtr |-> Of("Pointer", "Node"),
     nodeList |-> Of("Slice", "Node"), chainPtr |-> Of("Pointer", "Chain"),
     treeList |-> Of("Slice", "Tree"),
     Wide  |-> Struct(<<F("u16"), F("i16"), F("u32"), F("i32"), F("u64"), F("i64"),
                        F("uint"), F("int")>>),
     Mixed |-> Struct(<<F("bool"), Skipped("map"), F("pairs"), Hidden("u8"), F("optPair")>>),
     Vecs  |-> Struct(<<F("pairList"), Skipped("u8"), F("string")>>),
     Blob  |-> Struct(<<F("key"), F("bytes")>>),
     Node  |-> Struct(<<F("u8"), F("nodePtr")>>),
     Nodes |-> Struct(<<F("nodeList")>>),
     Chain |-> Struct(<<F("u8"), Skipped("chainPtr"), F("Pair")>>),
     Tree  |-> GoType("Struct", "", 0, <<F("u8"), F("treeList")>>, TRUE),
     Forest |-> Struct(<<F("Tree"), F("treeList")>>),
     Bad   |-> Struct(<<F("u8"), F("any")>>)]
MCTypes == {"Wide", "Mixed", "Vecs", "Blob", "Node", "Nodes", "Chain", "Forest", "Bad"}

Pairs == {<<0, -1>>, <<7, 3>>}
Names == {<<>>, <<1>>, <<7, 0>>}
MCDecoded(t) ==
    CASE t = "Wide"   -> {<<9, -1, 63, -32, 511, -256, 0, 255>>,
                          <<0, 31, 8, 0, 1, 255, 511, -256>>}
      [] t = "Mixed"  -> {<<b, <<p, q>>, o>> : b \in BOOLEAN, p, q \in Pairs,
                                               o \in {<<>>} \cup {<<p>> : p \in Pairs}}
      [] t = "Vecs"   -> {<<s, n>> : s \in {<<>>} \cup {<<p>> : p \in Pairs}
                                          \cup {<<p, q>> : p, q \in Pairs}, n \in Names}
      [] t = "Blob"   -> {<<k, n>> : k \in {<<0, 6>>}, n \in Names}
      [] t = "Chain"  -> {<<2, p>> : p \in Pairs}
      [] t = "Forest" -> {<<9, s>> : s \in {<<>>, <<0>>, <<63, 8>>}}
      [] OTHER        -> {}
MCTails == {<<>>, <<1, 0>>}
Strings(S, n) == UNION {[1 .. k -> S] : k \in 0 .. n}
MCGarbage(t) ==
    IF t = "Mixed" THEN {<<b, 0, 0, 7, 7>> \o s : b \in 0 .. 2, s \in Strings({0, 1, 2, 7}, 4)}
    ELSE Strings({0, 1, 2, 7}, 4) \cup {<<1, 0>> \o s : s \in Strings({0, 2, 7}, 4)}

(***************************************************************************)
(* Accounts.                                                                 *)
(***************************************************************************)
K == <<3, 1>>
MintStates == {
    [mintAuthority |-> <<tag, K>>, supply |-> 300, decimals |-> 6, initialized |-> i,
     freezeAuthority |-> <<1 - (tag % 2), <<0, 4>>>>] : tag \in 0 .. 2, i \in 0 .. 2}
AccountStates == {
    [mint |-> K, owner |-> <<7, 7>>, amount |-> 511, delegate |-> <<tag, K>>, state |-> 2,
     isNative |-> <<other, 77>>, delegatedAmount |-> 1, closeAuthority |-> <<tag, <<5, 0>>>>]
        : tag \in 0 .. 2, other \in 0 .. 2}
TableStates == {
    [disc |-> disc, deactivationSlot |-> 511, lastExtendedSlot |-> 8, startIndex |-> 1,
     authority |-> <<tag, K>>, addresses |-> addresses]
        : disc \in 0 .. 2, tag \in 0 .. 2, addresses \in {<<>>, <<K>>, <<K, <<0, 0>>>>}}
Cuts == 0 .. 5

KeyF(key) == [v |-> LittleEndian(key), n |-> KeySize]
U64F(v) == [v |-> v, n |-> U64Size]
U16F(v) == [v |-> v, n |-> 2]
U8F(v)  == [v |-> v, n |-> 1]
Fee(e, m, b) == [epoch |-> e, maximumFee |-> m, basisPoints |-> b]
FeeF(fee) == <<U64F(fee.epoch), U64F(fee.maximumFee), U16F(fee.basisPoints)>>

\* <<type, fields in their order, value>>
Ext(t, fields, val) == [t |-> t, fields |-> fields, val |-> val]
ExtsWith(key) == {
    Ext(MintCloseAuthority, <<KeyF(key)>>, OptKey(key)),
    Ext(PermanentDelegate, <<KeyF(key)>>, OptKey(key)),
    Ext(MetadataPointer, <<KeyF(key), KeyF(K)>>, <<[authority |-> OptKey(key), address |-> <<K>>]>>),
    Ext(TransferHook, <<KeyF(K), KeyF(key)>>, <<[authority |-> <<K>>, address |-> OptKey(key)]>>),
    Ext(InterestBearing, <<KeyF(key), U64F(-2), U16F(-32), U64F(200), U16F(31)>>,
        <<[authority |-> OptKey(key), initialized |-> -2, averageRate |-> -32, updated |-> 200,
           rate |-> 31]>>),
    Ext(TransferFeeConfig, <<KeyF(key), KeyF(K), U64F(400)>> \o FeeF(Fee(1, 20, 63))
                           \o FeeF(Fee(511, 8, 9)),
        <<[keys |-> [authority |-> OptKey(key), address |-> <<K>>], withheld |-> 400,
           older |-> Fee(1, 20, 63), newer |-> Fee(511, 8, 9)]>>) }
MCExts ==
    ExtsWith(ZeroKey) \cup ExtsWith(<<0, 2>>) \cup {
    Ext(DefaultAccountState, <<U8F(2)>>, <<2>>), Ext(DefaultAccountState, <<U8F(0)>>, <<0>>),
    Ext(MemoTransfer, <<U8F(0)>>, <<FALSE>>), Ext(CpiGuard, <<U8F(2)>>, <<TRUE>>),
    Ext(TransferFeeAmount, <<U64F(100)>>, <<100>>),
    Ext(NonTransferable, <<>>, <<TRUE>>), Ext(ImmutableOwner, <<>>, <<TRUE>>),
    Ext(5, <<U8F(1)>>, <<>>) }

RawOf(e, cut) ==
    LET raw == EncodeExt(e.fields)
    IN  IF cut < 0 THEN SubSeq(raw, 1, Len(raw) - 1) ELSE IF cut > 0 THEN Append(raw, 5) ELSE raw
Entries == {[t |-> e.t, val |-> e.val, cut |-> c, raw |-> RawOf(e, c)]
               : e \in MCExts, c \in -1 .. 1}
WellFormed == {e \in Entries : e.t \in {NonTransferable, ImmutableOwner} => e.cut >= 0}

\* The end of the data, a few bytes, an entry of type 0 with one behind it, an
\* entry that is longer than what is left.
Stops == {<<>>, <<1, 0>>, <<0, 0, 0, 0, 7, 0, 0, 0>>, <<7, 0, 2, 0, 1>>}
EntryLists ==
    {<<>>} \cup {<<e>> : e \in WellFormed}
    \cup {s \in WellFormed \X WellFormed :
             \/ s[1].t = s[2].t
             \/ s[2].t \in {ImmutableOwner, DefaultAccountState} /\ s[2].cut = 0}

\* Every state, whole and cut short, and one of them with every list of extensions.
Cutoff(states) == {[state |-> s, entries |-> <<>>, tlv |-> <<>>, cut |-> n]
                      : s \in states, n \in Cuts}
WithTLV(state) == {[state |-> state, entries |-> es, tlv |-> EncodeTLV(es) \o stop, cut |-> 0]
                      : es \in EntryLists, stop \in Stops}
MCMints == Cutoff(MintStates) \cup WithTLV(CHOOSE m \in MintStates : m.initialized = 1)
MCTokenAccounts == Cutoff(AccountStates) \cup WithTLV(CHOOSE a \in AccountStates : TRUE)
MCTables == {[state |-> s, cut |-> n] : s \in TableStates, n \in Cuts}

(***************************************************************************)
(* Wide integers, with words of two bytes, and seeds.                          *)
(***************************************************************************)
Words == {0, 1, 8, 31, 32, 63}
MCWide128 == {WriteUint(a, 2) \o WriteUint(b, 2) : a, b \in Words}
MCWide256 == {u \o v : u, v \in MCWide128}
MCBigInts == {-5000, -4096, -1, 0, 1, 7, 8, 63, 64, 4095, 4096, 5000,
              16777215, 16777216, 16777217}
MCTexts == {<<>>, <<0>>, <<4, 0, 9, 5>>, <<4, 0, 9, 6>>, <<Minus, 1>>, <<Minus, 0>>, <<Plus, 7>>,
            <<Minus>>, <<Quote>>, <<Quote, Quote>>, <<Quote, 6, 4, Quote>>, <<Quote, 6, 4>>,
            <<1, 13>>}
MCSeeds == {<<>>, <<<<1>>>>, <<<<1, 2>>, <<>>>>, <<<<1>>, <<2>>, <<0>>>>,
            <<<<1>>, <<2>>, <<0>>, <<5>>>>, <<<<1, 2, 3, 4>>>>}
MCPrograms == {<<6, 6>>, <<6, 0>>}
MCSlots == {0, 1, 511}

(***************************************************************************)
(* Transaction errors: JSON numbers around every limit and in every form, lists   *)
(* of every length, objects with no, one, two and repeated members; the same as   *)
(* Go values, and Go numbers of other types.                                       *)
(***************************************************************************)
Limits == {-1, 0, 7, 8, 63, 64, 511, 512}
Numbers == {Num(n, "digits") : n \in Limits} \cup {Num(n, "integer") : n \in {0, 7, 63, 64}}
           \cup {Num(1, "fraction")}
Plain == {Text("A"), Text("Custom"), Null, Object(<<>>), Array(<<>>), Num(3, "digits")}
Inner ==
    Plain \cup {Object(<<<<k, v>>>>) : k \in {"A", "Custom"}, v \in Numbers \cup {Null, Text("1")}}
    \cup {Object(<<<<"Custom", Num(1, "digits")>>, <<k, Num(2, "digits")>>>>)
             : k \in {"A", "Custom"}}
Lists ==
    {<<>>, <<Num(0, "digits")>>, <<Num(0, "digits"), Text("A"), Text("A")>>}
    \cup {<<i, v>> : i \in Numbers \cup {Text("0"), Null}, v \in Inner}
Documents ==
    Inner \cup {Object(<<<<"InstructionError", v>>>>) : v \in Plain \cup {Array(l) : l \in Lists}}
    \cup {Object(<<<<"InstructionError", Array(<<Num(0, "digits"), Text("A")>>)>>, <<"A", Null>>>>)}
GoNumbers == {[t |-> "int", n |-> n] : n \in {-1, 0, 7, 8, 63, 64, 255}}
             \cup {[t |-> "uint", n |-> n] : n \in Limits \cap 0 .. MaxUint64}
GoErrors ==
    {[t |-> "map", of |-> [InstructionError |-> [t |-> "list", elems |-> <<i, v>>]]]
        : i \in GoNumbers, v \in {[t |-> "map", of |-> [Custom |-> c]] : c \in GoNumbers}}
MCRawErrors ==
    {Nil, RawMessage([t |-> "blank"]), RawMessage([t |-> "invalid"]), RawMessage(Null)}
    \cup {RawMessage(d) : d \in Documents} \cup {Unmarshal(d, FALSE) : d \in Documents}
    \cup GoErrors
MCRuntimeErrors ==
    {[is |-> is, index |-> i, kind |-> "A", payload |-> p]
        : is \in {"transaction", "instruction"}, i \in {0, 7},
          p \in {NoPayload, Num(511, "digits"), Text("1")}}
    \cup {[is |-> "instruction", index |-> i, kind |-> "Custom", payload |-> Num(c, "digits")]
             : i \in {0, 7}, c \in {0, 8, 63}}

(***************************************************************************)
(* Precompiles: messages around the limits of a uint8 and a uint16, descriptors    *)
(* with every field at its own value, as many as a uint8 counts and one more.      *)
(***************************************************************************)
MCMessages == {[i \in 1 .. n |-> i % ByteMod] : n \in {0, 1, 7, 8, 63, 64, 65}}
Offsets == {
    [sig |-> 19, sigIx |-> 7, key |-> 63, keyIx |-> 0, msg |-> 8, size |-> 0, msgIx |-> 1],
    [sig |-> 0, sigIx |-> 1, key |-> 1, keyIx |-> 7, msg |-> 63, size |-> 62, msgIx |-> 5]}
MCDescriptors == UNION {[1 .. n -> Offsets] : n \in 0 .. 3}
                 \cup {[i \in 1 .. n |-> o] : n \in {7, 8, 9}, o \in Offsets}
================================================================================
