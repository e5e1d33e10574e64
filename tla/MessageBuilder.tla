---------------------------- MODULE MessageBuilder -----------------------------
(***************************************************************************)
(* NewMessage and NewMessageV0 (message_builder.go): the compilation of      *)
(* instructions into a message whose accounts are indices, and               *)
(* ResolvedAccountKeys (message.go), which turns the indices back into keys. *)
(*                                                                          *)
(* An account reference is [key, signer, writable]; an instruction is        *)
(* [program, metas]; a lookup table is [key, addrs].  Indices start at 0, as  *)
(* in the code.  The caller assembles the instructions one account at a time  *)
(* and then compiles them both ways.                                         *)
(***************************************************************************)
EXTENDS Integers, Sequences, SequencesExt, FiniteSets, FiniteSetsExt

CONSTANTS
    Payer,        \* the fee payer
    Programs,     \* program ids
    Others,       \* other accounts
    TableKeys,    \* addresses of lookup tables
    TableSets,    \* the lookup tables a caller may have loaded: sequences of tables
    MaxAccounts,  \* 256: the number of values of a uint8
    MaxIxs,       \* bound: instructions
    MaxMetas,     \* bound: account references in all instructions
    MaxSigners    \* bound: signers; a transaction must fit a packet

Keys == {Payer} \cup Programs \cup Others

ASSUME WidthAssumption == MaxAccounts \in Nat \ {0} /\ MaxSigners \in 1 .. MaxAccounts - 1

\* A table has at most 256 addresses, and its address stands for one list of them.
ASSUME TableAssumption ==
    /\ TableSets \subseteq Seq([key : TableKeys, addrs : Seq(Keys)])
    /\ \A ts \in TableSets : \A i, j \in DOMAIN ts :
          /\ Len(ts[i].addrs) <= MaxAccounts
          /\ ts[i].key = ts[j].key => ts[i].addrs = ts[j].addrs

NoMessage == [ok |-> FALSE]      \* not built yet, or an error

Uint8(n) == n % MaxAccounts

\* The elements of s that are in T, in the order of s.
Where(s, T) ==
    LET upto[n \in 0 .. Len(s)] ==
          IF n = 0 THEN <<>>
          ELSE IF s[n] \in T THEN Append(upto[n - 1], s[n]) ELSE upto[n - 1]
    IN  upto[Len(s)]

(***************************************************************************)
(* staticEntries.                                                          *)
(***************************************************************************)

\* Entries in the order of firstSeen.  Roles only grow.
RolesReplaced(entries, ref) ==  \* mutant: the last reference decides
    IF \E i \in DOMAIN entries : entries[i].key = ref.key
      THEN [i \in DOMAIN entries |->
              IF entries[i].key = ref.key /\ i > 1 THEN ref ELSE entries[i]]
      ELSE Append(entries, ref)
LastSeenOrder(entries, ref) ==  \* mutant: an entry moves when it is updated
    LET old == SelectSeq(entries, LAMBDA e : e.key = ref.key)
    IN  IF old = <<>> THEN Append(entries, ref) ELSE
        Append(SelectSeq(entries, LAMBDA e : e.key # ref.key),
               [key |-> ref.key, signer |-> old[1].signer \/ ref.signer,
                writable |-> old[1].writable \/ ref.writable])
AddOrUpdate(entries, ref) ==
    IF \E i \in DOMAIN entries : entries[i].key = ref.key
      THEN [i \in DOMAIN entries |->
              IF entries[i].key # ref.key THEN entries[i]
              ELSE [key |-> ref.key,
                    signer |-> entries[i].signer \/ ref.signer,
                    writable |-> entries[i].writable \/ ref.writable]]
      ELSE Append(entries, ref)

\* addOrUpdate for one reference after the other, from newStaticEntries.
Entries(refs) ==
    LET after[n \in 0 .. Len(refs)] ==
          IF n = 0 THEN <<>> ELSE AddOrUpdate(after[n - 1], refs[n])
    IN  after[Len(refs)]

PayerRef(payer) == [key |-> payer, signer |-> TRUE, writable |-> TRUE]
ProgramRef(ix) == [key |-> ix.program, signer |-> FALSE, writable |-> FALSE]

BucketOf(e) == (IF e.signer THEN 0 ELSE 2) + (IF e.writable THEN 0 ELSE 1)

BucketAndOrder(entries) ==
    LET bucket(b) == Where(entries, {e \in ToSet(entries) : BucketOf(e) = b})
        ordered == bucket(0) \o bucket(1) \o bucket(2) \o bucket(3)
    IN  [keys |-> [i \in DOMAIN ordered |-> ordered[i].key],
         required |-> Uint8(Len(bucket(0)) + Len(bucket(1))),
         readonlySigned |-> Uint8(Len(bucket(1))),
         readonlyUnsigned |-> Uint8(Len(bucket(3)))]

\* The index of the last occurrence of k: a later assignment to keyIndex wins.
KeyIndex(keys, k) == Max({i \in DOMAIN keys : keys[i] = k}) - 1

CompileInstructions(ixs, keys) ==
    [j \in DOMAIN ixs |->
        [program  |-> Uint8(KeyIndex(keys, ixs[j].program)),
         accounts |-> [i \in DOMAIN ixs[j].metas |->
                          Uint8(KeyIndex(keys, ixs[j].metas[i].key))]]]

(***************************************************************************)
(* NewMessage.                                                             *)
(***************************************************************************)
References(ixs) == FlattenSeq([j \in DOMAIN ixs |->
                        Append(ixs[j].metas, ProgramRef(ixs[j]))])

NewMessage(payer, ixs) ==
    LET header == BucketAndOrder(Entries(<<PayerRef(payer)>> \o References(ixs)))
    IN  IF ixs = <<>> \/ Len(header.keys) > MaxAccounts THEN NoMessage
        ELSE [ok |-> TRUE, header |-> header, lookups |-> <<>>,
              ixs |-> CompileInstructions(ixs, header.keys)]

(***************************************************************************)
(* NewMessageV0.                                                           *)
(***************************************************************************)

\* tableIndex: the first table that holds the key, and its first slot there.
InTable(tables, k) == \E ti \in DOMAIN tables : k \in ToSet(tables[ti].addrs)
TableSlot(tables, k) ==
    LET ti == SelectInSeq(tables, LAMBDA t : k \in ToSet(t.addrs))
    IN  <<ti, SelectInSeq(tables[ti].addrs, LAMBDA a : a = k) - 1>>

SignerSet(payer, ixs) ==
    {payer} \cup {r.key : r \in {x \in ToSet(References(ixs)) : x.signer}}

\* Which account references go through a table; program ids never do.
RouteSigners(tables, payer, ixs, ref) == InTable(tables, ref.key)  \* mutant: signers too
Routed(tables, payer, ixs, ref) ==
    InTable(tables, ref.key) /\ ref.key \notin SignerSet(payer, ixs)

StaticReferences(tables, payer, ixs) ==
    FlattenSeq([j \in DOMAIN ixs |->
        Append(Where(ixs[j].metas, {r \in ToSet(ixs[j].metas) :
                                        ~Routed(tables, payer, ixs, r)}),
               ProgramRef(ixs[j]))])

\* tableAccounts[ti]: the slots in use, ascending, those of the writable or of
\* the read-only accounts.
TableSlots(tables, payer, ixs, ti, writable) ==
    LET routed == {r \in UNION {ToSet(ixs[j].metas) : j \in DOMAIN ixs} :
                        Routed(tables, payer, ixs, r)}
        slots == {s \in 0 .. Len(tables[ti].addrs) - 1 :
                    \E r \in routed : TableSlot(tables, r.key) = <<ti, s>>}
        writes(s) == \E r \in routed :
                        r.writable /\ TableSlot(tables, r.key) = <<ti, s>>
    IN  Where([i \in 1 .. Len(tables[ti].addrs) |-> i - 1],
              {s \in slots : writes(s) = writable})

\* The keys behind the slots: all writable ones, then all read-only ones.
PerTableOrder(tables, slots) ==  \* mutant: table by table
    FlattenSeq([ti \in DOMAIN tables |->
        [i \in DOMAIN slots[ti].w |-> tables[ti].addrs[slots[ti].w[i] + 1]] \o
        [i \in DOMAIN slots[ti].r |-> tables[ti].addrs[slots[ti].r[i] + 1]]])
LookupKeys(tables, slots) ==
    FlattenSeq([ti \in DOMAIN tables |->
        [i \in DOMAIN slots[ti].w |-> tables[ti].addrs[slots[ti].w[i] + 1]]]) \o
    FlattenSeq([ti \in DOMAIN tables |->
        [i \in DOMAIN slots[ti].r |-> tables[ti].addrs[slots[ti].r[i] + 1]]])

\* next > 256: the total, static and looked up, must fit a uint8 index.
TotalFits(static, looked) == Len(static) + Len(looked) <= MaxAccounts

NewMessageV0(payer, ixs, tables) ==
    LET header == BucketAndOrder(Entries(<<PayerRef(payer)>> \o
                                     StaticReferences(tables, payer, ixs)))
        slots == [ti \in DOMAIN tables |->
                    [w |-> TableSlots(tables, payer, ixs, ti, TRUE),
                     r |-> TableSlots(tables, payer, ixs, ti, FALSE)]]
        looked == LookupKeys(tables, slots)
        lookup(ti) == [key |-> tables[ti].key,
                       writable |-> [i \in DOMAIN slots[ti].w |-> Uint8(slots[ti].w[i])],
                       readonly |-> [i \in DOMAIN slots[ti].r |-> Uint8(slots[ti].r[i])]]
        emit == Where([ti \in DOMAIN tables |-> ti],
                      {ti \in DOMAIN tables : slots[ti].w \o slots[ti].r # <<>>})
    IN  IF ixs = <<>> \/ Len(header.keys) > MaxAccounts \/ ~TotalFits(header.keys, looked)
          THEN NoMessage
        ELSE [ok |-> TRUE, header |-> header, lookups |-> [i \in DOMAIN emit |-> lookup(emit[i])],
              ixs |-> CompileInstructions(ixs, header.keys \o looked)]

(***************************************************************************)
(* ResolvedAccountKeys, with alts taken from the loaded tables.             *)
(***************************************************************************)
Addresses(tables, key) == tables[SelectInSeq(tables, LAMBDA t : t.key = key)].addrs

LookedUp(m, tables, field) ==
    FlattenSeq([i \in DOMAIN m.lookups |->
        [n \in DOMAIN m.lookups[i][field] |->
            Addresses(tables, m.lookups[i].key)[m.lookups[i][field][n] + 1]]])

ResolvedAccountKeys(m, tables) ==
    m.header.keys \o LookedUp(m, tables, "writable") \o LookedUp(m, tables, "readonly")

(***************************************************************************)
(* The caller.                                                             *)
(***************************************************************************)
VARIABLES
    tables,    \* the lookup tables the caller has loaded
    ixs,       \* the instructions so far
    compiled,  \* the builders have been called
    legacy,    \* what NewMessage returned
    v0         \* what NewMessageV0 returned

vars == <<tables, ixs, compiled, legacy, v0>>

Init ==
    /\ tables \in TableSets
    /\ ixs = <<>> /\ compiled = FALSE /\ legacy = NoMessage /\ v0 = NoMessage

AddInstruction(p) ==
    /\ ~compiled /\ Len(ixs) < MaxIxs
    /\ ixs' = Append(ixs, [program |-> p, metas |-> <<>>])
    /\ UNCHANGED <<tables, compiled, legacy, v0>>

AddAccount(ref) ==
    /\ ~compiled /\ ixs # <<>>
    /\ Len(References(ixs)) - Len(ixs) < MaxMetas
    /\ ixs' = [ixs EXCEPT ![Len(ixs)].metas = Append(@, ref)]
    /\ Cardinality(SignerSet(Payer, ixs')) <= MaxSigners
    /\ UNCHANGED <<tables, compiled, legacy, v0>>

Compile ==
    /\ ~compiled /\ compiled' = TRUE
    /\ legacy' = NewMessage(Payer, ixs)
    /\ v0' = NewMessageV0(Payer, ixs, tables)
    /\ UNCHANGED <<tables, ixs>>

Next ==
    \/ \E p \in Programs : AddInstruction(p)
    \/ \E ref \in [key : Keys, signer : BOOLEAN, writable : BOOLEAN] : AddAccount(ref)
    \/ Compile

Spec == Init /\ [][Next]_vars

--------------------------------------------------------------------------------
Messages == {m \in {legacy, v0} : m.ok}

\* What the runtime grants the account at index i of a message: the header for the
\* static keys, the lookup it came from for the others.
RuntimeSigner(m, i) == i < m.header.required
RuntimeWritable(m, i) ==
    LET static == Len(m.header.keys)
    IN  IF i < m.header.required THEN i < m.header.required - m.header.readonlySigned
        ELSE IF i < static THEN i < static - m.header.readonlyUnsigned
        ELSE i < static + Len(LookedUp(m, tables, "writable"))

WantsSigner(k) == k \in SignerSet(Payer, ixs)
WantsWritable(k) == k = Payer \/ \E r \in ToSet(References(ixs)) : r.key = k /\ r.writable

\* Every index of a compiled instruction resolves, through the same tables, to the
\* account or program the instruction named: compiling and resolving agree on the
\* order of the index space, and no index was cut down to a uint8.
IndicesResolve ==
    \A m \in Messages :
        LET keys == ResolvedAccountKeys(m, tables)
        IN  \A j \in DOMAIN ixs :
                /\ keys[m.ixs[j].program + 1] = ixs[j].program
                /\ \A i \in DOMAIN ixs[j].metas :
                        keys[m.ixs[j].accounts[i] + 1] = ixs[j].metas[i].key

\* An account a compiled instruction refers to is a signer, or writable, exactly if
\* the payer rule or some instruction asked for it: roles accumulate over
\* instructions, and neither the header nor a lookup table grants more or less.
RolesGranted ==
    \A m \in Messages :
        LET keys == ResolvedAccountKeys(m, tables)
            used == {0} \cup UNION {ToSet(m.ixs[j].accounts) : j \in DOMAIN m.ixs}
        IN  \A i \in used :
                /\ RuntimeSigner(m, i) <=> WantsSigner(keys[i + 1])
                /\ RuntimeWritable(m, i) <=> WantsWritable(keys[i + 1])

\* "payer (always first)", then the buckets, and within a bucket the order of first
\* appearance in the instructions: the output is a function of the input order.
OrderedByRole ==
    \A m \in Messages :
        LET keys == m.header.keys
            bucket(i) == BucketOf([signer |-> RuntimeSigner(m, i - 1),
                                   writable |-> RuntimeWritable(m, i - 1)])
            refs == <<PayerRef(Payer)>> \o IF m = legacy THEN References(ixs)
                                           ELSE StaticReferences(tables, Payer, ixs)
            first(k) == SelectInSeq(refs, LAMBDA r : r.key = k)
        IN  /\ keys[1] = Payer
            /\ \A i, j \in DOMAIN keys : i < j =>
                  \/ bucket(i) < bucket(j)
                  \/ bucket(i) = bucket(j) /\ first(keys[i]) < first(keys[j])

\* An account is loaded once: no key occurs twice among the resolved accounts,
\* except a program id that a table also holds.
LoadedOnce ==
    \A m \in Messages :
        LET keys == ResolvedAccountKeys(m, tables)
        IN  \A i, j \in DOMAIN keys :
                keys[i] = keys[j] /\ i # j => keys[i] \in Programs

\* "Program IDs are always static."
ProgramIdsStatic ==
    v0.ok => \A j \in DOMAIN v0.ixs : v0.ixs[j].program < Len(v0.header.keys)
================================================================================
