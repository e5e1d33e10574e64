--------------------------------- MODULE Codec ---------------------------------
(***************************************************************************)
(* The reflective decoder (encoding/decode_plan.go, codec.go, borsh.go): a Go   *)
(* type is compiled into a flat list of opcodes with memory offsets, which is   *)
(* then run over the bytes and the memory of the value.                         *)
(*                                                                          *)
(* Memory is a sequence of cells, one per scalar; a slice, string or pointer     *)
(* is one cell that holds the memory it points to.  Cells stand for bytes of     *)
(* memory, so offsets and sizes are those of the code without alignment.         *)
(***************************************************************************)
EXTENDS Wire

CONSTANTS
    TypeOf,       \* the Go types by name: kind, elem, len, fields, iface
    MaxDepth      \* calls of emitValue that fit a stack

Width == [U8 |-> 1, U16 |-> 2, U32 |-> U32Size, U64 |-> U64Size,
          I8 |-> 1, I16 |-> 2, I32 |-> U32Size, I64 |-> U64Size, Bool |-> 1]
Unsigned == {"U8", "U16", "U32", "U64"}
Signed == {"I8", "I16", "I32", "I64"}
\* uint and int are decoded as uint64 and int64, which they are on 64-bit platforms.
OpOf(kind) == IF kind = "Uint" THEN "U64" ELSE IF kind = "Int" THEN "I64" ELSE kind
ByteElem(d) == TypeOf[d.elem].kind = "U8"

\* The cells of a value whose scalars are z and whose references are nil.
RECURSIVE Cells(_, _)
Cells(t, z) ==
    LET d == TypeOf[t]
    IN  CASE d.kind = "Struct"  -> FlattenSeq([i \in DOMAIN d.fields |-> Cells(d.fields[i].typ, z)])
          [] d.kind = "Array"   -> FlattenSeq([i \in 1 .. d.len |-> Cells(d.elem, z)])
          [] d.kind = "Slice"   -> <<[len |-> 0, mem |-> <<>>]>>
          [] d.kind \in {"Pointer", "String"} -> <<<<>>>>
          [] d.kind = "Bool"    -> <<z # 0>>
          [] OTHER              -> <<z>>
Sizes == [t \in DOMAIN TypeOf |-> Len(Cells(t, 0))]
Size(t) == Sizes[t]

(***************************************************************************)
(* compileDecodePlan.  The result is a list of ops, or how it failed.           *)
(***************************************************************************)
Plan(ops) == [outcome |-> "plan", ops |-> ops]
Failed(outcome) == [outcome |-> outcome, ops |-> <<>>]
Op(kind, off, typ, sub) == Plan(<<[kind |-> kind, off |-> off, typ |-> typ, sub |-> sub]>>)

\* Exported fields without the tag bin:"-" are on the wire.
OnWire(d) == SelectSeq([i \in DOMAIN d.fields |-> i],
                       LAMBDA i : d.fields[i].exported /\ ~d.fields[i].skip)
FieldOffset(d, i) == SumOf([j \in 1 .. i - 1 |-> Size(d.fields[j].typ)])

NeverImplements(d) == FALSE        \* mutant: *T is not asked for Unmarshaler
ImplementsUnmarshaler(d) == d.iface

RECURSIVE emitValue(_, _, _)
emitValue(t, off, depth) ==
    LET d == TypeOf[t]
        nested(kind) == LET sub == emitValue(d.elem, 0, depth + 1)
                        IN  IF sub.outcome = "plan" THEN Op(kind, off, t, sub.ops) ELSE sub
        field(p, i) == LET q == emitValue(d.fields[i].typ, off + FieldOffset(d, i), depth + 1)
                       IN  IF q.outcome = "plan" THEN Plan(p.ops \o q.ops) ELSE q
    IN  IF depth > MaxDepth THEN Failed("overflow")
        ELSE IF ImplementsUnmarshaler(d) THEN Op("CallIface", off, t, <<>>)
        ELSE CASE OpOf(d.kind) \in Unsigned \cup Signed \cup {"Bool", "String"} ->
                     Op(OpOf(d.kind), off, t, <<>>)
               [] d.kind = "Array" -> IF ByteElem(d) THEN Op("FixedBytes", off, t, <<>>)
                                      ELSE nested("FixedArray")
               [] d.kind = "Slice" -> IF ByteElem(d) THEN Op("ByteSlice", off, t, <<>>)
                                      ELSE nested("Slice")
               [] d.kind = "Pointer" -> nested("Pointer")
               [] d.kind = "Struct" ->
                     FoldLeft(LAMBDA p, i : IF p.outcome = "plan" THEN field(p, i) ELSE p,
                              Plan(<<>>), OnWire(d))
               [] OTHER -> Failed("error")

compileDecodePlan(t) == emitValue(t, 0, 1)
CompileOutcome(t) == compileDecodePlan(t).outcome

(***************************************************************************)
(* execDecodePlan.  s is the decoder with the memory written so far; what an     *)
(* op wrote before it failed stays written.                                    *)
(***************************************************************************)
Wrote(s, q, i, cell) ==            \* q, read from s, gives cell i, unless it failed
    IF q.err = "nil" THEN [p |-> q, mem |-> [s.mem EXCEPT ![i] = cell]]
    ELSE [s EXCEPT !.p = q]
WroteSub(s, sub, i, cell) == [p |-> sub.p, mem |-> [s.mem EXCEPT ![i] = cell]]

readLen(p, borsh) == ReadUint(p, IF borsh THEN U32Size ELSE U64Size)
\* Not more than what remains, before anything is allocated.
LenBounded(q) == IF q.err = "nil" /\ q.val > Len(q.rest) THEN Fail(q, "invalid") ELSE q
LenRead(p, borsh) == LenBounded(readLen(p, borsh))
BytesRead(q) == ReadBytes(q, q.val)

AnyBool(q) == Value(q, q.val # 0)  \* mutant: every other byte is true
BoolRead(q) == IF q.err = "nil" /\ q.val > 1 THEN Fail(q, "invalid") ELSE Value(q, q.val = 1)

\* UnmarshalFromDecoder of the types in TypeOf, external: a uint16, their first cell.
CallIface(p) == ReadUint(p, 2)

OverBytes(mem, at, bytes) ==
    [i \in DOMAIN mem |-> IF i \in at .. at + Len(bytes) - 1 THEN bytes[i - at + 1] ELSE mem[i]]

RECURSIVE ExecPlan(_, _, _, _)
ExecPlan(ops, borsh, base, start) ==
    LET exec(s, o) ==
            LET i == base + o.off + 1
                d == TypeOf[o.typ]
                w == Width[o.kind]
                elems(n, at, s0) ==
                    FoldLeft(LAMBDA r, k : ExecPlan(o.sub, borsh, at + (k - 1) * Size(d.elem), r),
                             s0, [k \in 1 .. n |-> k])
                slice(q) ==
                    IF q.err # "nil" THEN [s EXCEPT !.p = q]
                    ELSE LET new == FlattenSeq([k \in 1 .. q.val |-> Cells(d.elem, 0)])
                             sub == elems(q.val, 0, [p |-> q, mem |-> new])
                         IN  WroteSub(s, sub, i, [len |-> q.val, mem |-> sub.mem])
                option(q) ==
                    IF q.err # "nil" THEN [s EXCEPT !.p = q]
                    ELSE IF q.val = 0 THEN Wrote(s, q, i, <<>>)
                    ELSE IF q.val > 1 THEN [s EXCEPT !.p = Fail(q, "invalid")]
                    ELSE LET sub == ExecPlan(o.sub, borsh, 0, [p |-> q, mem |-> Cells(d.elem, 0)])
                         IN  WroteSub(s, sub, i, <<sub.mem>>)
                uint(q)   == Wrote(s, q, i, q.val)
                int(q)    == Wrote(s, q, i, AsInt(q.val, w))
                bytes(q)  == Wrote(s, q, i, [len |-> Len(q.val), mem |-> q.val])
                array(q)  == IF q.err = "nil" THEN [p |-> q, mem |-> OverBytes(s.mem, i, q.val)]
                             ELSE [s EXCEPT !.p = q]
            IN  CASE o.kind \in Unsigned    -> uint(ReadUint(s.p, w))
                  [] o.kind \in Signed      -> int(ReadUint(s.p, w))
                  [] o.kind = "Bool"        -> uint(BoolRead(ReadUint(s.p, 1)))
                  [] o.kind = "FixedBytes"  -> array(ReadBytes(s.p, d.len))
                  [] o.kind = "FixedArray"  -> elems(d.len, base + o.off, s)
                  [] o.kind = "ByteSlice"   -> bytes(BytesRead(LenRead(s.p, borsh)))
                  [] o.kind = "String"      -> uint(BytesRead(LenRead(s.p, borsh)))
                  [] o.kind = "Slice"       -> slice(LenRead(s.p, borsh))
                  [] o.kind = "Pointer"     -> option(ReadUint(s.p, 1))
                  [] o.kind = "CallIface"   -> uint(CallIface(s.p))
    IN  FoldLeft(LAMBDA s, o : IF s.p.err = "nil" THEN exec(s, o) ELSE s, start, ops)

\* DecodeTo of a value of type t whose scalars held old.
DecodeTo(t, borsh, bytes, old) ==
    ExecPlan(compileDecodePlan(t).ops, borsh, 0,
             [p |-> NewDecoder(bytes), mem |-> Cells(t, old)])

(***************************************************************************)
(* Reference: the wire format as the documentation of BinDecodeTo and            *)
(* BorshDecodeTo gives it, by encoding a value field by field; and a value as    *)
(* the program sees it, by its fields, in the memory the decoder wrote.           *)
(***************************************************************************)
RECURSIVE Encode(_, _, _)
Encode(t, v, borsh) ==
    LET d == TypeOf[t]
        len == WriteUint(Len(v), IF borsh THEN U32Size ELSE U64Size)
        elems == FlattenSeq([i \in DOMAIN v |-> Encode(d.elem, v[i], borsh)])
    IN  CASE d.iface                   -> WriteUint(v, 2)
          [] d.kind = "Uint"           -> WriteUint(v, U64Size)
          [] d.kind = "Int"            -> WriteUint(AsUint(v, U64Size), U64Size)
          [] d.kind \in Unsigned       -> WriteUint(v, Width[d.kind])
          [] d.kind \in Signed         -> WriteUint(AsUint(v, Width[d.kind]), Width[d.kind])
          [] d.kind = "Bool"           -> IF v THEN <<1>> ELSE <<0>>
          [] d.kind = "String"         -> len \o v
          [] d.kind = "Slice"          -> len \o elems
          [] d.kind = "Array"          -> elems
          [] d.kind = "Pointer"        -> WriteUint(Len(v), 1) \o elems
          [] d.kind = "Struct"         ->
                FlattenSeq([i \in DOMAIN v |-> Encode(d.fields[OnWire(d)[i]].typ, v[i], borsh)])

RECURSIVE View(_, _, _)
View(t, mem, base) ==
    LET d == TypeOf[t]
        c == mem[base + 1]
        elems(n, m, b) == [i \in 1 .. n |-> View(d.elem, m, b + (i - 1) * Size(d.elem))]
    IN  CASE d.kind = "Array"   -> elems(d.len, mem, base)
          [] d.kind = "Slice"   -> elems(c.len, c.mem, 0)
          [] d.kind = "Pointer" -> [i \in DOMAIN c |-> View(d.elem, c[i], 0)]
          [] d.kind = "Struct" /\ ~d.iface ->
                LET wire == OnWire(d)
                IN  [i \in DOMAIN wire |->
                        View(d.fields[wire[i]].typ, mem, base + FieldOffset(d, wire[i]))]
          [] OTHER              -> c

\* What the compiler descends into, and the types it meets twice on one path.
Parts(t) ==
    LET d == TypeOf[t]
    IN  CASE d.iface -> {}
          [] d.kind \in {"Array", "Slice", "Pointer"} -> {d.elem}
          [] d.kind = "Struct" -> {d.fields[i].typ : i \in ToSet(OnWire(d))}
          [] OTHER -> {}
RECURSIVE Reach(_)
Reach(S) == LET next == S \cup UNION {Parts(t) : t \in S} IN IF next = S THEN S ELSE Reach(next)
ContainsItself(t) == \E u \in Reach({t}) : u \in Reach(Parts(u))
================================================================================
