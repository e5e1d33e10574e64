-------------------------------- MODULE TxError --------------------------------
(***************************************************************************)
(* DecodeTransactionError (rpc/transaction_error.go): the err field of a          *)
(* transaction, as JSON text or as a Go value, into nil, a TransactionError, an   *)
(* InstructionError, or an error that says it is neither.                         *)
(*                                                                          *)
(* encoding/json is external.  A JSON document is a tree; an object is its list   *)
(* of members, a number has a value n and a form: written as digits (with a       *)
(* minus if it is negative), as an integer in another way (7.0, 7e0), or not an   *)
(* integer (then n is what comes before the point).  uint8, uint32 and uint64     *)
(* have the widths of Wire.                                                       *)
(***************************************************************************)
EXTENDS Wire

Null == [t |-> "null"]
Text(s) == [t |-> "string", text |-> s]
Num(n, form) == [t |-> "number", n |-> n, form |-> form]
Object(members) == [t |-> "object", members |-> members]
Array(elems) == [t |-> "array", elems |-> elems]

Nil == [t |-> "nil"]
RawMessage(doc) == [t |-> "bytes", doc |-> doc]

\* What json.Unmarshal into an interface makes of a document: of two members with
\* one name the last counts, a number is a json.Number or a float64.
RECURSIVE Unmarshal(_, _)
Unmarshal(doc, useNumber) ==
    LET last(k) == Max({i \in DOMAIN doc.members : doc.members[i][1] = k})
    IN  CASE doc.t = "null"   -> Nil
          [] doc.t = "number" -> [doc EXCEPT !.t = IF useNumber THEN "Number" ELSE "float"]
          [] doc.t = "array"  ->
                [t |-> "list", elems |-> [i \in DOMAIN doc.elems |->
                                             Unmarshal(doc.elems[i], useNumber)]]
          [] doc.t = "object" ->
                [t |-> "map", of |-> [k \in {m[1] : m \in ToSet(doc.members)} |->
                                         Unmarshal(doc.members[last(k)][2], useNumber)]]
          [] OTHER -> doc

MaxUint32 == ByteMod ^ U32Size - 1
MaxUint64 == ByteMod ^ U64Size - 1

\* What is returned: is tells nil, an error that only says what is wrong with the
\* input, a *TransactionError and an *InstructionError apart.
Outcome(is, index, kind, code, details) ==
    [is |-> is, index |-> index, kind |-> kind, code |-> code, details |-> details]
Success == Outcome("nil", 0, "", 0, Nil)
Unrecognized == Outcome("unrecognized", 0, "", 0, Nil)
TransactionError(kind, details) == Outcome("transaction", 0, kind, 0, details)
InstructionError(index, kind, code, details) ==
    Outcome("instruction", index, kind, code, details)

\* decodeUnsigned: the number, or NoNumber.  A json.Number goes through ParseUint,
\* which reads digits; a float must be an integer (NaN and the infinities are not)
\* within bounds; the Go integers must not be negative.
NoNumber == -1
Readable(raw, max) ==
    CASE raw.t = "Number" -> raw.form = "digits" /\ raw.n \in 0 .. MaxUint64
      [] raw.t = "float"  -> raw.form # "fraction" /\ raw.n \in 0 .. max
      [] raw.t = "int"    -> raw.n >= 0
      [] raw.t = "uint"   -> TRUE
      [] OTHER            -> FALSE
NoMaximum(raw, max) == IF Readable(raw, max) THEN raw.n ELSE NoNumber   \* mutant: no > max
decodeUnsigned(raw, max) ==
    IF Readable(raw, max) /\ raw.n <= max THEN raw.n ELSE NoNumber

\* A variant with data is an object with one member.
OneVariant(raw) == raw.t = "map" /\ Cardinality(DOMAIN raw.of) = 1
VariantOf(raw) == CHOOSE k \in DOMAIN raw.of : TRUE

decodeInstructionError(raw) ==
    IF raw.t # "list" \/ Len(raw.elems) # 2 THEN Unrecognized
    ELSE LET index == decodeUnsigned(raw.elems[1], MaxU8)
             value == raw.elems[2]
             kind  == VariantOf(value)
             code  == decodeUnsigned(value.of[kind], MaxUint32)
         IN  IF index = NoNumber THEN Unrecognized
             ELSE IF value.t = "string" THEN InstructionError(index, value.text, 0, Nil)
             ELSE IF ~OneVariant(value) THEN Unrecognized
             ELSE IF kind # "Custom" THEN InstructionError(index, kind, 0, value.of[kind])
             ELSE IF code = NoNumber THEN Unrecognized
             ELSE InstructionError(index, kind, code % (MaxUint32 + 1), Nil)

\* The value cases of DecodeTransactionError.
FromValue(raw) ==
    IF raw.t = "nil" THEN Success
    ELSE IF raw.t = "string" THEN TransactionError(raw.text, Nil)
    ELSE IF ~OneVariant(raw) THEN Unrecognized
    ELSE LET kind == VariantOf(raw)
         IN  IF kind = "InstructionError" THEN decodeInstructionError(raw.of[kind])
             ELSE TransactionError(kind, raw.of[kind])

decodeTransactionErrorJSON(doc) ==
    CASE doc.t \in {"blank", "null"} -> Success
      [] doc.t = "invalid"           -> Unrecognized
      [] OTHER                       -> FromValue(Unmarshal(doc, TRUE))

DecodeTransactionError(raw) ==
    IF raw.t = "bytes" THEN decodeTransactionErrorJSON(raw.doc) ELSE FromValue(raw)

(***************************************************************************)
(* Reference: the errors of the runtime, and how it writes them.  External.      *)
(***************************************************************************)
NoPayload == [t |-> "none"]
Variant(kind, payload) ==
    IF payload.t = "none" THEN Text(kind) ELSE Object(<<<<kind, payload>>>>)
ErrorDoc(e) ==
    IF e.is = "transaction" THEN Variant(e.kind, e.payload)
    ELSE Object(<<<<"InstructionError",
                    Array(<<Num(e.index, "digits"), Variant(e.kind, e.payload)>>)>>>>)
ExpectedError(e) ==
    LET details == IF e.payload.t = "none" THEN Nil ELSE Unmarshal(e.payload, TRUE)
    IN  IF e.is = "transaction" THEN TransactionError(e.kind, details)
        ELSE IF e.kind = "Custom" THEN InstructionError(e.index, e.kind, e.payload.n, Nil)
        ELSE InstructionError(e.index, e.kind, 0, details)
================================================================================
