----------------------------- MODULE JsonRpcProofs -----------------------------
(***************************************************************************)
(* Ids, results and errors of JSON-RPC calls, for any number of goroutines,   *)
(* any batch size, any retry policy and any answers of the server.            *)
(***************************************************************************)
EXTENDS JsonRpc, TLAPS

Errors == {"nil", "none", "marshal", "transient", "permanent", "context", "malformed", "rpcerr"}

\* The values the variables can have.
TypeOK ==
    /\ nextID \in Nat
    /\ pc \in [Callers -> {"idle", "ids", "http", "backoff", "decode", "apply"}]
    /\ ids \in [Callers -> Seq(Nat)]
    /\ attempt \in [Callers -> Nat]
    /\ ctxDone \in [Callers -> BOOLEAN]
    /\ calls \in [Callers -> Nat]
    /\ ret \in [Callers -> Errors]
    /\ elems \in [Batchers -> [Elems ->
                    [result : Int, error : {"nil", "rpcerr", "decode", "missing"}]]]
    /\ kinds \in [Batchers -> [Elems -> SUBSET Kinds]]
    /\ count \in [Batchers -> Nat]

\* Every id in use was drawn from the counter, which has not passed it by.
Drawn == \A c \in Callers : \A i \in DOMAIN ids[c] : ids[c][i] <= nextID

\* A request has its ids before it is sent, one per element; only batches are applied.
AllDrawn ==
    \A c \in Callers :
        /\ pc[c] = "apply" => c \in Batchers
        /\ pc[c] = "ids" => Len(ids[c]) < Size(c)
        /\ pc[c] \in {"http", "backoff", "decode", "apply"} \/ Succeeded(c) =>
              Len(ids[c]) = Size(c)

\* Nothing is applied before the answer is in.
NothingApplied ==
    \A c \in Batchers : pc[c] \in {"ids", "http", "backoff", "decode"} =>
        \A i \in Elems : kinds[c][i] = {}

\* While the answer is applied, and after that, each element reflects the responses
\* that came for it; what it held before the call does not show through.
Reflected ==
    \A c \in Batchers : pc[c] = "apply" \/ Succeeded(c) => \A i \in Elems :
        /\ kinds[c][i] = {"ok"} => elems[c][i].result = ids[c][i]
        /\ kinds[c][i] \cap {"rpcerr", "bad"} # {} => elems[c][i].error \in {"rpcerr", "decode"}

\* A batch that has returned nil has marked what was not answered.
Marked ==
    \A c \in Batchers : Succeeded(c) =>
        \A i \in Elems : kinds[c][i] = {} => elems[c][i].error = "missing"

IInv == TypeOK /\ Drawn /\ UniqueIDs /\ AllDrawn /\ NothingApplied /\ Reflected /\ Marked

USE GoroutinesAssumption, BoundsAssumption

--------------------------------------------------------------------------------
\* Nothing has been drawn, sent or stored.
LEMMA InitIInv == Init => IInv
  <1> SUFFICES ASSUME Init PROVE IInv
    OBVIOUS
  <1> USE DEF Init, Callers
  <1>1. TypeOK
    BY DEF TypeOK, Errors, NoAnswer
  <1>2. Drawn /\ UniqueIDs
    BY DEF Drawn, UniqueIDs
  <1>3. AllDrawn /\ NothingApplied /\ Reflected /\ Marked
    BY DEF AllDrawn, NothingApplied, Reflected, Marked, Succeeded
  <1> QED BY <1>1, <1>2, <1>3 DEF IInv

\* Begin: the goroutine forgets the ids and the responses of its last call.
LEMMA BeginIInv == ASSUME NEW c \in Callers, IInv, Begin(c) PROVE IInv'
  <1> USE DEF IInv, Begin
  <1>1. TypeOK'
    BY DEF TypeOK, Errors
  <1>2. /\ ids'[c] = <<>> /\ DOMAIN ids'[c] = {} /\ nextID' = nextID
        /\ \A d \in Callers : d # c => ids'[d] = ids[d]
    BY DEF TypeOK
  <1>5. Drawn'
    BY <1>2 DEF Drawn
  <1>6. UniqueIDs'
    BY <1>2 DEF UniqueIDs
  <1>3. AllDrawn'
    BY DEF TypeOK, AllDrawn, Size, Succeeded
  <1>4. NothingApplied' /\ Reflected' /\ Marked'
    BY DEF TypeOK, NothingApplied, Reflected, Marked, Succeeded, Callers
  <1> QED BY <1>1, <1>3, <1>4, <1>5, <1>6

\* AssignID: the new id is larger than every other.
LEMMA AssignIIInv == ASSUME NEW c \in Callers, IInv, AssignID(c) PROVE IInv'
  <1> USE DEF IInv, AssignID
  <1>0. /\ nextID' \in Nat /\ ids[c] \in Seq(Nat)
        /\ ids'[c] = Append(ids[c], nextID + 1) /\ ids'[c] \in Seq(Nat)
        /\ Len(ids'[c]) = Len(ids[c]) + 1
        /\ DOMAIN ids'[c] = 1 .. Len(ids[c]) + 1 /\ DOMAIN ids[c] = 1 .. Len(ids[c])
        /\ \A d \in Callers : d # c => ids'[d] = ids[d]
    BY DEF TypeOK
  <1>1. TypeOK'
    BY <1>0 DEF TypeOK
  <1>2. \A i \in 1 .. Len(ids[c]) : ids'[c][i] = ids[c][i]
    BY <1>0
  <1>3. ids'[c][Len(ids[c]) + 1] = nextID + 1
    BY <1>0
  <1>4. \A d \in Callers : \A i \in DOMAIN ids[d] : ids[d][i] \in Nat /\ ids[d][i] < nextID + 1
    BY DEF TypeOK, Drawn
  <1>5. Drawn'
    <2> SUFFICES ASSUME NEW d \in Callers, NEW i \in DOMAIN ids'[d] PROVE ids'[d][i] <= nextID + 1
      BY DEF Drawn
    <2>1. nextID \in Nat /\ (d # c => ids'[d] = ids[d])
      BY <1>0 DEF TypeOK
    <2>2. CASE d = c /\ i = Len(ids[c]) + 1
      BY <2>1, <2>2, <1>3
    <2>3. CASE d = c /\ i \in 1 .. Len(ids[c])
      BY <2>1, <2>3, <1>0, <1>2, <1>4
    <2>4. CASE d # c
      BY <2>1, <2>4, <1>4
    <2> QED BY <2>2, <2>3, <2>4, <1>0
  <1>6. UniqueIDs'
    BY <1>0, <1>2, <1>3, <1>4 DEF UniqueIDs
  <1>7. /\ pc'[c] = IF Len(ids[c]) + 1 = Size(c) THEN "http" ELSE "ids"
        /\ \A d \in Callers : d # c => pc'[d] = pc[d]
        /\ UNCHANGED <<ret, elems, kinds>> /\ Len(ids[c]) < Size(c)
    BY <1>0 DEF TypeOK, AllDrawn
  <1>8. AllDrawn'
    <2>1. Size(c) \in Nat /\ Len(ids[c]) \in Nat
      BY <1>0 DEF Size
    <2>2. \A d \in Callers : Succeeded(d)' => d # c /\ Succeeded(d)
      BY <1>7 DEF Succeeded
    <2>3. \A d \in Callers : Size(d)' = Size(d)
      BY DEF Size
    <2> QED BY <1>0, <1>7, <2>1, <2>2, <2>3 DEF AllDrawn
  <1>9. NothingApplied'
    BY <1>7 DEF NothingApplied, Callers
  <1>10. Reflected' /\ Marked'
    BY <1>0, <1>7 DEF Reflected, Marked, Succeeded, Callers
  <1> QED BY <1>1, <1>5, <1>6, <1>8, <1>9, <1>10

\* A call that returns without having succeeded as a batch: an error, or a single call.
LEMMA ReturnIInv ==
    ASSUME NEW c \in Callers, IInv, NEW err \in Errors, Return(c, err),
           err # "nil" \/ (c \in Singles /\ Len(ids[c]) = Size(c)),
           UNCHANGED <<nextID, ids, calls, elems, kinds, count>>
    PROVE  IInv'
  <1> USE DEF IInv, Return
  <1>1. TypeOK'
    BY DEF TypeOK
  <1>2. Drawn' /\ UniqueIDs'
    BY DEF Drawn, UniqueIDs
  <1>3. AllDrawn'
    BY DEF TypeOK, AllDrawn, Size, Succeeded
  <1>4. NothingApplied' /\ Reflected' /\ Marked'
    BY DEF TypeOK, NothingApplied, Reflected, Marked, Succeeded, Callers
  <1> QED BY <1>1, <1>2, <1>3, <1>4

\* A goroutine that goes on to another point before the answer is applied.
LEMMA MoveIInv ==
    ASSUME NEW c \in Callers, IInv, pc[c] \in {"http", "backoff", "decode"},
           NEW l \in {"http", "backoff", "decode", "apply"}, l = "apply" => c \in Batchers,
           pc' = [pc EXCEPT ![c] = l], attempt' \in [Callers -> Nat],
           UNCHANGED <<nextID, ids, ctxDone, calls, ret, elems, kinds, count>>
    PROVE  IInv'
  <1> USE DEF IInv
  <1>1. TypeOK'
    BY DEF TypeOK
  <1>2. Drawn' /\ UniqueIDs'
    BY DEF Drawn, UniqueIDs
  <1>3. AllDrawn'
    BY DEF TypeOK, AllDrawn, Size, Succeeded
  <1>4. /\ pc'[c] = l /\ \A d \in Callers : d # c => pc'[d] = pc[d]
        /\ c \in Batchers => \A i \in Elems : kinds[c][i] = {}
    BY DEF TypeOK, NothingApplied
  <1>5. NothingApplied' /\ Marked'
    BY <1>4 DEF NothingApplied, Marked, Succeeded, Callers
  <1>6. Reflected'
    BY <1>4 DEF Reflected, Succeeded, Callers
  <1> QED BY <1>1, <1>2, <1>3, <1>5, <1>6

\* Apply: a response changes the element whose id it carries, and no other.
LEMMA ApplyIInv ==
    ASSUME NEW c \in Batchers, IInv, NEW id \in ToSet(ids[c]) \cup {UnknownId}, NEW k \in Kinds,
           Apply(c, id, k)
    PROVE  IInv'
  <1> USE DEF IInv, Apply
  <1>0. id \in Nat
    BY DEF TypeOK, ToSet, UnknownId, Callers
  <1>1. \A e \in [result : Int, error : {"nil", "rpcerr", "decode", "missing"}] :
            Answered(e, id, k) \in [result : Int, error : {"nil", "rpcerr", "decode", "missing"}]
    BY <1>0 DEF Answered, Kinds, Partial
  <1>2. \A i \in Elems : /\ elems[c][i] \in [result : Int, error : {"nil", "rpcerr", "decode", "missing"}]
                         /\ kinds[c][i] \subseteq Kinds
    BY DEF TypeOK
  <1>3. TypeOK'
    <2>1. elems'[c] \in [Elems -> [result : Int, error : {"nil", "rpcerr", "decode", "missing"}]]
      BY <1>1, <1>2 DEF TypeOK
    <2>2. kinds'[c] \in [Elems -> SUBSET Kinds]
      BY <1>2 DEF TypeOK
    <2> QED BY <2>1, <2>2 DEF TypeOK
  <1>4. Drawn' /\ UniqueIDs' /\ AllDrawn'
    BY DEF Drawn, UniqueIDs, AllDrawn, Succeeded
  <1>5. ASSUME NEW i \in Elems, i \in IdToIdx(c, id)
        PROVE  /\ kinds'[c][i] = {"ok"} => elems'[c][i].result = ids'[c][i]
               /\ kinds'[c][i] \cap {"rpcerr", "bad"} # {} =>
                     elems'[c][i].error \in {"rpcerr", "decode"}
    <2>1. elems'[c][i] = Answered(elems[c][i], id, k) /\ kinds'[c][i] = kinds[c][i] \cup {k}
      BY <1>5 DEF TypeOK
    <2>2. ids[c][i] = id
      BY <1>5 DEF IdToIdx
    <2>3. kinds[c][i] \cap {"rpcerr", "bad"} # {} => elems[c][i].error \in {"rpcerr", "decode"}
      BY DEF Reflected
    <2>4. kinds'[c][i] = {"ok"} => k = "ok"
      BY <2>1
    <2>5. k \notin {"rpcerr", "bad"} => Answered(elems[c][i], id, k).error = elems[c][i].error
      BY <1>2 DEF Answered, Kinds
    <2>6. k \in {"rpcerr", "bad"} => Answered(elems[c][i], id, k).error \in {"rpcerr", "decode"}
      BY <1>2 DEF Answered
    <2>7. k = "ok" => Answered(elems[c][i], id, k).result = id
      BY <1>2 DEF Answered
    <2>8. k \notin {"rpcerr", "bad"} =>
             kinds'[c][i] \cap {"rpcerr", "bad"} = kinds[c][i] \cap {"rpcerr", "bad"}
      BY <2>1
    <2> QED BY <2>1, <2>2, <2>3, <2>4, <2>5, <2>6, <2>7, <2>8
  <1>6. \A i \in Elems : i \notin IdToIdx(c, id) =>
            elems'[c][i] = elems[c][i] /\ kinds'[c][i] = kinds[c][i]
    BY DEF TypeOK
  <1>7. \A d \in Batchers : d # c => elems'[d] = elems[d] /\ kinds'[d] = kinds[d]
    BY DEF TypeOK
  <1>8. Reflected'
    <2> DEFINE P(d, i) == /\ kinds[d][i] = {"ok"} => elems[d][i].result = ids[d][i]
                          /\ kinds[d][i] \cap {"rpcerr", "bad"} # {} =>
                                elems[d][i].error \in {"rpcerr", "decode"}
    <2>1. \A i \in Elems : P(c, i) /\ (i \notin IdToIdx(c, id) => P(c, i)')
      BY <1>6 DEF Reflected
    <2>2. \A i \in Elems : P(c, i)'
      BY <1>5, <2>1
    <2>3. \A d \in Batchers : d # c => \A i \in Elems : P(d, i)' <=> P(d, i)
      BY <1>7
    <2>4. \A d \in Batchers : (pc[d] = "apply" \/ Succeeded(d))' => pc[d] = "apply" \/ Succeeded(d)
      BY DEF Succeeded
    <2>5. \A d \in Batchers : (pc[d] = "apply" \/ Succeeded(d))' => \A i \in Elems : P(d, i)'
      BY <2>2, <2>3, <2>4 DEF Reflected
    <2> QED BY <2>5 DEF Reflected
  <1>9. NothingApplied' /\ Marked'
    BY <1>7 DEF NothingApplied, Marked, Succeeded
  <1> QED BY <1>3, <1>4, <1>8, <1>9

\* ApplyDone: elements without a response are marked.
LEMMA ApplyDoneIInv ==
    ASSUME NEW c \in Batchers, IInv, ApplyDone(c) PROVE IInv'
  <1> USE DEF IInv, ApplyDone, Return
  <1>1. \A i \in Elems :
            elems'[c][i] = IF kinds[c][i] # {} THEN elems[c][i]
                           ELSE [elems[c][i] EXCEPT !.error = "missing"]
    BY DEF TypeOK, Seen
  <1>2. \A i \in Elems : elems[c][i] \in [result : Int, error : {"nil", "rpcerr", "decode", "missing"}]
    BY DEF TypeOK
  <1>3. TypeOK'
    <2>1. elems'[c] \in [Elems -> [result : Int, error : {"nil", "rpcerr", "decode", "missing"}]]
      BY <1>1, <1>2 DEF TypeOK
    <2> QED BY <2>1 DEF TypeOK, Errors
  <1>4. Drawn' /\ UniqueIDs'
    BY DEF Drawn, UniqueIDs
  <1>5. AllDrawn'
    BY DEF TypeOK, AllDrawn, Size, Succeeded, Callers
  <1>6. \A d \in Batchers : d # c => elems'[d] = elems[d]
    BY DEF TypeOK
  <1>7. /\ pc'[c] = "idle" /\ \A d \in Callers : d # c => pc'[d] = pc[d] /\ ret'[d] = ret[d]
        /\ UNCHANGED <<ids, kinds>> /\ pc[c] = "apply"
    BY DEF TypeOK, Callers
  <1>8. Reflected'
    <2>1. \A i \in Elems : /\ elems'[c][i].result = elems[c][i].result
                           /\ kinds[c][i] # {} => elems'[c][i].error = elems[c][i].error
      BY <1>1, <1>2
    <2> QED BY <2>1, <1>6, <1>7 DEF Reflected, Succeeded, Callers
  <1>9. Marked'
    <2>1. ASSUME NEW i \in Elems, kinds[c][i] = {} PROVE elems'[c][i].error = "missing"
      <3>1. elems'[c][i] = [elems[c][i] EXCEPT !.error = "missing"]
        BY <1>1, <2>1
      <3> HIDE DEF IInv, ApplyDone, Return
      <3> QED BY <3>1, <1>2
    <2> QED BY <2>1, <1>6, <1>7 DEF Marked, Succeeded, Callers
  <1>10. NothingApplied'
    BY <1>7 DEF NothingApplied, Callers
  <1> QED BY <1>3, <1>4, <1>5, <1>8, <1>9, <1>10

\* Cancel changes the context only.
LEMMA CancelIInv == ASSUME NEW c \in Callers, IInv, Cancel(c) PROVE IInv'
  <1>1. TypeOK'
    BY DEF IInv, Cancel, TypeOK
  <1>2. UNCHANGED <<nextID, pc, ids, ret, elems, kinds>>
    BY DEF Cancel
  <1> QED
    BY <1>1, <1>2 DEF IInv, Drawn, UniqueIDs, AllDrawn, NothingApplied, Reflected, Marked, Succeeded

\* Each step of a goroutine.
LEMMA StepIInv == ASSUME IInv, Next PROVE IInv'
  <1> PICK c \in Callers : Begin(c) \/ MarshalFails(c) \/ Local(c) \/ Server(c) \/ Cancel(c)
    BY DEF Next
  <1>0. pc[c] \in {"http", "backoff", "decode", "apply"} => Len(ids[c]) = Size(c)
    BY DEF IInv, AllDrawn
  <1>1. CASE Begin(c)
    BY <1>1, BeginIInv
  <1>2. CASE MarshalFails(c)
    BY <1>2, ReturnIInv DEF MarshalFails, Errors
  <1>3. CASE AssignID(c)
    BY <1>3, AssignIIInv
  <1>4. ASSUME NEW err \in {"transient", "permanent", "context"}, HttpFails(c, err) PROVE IInv'
    <2>1. CASE ShouldRetry(attempt[c], err)
      BY <1>4, <2>1, MoveIInv DEF HttpFails, IInv, TypeOK
    <2>2. CASE ~ShouldRetry(attempt[c], err)
      BY <1>4, <2>2, ReturnIInv DEF HttpFails, Errors
    <2> QED BY <2>1, <2>2
  <1>5. CASE HttpCancelled(c)
    BY <1>5, <1>4 DEF HttpCancelled
  <1>6. CASE BackoffTimer(c)
    <2>1. attempt' \in [Callers -> Nat]
      BY <1>6 DEF BackoffTimer, IInv, TypeOK
    <2> QED BY <1>6, <2>1, MoveIInv DEF BackoffTimer
  <1>7. CASE BackoffCancelled(c)
    BY <1>7, ReturnIInv DEF BackoffCancelled, Errors
  <1>8. CASE Malformed(c)
    BY <1>8, ReturnIInv DEF Malformed, Errors
  <1>9. CASE DecodeSingle(c)
    BY <1>9, <1>0, ReturnIInv DEF DecodeSingle, Errors
  <1>10. CASE DecodeArray(c)
    BY <1>10, MoveIInv DEF DecodeArray, IInv, TypeOK
  <1>11. CASE ApplyDone(c)
    <2>1. c \in Batchers
      BY <1>11 DEF ApplyDone, IInv, AllDrawn
    <2> QED BY <1>11, <2>1, ApplyDoneIInv
  <1>12. CASE HttpOk(c)
    BY <1>12, MoveIInv DEF HttpOk, IInv, TypeOK
  <1>13. CASE c \in Batchers /\ \E id \in ToSet(ids[c]) \cup {UnknownId}, k \in Kinds : Apply(c, id, k)
    BY <1>13, ApplyIInv
  <1>14. CASE Cancel(c)
    BY <1>14, CancelIInv
  <1> QED
    BY <1>1, <1>2, <1>3, <1>4, <1>5, <1>6, <1>7, <1>8, <1>9, <1>10, <1>11, <1>12, <1>13, <1>14
    DEF Local, Server

LEMMA StutterIInv == ASSUME IInv, UNCHANGED vars PROVE IInv'
  BY DEF IInv, vars, TypeOK, Drawn, UniqueIDs, AllDrawn, NothingApplied, Reflected, Marked, Succeeded

LEMMA Invariance == Spec => []IInv
  <1>1. IInv /\ [Next]_vars => IInv'
    BY StepIInv, StutterIInv
  <1> QED BY <1>1, InitIInv, PTL DEF Spec

--------------------------------------------------------------------------------
\* Ids drawn by goroutines that interleave at every element of a batch are different,
\* and grow along the batch, for any number of goroutines and elements.
THEOREM IdsUnique == Spec => []UniqueIDs
  <1>1. IInv => UniqueIDs
    BY DEF IInv
  <1> QED BY <1>1, Invariance, PTL

\* A batch that returned nil has given each element the answer to its own request, in
\* whatever order, however often and among whatever else the answers came, and reports
\* every error object, every result that does not decode and every missing answer in the
\* element it is about.
THEOREM BatchAnswered == Spec => []ElementsTold
  <1>1. IInv => ResultsMatched
    BY DEF IInv, Reflected, ResultsMatched
  <1>2. IInv => FailuresReported
    BY DEF IInv, Reflected, Marked, FailuresReported
  <1>3. IInv => ElementsTold
    BY <1>1, <1>2 DEF ElementsTold
  <1> QED BY <1>3, Invariance, PTL
================================================================================
