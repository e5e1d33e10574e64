-------------------------------- MODULE JsonRpc --------------------------------
(***************************************************************************)
(* The JSON-RPC client (jsonrpc/client.go, retry.go, batch.go,               *)
(* call_context.go): goroutines that share one Client issue single calls     *)
(* (CallContext) and batches (BatchCallContext).                             *)
(*                                                                          *)
(* A batch draws one id per element from the shared counter, is sent and     *)
(* retried as a unit with the same ids, and its response array is matched     *)
(* back to the elements by id.  The elements belong to the caller and keep    *)
(* their contents from one call to the next.  External: the server, which     *)
(* answers in any order, with ids missing, repeated or unknown, fails, or     *)
(* does not answer at all.                                                    *)
(***************************************************************************)
EXTENDS Integers, Sequences, SequencesExt

CONSTANTS
    Batchers,     \* goroutines that call BatchCallContext
    Singles,      \* goroutines that call CallContext
    N,            \* elements of a batch
    MaxAttempts,  \* exponentialBackoff.MaxAttempts
    MaxCalls,     \* bound: calls per goroutine
    MaxResps      \* bound: length of a response array

ASSUME GoroutinesAssumption == Batchers \cap Singles = {}
ASSUME BoundsAssumption ==
    /\ N \in Nat \ {0} /\ MaxAttempts \in Nat \ {0}
    /\ MaxCalls \in Nat /\ MaxResps \in Nat

Callers == Batchers \cup Singles
Elems == 1 .. N
UnknownId == 0            \* an id of no request; nextID.Add(1) starts at 1

\* What a response holds: a result that decodes, an error object, a result that
\* does not decode, or none (or the element discards it: Result == nil).
Kinds == {"ok", "rpcerr", "bad", "empty"}

VARIABLES
    nextID,    \* atomic counter of the Client
    pc,        \* where goroutine c is
    ids,       \* ids of the current request, in the order of the elements
    attempt,   \* loop variable of sendRaw
    ctxDone,   \* the call's context is cancelled or past its deadline
    calls,     \* calls begun
    ret,       \* error of the last call: "nil" or its kind
    elems,     \* the batch: per element the answer stored in Result, and Error
    kinds,     \* history: the responses applied to each element in this call
    count      \* elements of the response array handled in this call

vars == <<nextID, pc, ids, attempt, ctxDone, calls, ret, elems, kinds, count>>

NoAnswer == 0             \* *Result as the caller prepared it
Partial == -1              \* *Result after a failed decode

Init ==
    /\ nextID = 0
    /\ pc = [c \in Callers |-> "idle"]
    /\ ids = [c \in Callers |-> <<>>]
    /\ attempt = [c \in Callers |-> 1]
    /\ ctxDone = [c \in Callers |-> FALSE]
    /\ calls = [c \in Callers |-> 0]
    /\ ret = [c \in Callers |-> "none"]
    /\ elems = [c \in Batchers |-> [i \in Elems |->
                    [result |-> NoAnswer, error |-> "nil"]]]
    /\ kinds = [c \in Batchers |-> [i \in Elems |-> {}]]
    /\ count = [c \in Batchers |-> 0]

Size(c) == IF c \in Batchers THEN N ELSE 1

\* The call returns; its local variables are gone.
Return(c, err) ==
    /\ pc' = [pc EXCEPT ![c] = "idle"]
    /\ ret' = [ret EXCEPT ![c] = err]
    /\ attempt' = [attempt EXCEPT ![c] = 1]
    /\ ctxDone' = [ctxDone EXCEPT ![c] = FALSE]

(***************************************************************************)
(* One call.                                                               *)
(***************************************************************************)
\* (An empty batch returns nil at once and changes nothing.)
Begin(c) ==
    /\ pc[c] = "idle" /\ calls[c] < MaxCalls
    /\ calls' = [calls EXCEPT ![c] = @ + 1]
    /\ pc' = [pc EXCEPT ![c] = "ids"]
    /\ ids' = [ids EXCEPT ![c] = <<>>]
    /\ ret' = [ret EXCEPT ![c] = "none"]
    /\ kinds' = [b \in Batchers |->
                    IF b = c THEN [i \in Elems |-> {}] ELSE kinds[b]]
    /\ count' = [b \in Batchers |-> IF b = c THEN 0 ELSE count[b]]
    /\ UNCHANGED <<nextID, attempt, ctxDone, elems>>

\* id := c.nextID.Add(1), once per element: other goroutines draw in between.
AssignIDsAtEnd(c) ==            \* mutant: the counter is advanced once per batch
    /\ pc[c] = "ids"
    /\ ids' = [ids EXCEPT ![c] = Append(@, nextID + Len(@) + 1)]
    /\ nextID' = IF Len(ids'[c]) = Size(c) THEN nextID + Size(c) ELSE nextID
    /\ pc' = [pc EXCEPT ![c] = IF Len(ids'[c]) = Size(c) THEN "http" ELSE @]
    /\ UNCHANGED <<attempt, ctxDone, calls, ret, elems, kinds, count>>
AssignID(c) ==
    /\ pc[c] = "ids"
    /\ nextID' = nextID + 1
    /\ ids' = [ids EXCEPT ![c] = Append(@, nextID')]
    /\ pc' = [pc EXCEPT ![c] = IF Len(ids'[c]) = Size(c) THEN "http" ELSE @]
    /\ UNCHANGED <<attempt, ctxDone, calls, ret, elems, kinds, count>>

\* build() fails: the request does not marshal.
MarshalFails(c) ==
    /\ pc[c] = "http"
    /\ Return(c, "marshal")
    /\ UNCHANGED <<nextID, ids, calls, elems, kinds, count>>

\* doHTTP returns the body of a 2xx answer.
HttpOk(c) ==
    /\ pc[c] = "http" /\ ~ctxDone[c]
    /\ pc' = [pc EXCEPT ![c] = "decode"]
    /\ UNCHANGED <<nextID, ids, attempt, ctxDone, calls, ret, elems, kinds, count>>

\* HTTP 5xx and 429, network and I/O errors; not other statuses, not the context.
IsRetryable(err) == err = "transient"

ShouldRetry(n, err) == n < MaxAttempts /\ IsRetryable(err)

\* doHTTP fails; sendRaw asks the retry policy.
HttpFails(c, err) ==
    /\ pc[c] = "http"
    /\ IF ShouldRetry(attempt[c], err)
         THEN /\ pc' = [pc EXCEPT ![c] = "backoff"]
              /\ UNCHANGED <<ret, attempt, ctxDone>>
         ELSE Return(c, err)
    /\ UNCHANGED <<nextID, ids, calls, elems, kinds, count>>

\* The request carries the context: cancelling it ends the exchange.
HttpUncancelled(c) == FALSE /\ HttpFails(c, "context")  \* mutant: http.NewRequest
HttpCancelled(c) == ctxDone[c] /\ HttpFails(c, "context")

\* The select of the backoff: the timer, or the context.
BackoffTimer(c) ==
    /\ pc[c] = "backoff"
    /\ pc' = [pc EXCEPT ![c] = "http"]
    /\ attempt' = [attempt EXCEPT ![c] = @ + 1]
    /\ UNCHANGED <<nextID, ids, ctxDone, calls, ret, elems, kinds, count>>
BackoffCancelled(c) ==
    /\ pc[c] = "backoff" /\ ctxDone[c]
    /\ Return(c, "context")
    /\ UNCHANGED <<nextID, ids, calls, elems, kinds, count>>

\* The body does not decode as a response, or as an array of them.
Malformed(c) ==
    /\ pc[c] = "decode"
    /\ Return(c, "malformed")
    /\ UNCHANGED <<nextID, ids, calls, elems, kinds, count>>

\* CallContext: the response's id is not looked at.
DecodeSingle(c) ==
    /\ pc[c] = "decode" /\ c \in Singles
    /\ Return(c, "nil") \/ Return(c, "rpcerr")
    /\ UNCHANGED <<nextID, ids, calls, elems, kinds, count>>

DecodeArray(c) ==
    /\ pc[c] = "decode" /\ c \in Batchers
    /\ pc' = [pc EXCEPT ![c] = "apply"]
    /\ UNCHANGED <<nextID, ids, attempt, ctxDone, calls, ret, elems, kinds, count>>

(***************************************************************************)
(* The response array of a batch, one response at a time.                   *)
(***************************************************************************)

\* idToIdx[id]: the elements that the id stands for, at most one.
ByPosition(c, id) == {count[c] + 1} \cap Elems  \* mutant: n-th answer, n-th element
IdToIdx(c, id) == {i \in Elems : ids[c][i] = id}

\* What a response to request id does to an element.
Answered(e, id, k) ==
    CASE k = "ok"     -> [e EXCEPT !.result = id]
      [] k = "rpcerr" -> [e EXCEPT !.error = "rpcerr"]
      [] k = "bad"    -> [result |-> Partial, error |-> "decode"]
      [] k = "empty"  -> e

Apply(c, id, k) ==
    /\ pc[c] = "apply" /\ count[c] < MaxResps
    /\ count' = [count EXCEPT ![c] = @ + 1]
    /\ elems' = [elems EXCEPT ![c] = [i \in Elems |->
                    IF i \in IdToIdx(c, id) THEN Answered(@[i], id, k) ELSE @[i]]]
    /\ kinds' = [kinds EXCEPT ![c] = [i \in Elems |->
                    IF i \in IdToIdx(c, id) THEN @[i] \cup {k} ELSE @[i]]]
    /\ UNCHANGED <<nextID, pc, ids, attempt, ctxDone, calls, ret>>

\* seen[i] after the loop.
Seen(c, i) == kinds[c][i] # {}

ApplyDone(c) ==
    /\ pc[c] = "apply"
    /\ elems' = [elems EXCEPT ![c] = [i \in Elems |->
                    IF Seen(c, i) THEN @[i] ELSE [@[i] EXCEPT !.error = "missing"]]]
    /\ Return(c, "nil")
    /\ UNCHANGED <<nextID, ids, calls, kinds, count>>

\* The context is looked at up to the answer only.
Cancel(c) ==
    /\ pc[c] \in {"ids", "http", "backoff"} /\ ~ctxDone[c]
    /\ ctxDone' = [ctxDone EXCEPT ![c] = TRUE]
    /\ UNCHANGED <<nextID, pc, ids, attempt, calls, ret, elems, kinds, count>>

\* Steps the goroutine takes by itself, and what the server decides.
Local(c) ==
    \/ AssignID(c) \/ HttpCancelled(c) \/ BackoffTimer(c) \/ BackoffCancelled(c)
    \/ Malformed(c) \/ DecodeSingle(c) \/ DecodeArray(c) \/ ApplyDone(c)
Server(c) ==
    \/ HttpOk(c)
    \/ \E err \in {"transient", "permanent"} : HttpFails(c, err)
    \/ /\ c \in Batchers
       /\ \E id \in ToSet(ids[c]) \cup {UnknownId}, k \in Kinds : Apply(c, id, k)

Next == \E c \in Callers :
            Begin(c) \/ MarshalFails(c) \/ Local(c) \/ Server(c) \/ Cancel(c)

\* Goroutines run, timers fire and a cancelled context ends an exchange; the
\* server owes nothing.
Spec == Init /\ [][Next]_vars
FairSpec == Spec /\ \A c \in Callers : WF_vars(Local(c))

--------------------------------------------------------------------------------
\* "Each element is tagged with a fresh monotonic ID": no two requests in flight
\* share an id, and the ids of a batch grow with the elements, however the
\* goroutines interleave their draws from the counter.
UniqueIDs ==
    \A c, d \in Callers : \A i \in DOMAIN ids[c], j \in DOMAIN ids[d] :
        /\ ids[c][i] = ids[d][j] => c = d /\ i = j
        /\ c = d /\ i < j => ids[c][i] < ids[d][j]

Succeeded(c) == pc[c] = "idle" /\ ret[c] = "nil"

\* An element all of whose responses were good holds the answer to its own request
\* of this call.
ResultsMatched ==
    \A c \in Batchers : Succeeded(c) =>
        \A i \in Elems : kinds[c][i] = {"ok"} => elems[c][i].result = ids[c][i]

\* An element that got an error object, an undecodable result or no response at all
\* has an Error.
FailuresReported ==
    \A c \in Batchers : Succeeded(c) => \A i \in Elems :
        /\ kinds[c][i] = {} => elems[c][i].error = "missing"
        /\ kinds[c][i] \cap {"rpcerr", "bad"} # {} =>
               elems[c][i].error \in {"rpcerr", "decode"}

\* "the server's responses are matched back to the input by ID", and partial success
\* is observable: after a batch that returned nil each element tells its own fate,
\* the answer to its own request of this call or an Error, in whatever order, however
\* often and among whatever foreign ones the responses came, and if some never did.
ElementsTold == ResultsMatched /\ FailuresReported

\* A cancelled call returns although the server never answers, and whatever the
\* retry policy still has in store.
CancelReturns == \A c \in Callers : ctxDone[c] ~> pc[c] = "idle"

\* BatchElem.Error is "Zero on success".
ZeroOnSuccess ==
    \A c \in Batchers : Succeeded(c) =>
        \A i \in Elems : kinds[c][i] = {"ok"} => elems[c][i].error = "nil"
================================================================================
