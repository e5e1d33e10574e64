------------------------------ MODULE SendConfirm ------------------------------
(***************************************************************************)
(* SendAndConfirmTransaction and SendAndConfirmSignedTransaction            *)
(* (rpc/send.go) against a cluster that advances on its own.                *)
(*                                                                          *)
(* Attempt k builds transaction k with a fresh blockhash; the cluster can    *)
(* include it only while the block height is at most lastValid[k].  Every    *)
(* RPC call is a step of its own, so blocks are produced and transactions    *)
(* land between any two of them.  Calls fail, and sendTransaction is retried *)
(* by the HTTP layer (jsonrpc sendRaw), so a broadcast can succeed although   *)
(* the caller sees an error.  External: the cluster; its RPC node answers    *)
(* getSignatureStatuses exactly and getBlockHeight possibly late, and does   *)
(* not refuse, for an unknown blockhash, a transaction it has broadcast.     *)
(***************************************************************************)
EXTENDS Integers, FiniteSets

CONSTANTS
    MaxRetries,   \* cfg.maxBlockhashRetries
    MaxAttempts,  \* HTTP attempts per call (exponentialBackoff.MaxAttempts)
    Validity,     \* blocks for which a fetched blockhash stays valid
    MaxHeight,    \* bound: block height
    Required      \* cfg.commitment

ASSUME RetriesAssumption == MaxRetries \in Nat
ASSUME AttemptsAssumption == MaxAttempts \in Nat \ {0}
ASSUME HeightAssumption == Validity \in Nat /\ MaxHeight \in Nat
ASSUME RequiredAssumption == Required \in {"processed", "confirmed", "finalized"}

Tx == 0 .. MaxRetries
NoSig == -1
OnChain == {"processed", "confirmed", "finalized"}

VARIABLES
    signed,      \* SendAndConfirmSignedTransaction: one attempt, no expiry check
    pc,          \* where the call is
    attempt,     \* loop variable of SendAndConfirmTransaction
    tries,       \* HTTP attempts of the current sendTransaction
    landed,      \* local variable of confirmSignature
    deadline,    \* confirmTimeout of this attempt has passed
    ctxDone,     \* the caller's context was cancelled
    result,      \* what the call returned
    sig,         \* the signature it returned: a transaction, or NoSig
    height,      \* block height of the cluster
    lastValid,   \* last block height at which transaction k can be included
    chain,       \* transaction k: "none", "sent", or its confirmation status
    failed       \* transaction k was included and failed

clientVars  == <<signed, pc, attempt, tries, landed, deadline, result, sig>>
clusterVars == <<height, lastValid, chain, failed>>
vars == <<clientVars, ctxDone, clusterVars>>

Init ==
    /\ signed \in BOOLEAN
    /\ pc = IF signed THEN "send" ELSE "blockhash"
    /\ attempt = 0 /\ tries = 0
    /\ landed = FALSE /\ deadline = FALSE /\ ctxDone = FALSE
    /\ result = "none" /\ sig = NoSig
    /\ height = 0
    /\ lastValid \in IF signed THEN {[k \in Tx |-> v] : v \in 0 .. Validity}
                     ELSE {[k \in Tx |-> 0]}
    /\ chain = [k \in Tx |-> "none"]
    /\ failed = [k \in Tx |-> FALSE]

Landed(k) == chain[k] \in OnChain

\* Inside confirmSignature.
Polling == {"poll", "status", "height", "sleep"}

(***************************************************************************)
(* The client.                                                             *)
(***************************************************************************)

Finish(r, s) ==
    /\ pc' = "done" /\ result' = r /\ sig' = s
    /\ UNCHANGED <<signed, attempt, tries, landed, deadline>>

NextAttempt ==
    /\ attempt' = attempt + 1 /\ pc' = "blockhash"
    /\ tries' = 0 /\ landed' = FALSE /\ deadline' = FALSE
    /\ UNCHANGED <<signed, result, sig>>

OneAttemptTooMany(r, s) ==      \* mutant: attempt <= maxBlockhashRetries
    IF ~signed /\ attempt <= MaxRetries THEN NextAttempt ELSE Finish(r, s)
ZeroSignature(r, s) ==          \* mutant: return solana.Signature{}, err
    IF ~signed /\ attempt < MaxRetries THEN NextAttempt ELSE Finish(r, NoSig)

\* continue: the next round of the loop, if this was not the last attempt.
RetryOrFinish(r, s) ==
    IF ~signed /\ attempt < MaxRetries THEN NextAttempt ELSE Finish(r, s)

\* GetLatestBlockhash: the blockhash may already be some blocks old.
FetchBlockhash ==
    /\ pc = "blockhash" /\ ~ctxDone
    /\ \E v \in height .. height + Validity :
            lastValid' = [lastValid EXCEPT ![attempt] = v]
    /\ pc' = "build"
    /\ UNCHANGED <<signed, attempt, tries, landed, deadline, result, sig,
                   ctxDone, height, chain, failed>>

\* GetLatestBlockhash or the builder fails.
FetchOrBuildFails ==
    /\ pc \in {"blockhash", "build"}
    /\ Finish("prepare", NoSig)
    /\ UNCHANGED <<ctxDone, clusterVars>>

Build ==
    /\ pc = "build" /\ pc' = "send"
    /\ UNCHANGED <<signed, attempt, tries, landed, deadline, result, sig,
                   ctxDone, clusterVars>>

\* One HTTP attempt of sendTransaction reaches the node, which broadcasts the
\* transaction ...
Broadcast ==
    chain' = [chain EXCEPT ![attempt] = IF @ = "none" THEN "sent" ELSE @]

\* ... and its answer arrives: on to confirmSignature with a fresh deadline.
SendOk ==
    /\ pc = "send" /\ ~ctxDone
    /\ Broadcast
    /\ pc' = "poll" /\ deadline' = FALSE
    /\ UNCHANGED <<signed, attempt, tries, landed, result, sig, ctxDone,
                   height, lastValid, failed>>

\* The HTTP attempt fails in a retryable way, after or before the broadcast:
\* sendRaw tries again until MaxAttempts.
SendTransient ==
    /\ pc = "send" /\ ~ctxDone
    /\ Broadcast \/ UNCHANGED chain
    /\ IF tries + 1 < MaxAttempts
         THEN /\ tries' = tries + 1
              /\ UNCHANGED <<signed, pc, attempt, landed, deadline, result, sig>>
         ELSE Finish("send", NoSig)
    /\ UNCHANGED <<ctxDone, height, lastValid, failed>>

\* Preflight, signature verification or the context: not retried.
SendRejected ==
    /\ pc = "send"
    /\ Finish("send", NoSig)
    /\ UNCHANGED <<ctxDone, clusterVars>>

\* "Blockhash not found" (IsBlockhashExpired): the blockhash is too old, or the
\* node does not know it yet.
SendExpired ==
    /\ pc = "send" /\ ~ctxDone
    /\ chain[attempt] = "none" \/ height > lastValid[attempt]
    /\ RetryOrFinish("send", NoSig)
    /\ UNCHANGED <<ctxDone, clusterVars>>

\* Head of the polling loop: deadline first, then the context.
PollForever ==                  \* mutant: the deadline is not looked at
    /\ pc = "poll"
    /\ IF ctxDone THEN Finish("context", attempt)
       ELSE /\ pc' = "status" /\ landed' = FALSE
            /\ UNCHANGED <<signed, attempt, tries, deadline, result, sig>>
    /\ UNCHANGED <<ctxDone, clusterVars>>
Poll ==
    /\ pc = "poll"
    /\ IF deadline THEN Finish("timeout", attempt)
       ELSE IF ctxDone THEN Finish("context", attempt)
       ELSE /\ pc' = "status" /\ landed' = FALSE
            /\ UNCHANGED <<signed, attempt, tries, deadline, result, sig>>
    /\ UNCHANGED <<ctxDone, clusterVars>>

CommitmentRank(c) ==
    IF c = "processed" THEN 0 ELSE IF c = "confirmed" THEN 1
    ELSE IF c = "finalized" THEN 2 ELSE -1

AnyStatus(status, required) == CommitmentRank(status) >= 0  \* mutant: any status
StatusReachedCommitment(status, required) ==
    /\ CommitmentRank(status) >= 0 /\ CommitmentRank(required) >= 0
    /\ CommitmentRank(status) >= CommitmentRank(required)

\* GetSignatureStatuses answers.
StatusAnswer ==
    /\ pc = "status" /\ ~deadline /\ ~ctxDone
    /\ IF ~Landed(attempt)
         THEN /\ pc' = "height" /\ landed' = FALSE
              /\ UNCHANGED <<signed, attempt, tries, deadline, result, sig>>
       ELSE IF failed[attempt] THEN Finish("txerror", attempt)
       ELSE IF StatusReachedCommitment(chain[attempt], Required)
         THEN Finish("confirmed", attempt)
       ELSE /\ pc' = "height" /\ landed' = TRUE
            /\ UNCHANGED <<signed, attempt, tries, deadline, result, sig>>
    /\ UNCHANGED <<ctxDone, clusterVars>>

\* GetSignatureStatuses fails: the error is swallowed and landed stays false.
StatusFails ==
    /\ pc = "status" /\ pc' = "height"
    /\ UNCHANGED <<signed, attempt, tries, landed, deadline, result, sig,
                   ctxDone, clusterVars>>

\* height > *lastValidBlockHeight.
AtLastValid(h) == h >= lastValid[attempt]                   \* mutant: off by one
PastLastValid(h) == h > lastValid[attempt]

\* GetBlockHeight, only when the transaction was not seen and lastValid is known.
HeightAnswer ==
    /\ pc = "height" /\ ~landed /\ ~signed /\ ~deadline /\ ~ctxDone
    /\ \E h \in 0 .. height :
        IF PastLastValid(h)
          THEN RetryOrFinish("expired", attempt)
          ELSE /\ pc' = "sleep"
               /\ UNCHANGED <<signed, attempt, tries, landed, deadline, result, sig>>
    /\ UNCHANGED <<ctxDone, clusterVars>>

\* The call is skipped, or its error is swallowed.
HeightSkipped ==
    /\ pc = "height" /\ pc' = "sleep"
    /\ UNCHANGED <<signed, attempt, tries, landed, deadline, result, sig,
                   ctxDone, clusterVars>>

\* The select of the sleep: the timer, or the context.
Sleep ==
    /\ pc = "sleep" /\ pc' = "poll"
    /\ UNCHANGED <<signed, attempt, tries, landed, deadline, result, sig,
                   ctxDone, clusterVars>>
SleepCancelled ==
    /\ pc = "sleep" /\ ctxDone
    /\ Finish("context", attempt)
    /\ UNCHANGED <<ctxDone, clusterVars>>

Client ==
    \/ FetchBlockhash \/ FetchOrBuildFails \/ Build
    \/ SendOk \/ SendTransient \/ SendRejected \/ SendExpired
    \/ Poll \/ StatusAnswer \/ StatusFails \/ HeightAnswer \/ HeightSkipped
    \/ Sleep \/ SleepCancelled

(***************************************************************************)
(* Time, the caller's context, and the cluster.                            *)
(***************************************************************************)
DeadlinePasses ==
    /\ pc \in Polling /\ ~deadline
    /\ deadline' = TRUE
    /\ UNCHANGED <<signed, pc, attempt, tries, landed, result, sig, ctxDone,
                   clusterVars>>

Cancel ==
    /\ pc # "done" /\ ~ctxDone /\ ctxDone' = TRUE
    /\ UNCHANGED <<clientVars, clusterVars>>

NewBlock ==
    /\ height < MaxHeight /\ height' = height + 1
    /\ UNCHANGED <<clientVars, ctxDone, lastValid, chain, failed>>

Land(k, f) ==
    /\ chain[k] = "sent" /\ height <= lastValid[k]
    /\ chain' = [chain EXCEPT ![k] = "processed"]
    /\ failed' = [failed EXCEPT ![k] = f]
    /\ UNCHANGED <<clientVars, ctxDone, height, lastValid>>

Deepen(k) ==
    /\ chain[k] \in {"processed", "confirmed"}
    /\ chain' = [chain EXCEPT ![k] = IF @ = "processed" THEN "confirmed"
                                     ELSE "finalized"]
    /\ UNCHANGED <<clientVars, ctxDone, height, lastValid, failed>>

Environment ==
    \/ DeadlinePasses \/ Cancel \/ NewBlock
    \/ \E k \in Tx : Deepen(k) \/ \E f \in BOOLEAN : Land(k, f)

Next == Client \/ Environment

Spec == Init /\ [][Next]_vars

\* Fairness.  No call needs an answer: http.Client has no Timeout and the cluster
\* owes nothing.  What goes on by itself is the goroutine between two calls, a call
\* whose context has ended (callCtx by the deadline, ctx by the caller), and time.
\* The caller's builder is taken to return once its ctx has ended.
Local ==
    \/ Poll \/ Sleep \/ SleepCancelled
    \/ (landed \/ signed) /\ HeightSkipped
Aborted ==
    \/ (deadline \/ ctxDone) /\ (StatusFails \/ HeightSkipped)
    \/ ctxDone /\ (FetchOrBuildFails \/ Build \/ SendRejected)
FairSpec ==
    Spec /\ WF_vars(Local) /\ WF_vars(Aborted) /\ WF_vars(DeadlinePasses)

--------------------------------------------------------------------------------
Labels == {"blockhash", "build", "send", "done"} \cup Polling

\* Every variable has its type.
TypeOK ==
    /\ signed \in BOOLEAN /\ pc \in Labels
    /\ attempt \in Tx /\ tries \in 0 .. MaxAttempts - 1
    /\ landed \in BOOLEAN /\ deadline \in BOOLEAN /\ ctxDone \in BOOLEAN
    /\ result \in {"none", "prepare", "send", "expired", "timeout", "context",
                   "txerror", "confirmed"}
    /\ sig \in Tx \cup {NoSig}
    /\ height \in 0 .. MaxHeight
    /\ lastValid \in [Tx -> 0 .. MaxHeight + Validity]
    /\ chain \in [Tx -> OnChain \cup {"none", "sent"}]
    /\ failed \in [Tx -> BOOLEAN]

\* A transaction that the cluster may still include.
Alive(k) == chain[k] = "sent" /\ height <= lastValid[k]

\* What makes resubmitting safe: an older transaction is never replaced while the
\* cluster could still include it, so at most one is in flight at any time.
AtMostOneInFlight == \A j, k \in Tx : Alive(j) /\ Alive(k) => j = k

\* Success is reported only for the transaction that was sent last, which is on
\* chain without an error at the commitment the caller asked for.
SuccessIsReal ==
    result = "confirmed" =>
        /\ sig = attempt /\ ~failed[sig]
        /\ CommitmentRank(chain[sig]) >= CommitmentRank(Required)

\* The caller can always look up what may have cost money.  Whatever the outcome,
\* and in whichever attempt it came, the signature returned is that of the one
\* transaction the cluster may still include, and of the last one if that is on
\* chain; a failure to fetch or build in a later attempt returns no signature
\* (send.go:107, 112) and needs none, since all earlier transactions are too old
\* by then.  The one exception is a sendTransaction that itself failed: its
\* transaction may have been broadcast although the answer was lost.  (A given-up
\* transaction that had landed is the subject of RecordedIsNotResent.)
SignatureKept ==
    pc = "done" =>
        /\ \A k \in Tx : Alive(k) \/ (k = attempt /\ Landed(k)) =>
                sig = k \/ (k = attempt /\ result = "send")
        /\ sig # NoSig => chain[sig] # "none"

\* "a single hung GetSignatureStatuses / GetBlockHeight cannot block past
\* confirmTimeout": confirmSignature ends, or goes on to the next attempt, even if
\* no call is ever answered again.  Before it only ctx ends a silent exchange
\* (GetLatestBlockhash, build and sendTransaction run on ctx, without a timeout of
\* their own), and after a cancellation the whole call returns, wherever it was.
AlwaysReturns ==
    /\ pc \in Polling ~> pc \in {"done", "blockhash"}
    /\ ctxDone ~> pc = "done"

\* "once the cluster has recorded the signature, expiry no longer matters": the
\* height check of confirmSignature never declares expired, and so never gives up
\* or has rebuilt, a transaction that the cluster has recorded.
RecordedIsNotResent ==
    [][pc = "height" /\ (attempt' # attempt \/ result' = "expired")
            => ~Landed(attempt)]_vars
================================================================================
