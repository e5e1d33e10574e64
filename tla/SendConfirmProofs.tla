--------------------------- MODULE SendConfirmProofs ---------------------------
(***************************************************************************)
(* The safety of SendAndConfirmTransaction for every number of retries, HTTP *)
(* attempts, blockhash validity and block height.  None of the properties is *)
(* inductive by itself; IInv adds what each phase knows about the             *)
(* transactions of this attempt, of earlier and of later ones.               *)
(***************************************************************************)
EXTENDS SendConfirm, TLAPS

\* A transaction that was given up was never broadcast, or its blockhash is too old.
GivenUp == \A k \in Tx : k < attempt => chain[k] = "none" \/ height > lastValid[k]

\* Later attempts have not begun; the signed variant stays at its first.
NotBegun ==
    /\ \A k \in Tx : k > attempt => chain[k] = "none"
    /\ signed => attempt = 0

\* Confirmation is polled only for a transaction that was broadcast.
Sent == pc \in Polling => chain[attempt] # "none"

\* While an attempt is prepared, its transaction does not exist.
Preparing == {"blockhash", "build"}
Unsent == pc \in Preparing => chain[attempt] = "none"

\* A call that has not returned has no result.
Running == pc # "done" => result = "none"

\* What the outcome says of the last transaction, and when it carries a signature.
Returned ==
    pc = "done" =>
        /\ result = "prepare" => sig = NoSig /\ chain[attempt] = "none"
        /\ result = "send" => sig = NoSig
        /\ result \notin {"prepare", "send"} => sig = attempt /\ chain[attempt] # "none"

IInv ==
    /\ TypeOK /\ GivenUp /\ NotBegun /\ Sent /\ Unsent /\ Running
    /\ SuccessIsReal /\ Returned

USE RetriesAssumption, AttemptsAssumption, HeightAssumption, RequiredAssumption

--------------------------------------------------------------------------------
\* The initial state: nothing was sent and nothing was returned.
LEMMA InitIInv == Init => IInv
  <1> SUFFICES ASSUME Init PROVE IInv
    OBVIOUS
  <1>1. TypeOK
    <2>1. 0 \in Tx
      BY DEF Tx
    <2>2. lastValid \in [Tx -> 0 .. MaxHeight + Validity]
      <3>1. CASE signed
        <4>1. PICK v \in 0 .. Validity : lastValid = [k \in Tx |-> v]
          BY <3>1 DEF Init
        <4>2. v \in 0 .. MaxHeight + Validity
          OBVIOUS
        <4> QED BY <4>1, <4>2
      <3>2. CASE ~signed
        BY <3>2 DEF Init
      <3> QED BY <3>1, <3>2
    <2>3. pc \in Labels /\ tries \in 0 .. MaxAttempts - 1 /\ height \in 0 .. MaxHeight
      BY DEF Init, Labels
    <2>4. chain \in [Tx -> OnChain \cup {"none", "sent"}] /\ failed \in [Tx -> BOOLEAN]
      BY DEF Init
    <2>5. attempt \in Tx /\ sig \in Tx \cup {NoSig} /\ result = "none"
      BY <2>1 DEF Init
    <2>6. signed \in BOOLEAN /\ landed = FALSE /\ deadline = FALSE /\ ctxDone = FALSE
      BY DEF Init
    <2> QED BY <2>2, <2>3, <2>4, <2>5, <2>6 DEF TypeOK
  <1>2. GivenUp /\ NotBegun /\ Sent /\ Unsent /\ Running
    BY DEF Init, GivenUp, NotBegun, Sent, Unsent, Running, Polling, Tx
  <1>3. SuccessIsReal /\ Returned
    BY DEF Init, SuccessIsReal, Returned
  <1> QED BY <1>1, <1>2, <1>3 DEF IInv

--------------------------------------------------------------------------------
(***************************************************************************)
(* The two ways out of an attempt.                                         *)
(***************************************************************************)

\* Returning keeps the invariant, provided the result is a permitted one.
LEMMA FinishIInv ==
    ASSUME IInv, NEW r, NEW s, Finish(r, s), UNCHANGED <<ctxDone, clusterVars>>,
           r \in {"prepare", "send", "expired", "timeout", "context", "txerror",
                  "confirmed"},
           s \in Tx \cup {NoSig},
           r = "confirmed" => /\ s = attempt /\ ~failed[s]
                              /\ CommitmentRank(chain[s]) >= CommitmentRank(Required),
           r = "prepare" => s = NoSig /\ chain[attempt] = "none",
           r = "send" => s = NoSig,
           r \notin {"prepare", "send"} => s = attempt /\ chain[attempt] # "none"
    PROVE  IInv'
  <1>1. TypeOK'
    BY DEF IInv, TypeOK, Finish, Labels, clusterVars
  <1>2. GivenUp' /\ NotBegun' /\ Sent' /\ Unsent' /\ Running'
    BY DEF IInv, GivenUp, NotBegun, Sent, Unsent, Preparing, Running, Polling, Finish,
           clusterVars
  <1>3. SuccessIsReal' /\ Returned'
    BY DEF SuccessIsReal, Returned, Finish, clusterVars, CommitmentRank
  <1> QED BY <1>1, <1>2, <1>3 DEF IInv

\* So does going on to the next attempt, provided this one is over: its
\* transaction was never broadcast, or can no longer be included.
LEMMA NextAttemptIInv ==
    ASSUME IInv, NextAttempt, UNCHANGED <<ctxDone, clusterVars>>,
           ~signed, attempt < MaxRetries, pc # "done",
           chain[attempt] = "none" \/ height > lastValid[attempt]
    PROVE  IInv'
  <1>1. TypeOK'
    <2>1. attempt' \in Tx
      BY DEF IInv, TypeOK, NextAttempt, Tx
    <2>2. tries' \in 0 .. MaxAttempts - 1 /\ pc' \in Labels
      BY DEF NextAttempt, Labels
    <2>3. landed' \in BOOLEAN /\ deadline' \in BOOLEAN /\ signed' \in BOOLEAN
      BY DEF IInv, TypeOK, NextAttempt
    <2> QED BY <2>1, <2>2, <2>3 DEF IInv, TypeOK, NextAttempt, clusterVars
  <1>2. GivenUp'
    BY DEF IInv, TypeOK, GivenUp, NextAttempt, clusterVars, Tx
  <1>3. NotBegun' /\ Sent' /\ Unsent' /\ Running'
    BY DEF IInv, TypeOK, NotBegun, Sent, Unsent, Running, Polling, NextAttempt,
           clusterVars, Tx
  <1>4. SuccessIsReal' /\ Returned'
    BY DEF IInv, Running, SuccessIsReal, Returned, NextAttempt
  <1> QED BY <1>1, <1>2, <1>3, <1>4 DEF IInv

\* continue, or the return after the last attempt.
LEMMA RetryOrFinishIInv ==
    ASSUME IInv, NEW r, NEW s, RetryOrFinish(r, s), UNCHANGED <<ctxDone, clusterVars>>,
           pc # "done",
           chain[attempt] = "none" \/ height > lastValid[attempt],
           \/ r = "send" /\ s = NoSig
           \/ r = "expired" /\ s = attempt /\ chain[attempt] # "none"
    PROVE  IInv'
  <1>1. CASE ~signed /\ attempt < MaxRetries
    BY <1>1, NextAttemptIInv DEF RetryOrFinish
  <1>2. CASE ~(~signed /\ attempt < MaxRetries)
    <2>1. Finish(r, s)
      BY <1>2 DEF RetryOrFinish
    <2>2. s \in Tx \cup {NoSig}
      BY DEF IInv, TypeOK
    <2> QED BY <2>1, <2>2, FinishIInv
  <1> QED BY <1>1, <1>2

\* A step that stays in this attempt and leaves the cluster alone.
LEMMA StayIInv ==
    ASSUME IInv, pc # "done", pc' \in Labels \ {"done"},
           pc' \in Polling => pc \in Polling, pc' \in Preparing => pc \in Preparing,
           landed' \in BOOLEAN, deadline' \in BOOLEAN, tries' \in 0 .. MaxAttempts - 1,
           UNCHANGED <<signed, attempt, result, sig, ctxDone, height, chain, failed,
                       lastValid>>
    PROVE  IInv'
  <1>1. TypeOK' /\ GivenUp' /\ NotBegun'
    BY DEF IInv, TypeOK, GivenUp, NotBegun
  <1>2. Sent' /\ Unsent' /\ Running' /\ SuccessIsReal' /\ Returned'
    BY DEF IInv, Sent, Unsent, Running, SuccessIsReal, Returned, Labels, Polling
  <1> QED BY <1>1, <1>2 DEF IInv

--------------------------------------------------------------------------------
(***************************************************************************)
(* One lemma per group of actions.                                         *)
(***************************************************************************)

\* Fetching the blockhash and building the transaction.
LEMMA PrepareIInv ==
    ASSUME IInv, FetchBlockhash \/ FetchOrBuildFails \/ Build
    PROVE  IInv'
  <1>1. CASE FetchBlockhash
    <2>1. PICK v \in height .. height + Validity :
              lastValid' = [lastValid EXCEPT ![attempt] = v]
      BY <1>1 DEF FetchBlockhash
    <2>2. v \in 0 .. MaxHeight + Validity
      BY <2>1 DEF IInv, TypeOK
    <2>3. TypeOK'
      BY <1>1, <2>1, <2>2 DEF IInv, TypeOK, FetchBlockhash, Labels
    <2>4. GivenUp' /\ NotBegun'
      BY <1>1, <2>1 DEF IInv, TypeOK, GivenUp, NotBegun, FetchBlockhash, Tx
    <2>5. Sent' /\ Unsent' /\ Running' /\ SuccessIsReal' /\ Returned'
      BY <1>1 DEF IInv, Sent, Unsent, Preparing, Running, Polling, SuccessIsReal,
                  Returned, FetchBlockhash
    <2> QED BY <2>3, <2>4, <2>5 DEF IInv
  <1>2. CASE FetchOrBuildFails
    BY <1>2, FinishIInv DEF FetchOrBuildFails, IInv, Unsent, Preparing
  <1>3. CASE Build
    <2>1. landed' \in BOOLEAN /\ deadline' \in BOOLEAN /\ tries' \in 0 .. MaxAttempts - 1
      BY <1>3 DEF Build, IInv, TypeOK
    <2> QED BY <1>3, <2>1, StayIInv DEF Build, Labels, Polling, Preparing, clusterVars
  <1> QED BY <1>1, <1>2, <1>3

\* A broadcast of this attempt's transaction, while the call goes on.
LEMMA BroadcastIInv ==
    ASSUME IInv, Broadcast, pc # "done", pc' \in Polling \cup {"send"},
           landed' \in BOOLEAN, deadline' \in BOOLEAN, tries' \in 0 .. MaxAttempts - 1,
           UNCHANGED <<signed, attempt, result, sig, ctxDone, height, failed, lastValid>>
    PROVE  IInv'
  <1>1. /\ chain' \in [Tx -> OnChain \cup {"none", "sent"}]
        /\ chain'[attempt] # "none"
        /\ \A k \in Tx : k # attempt => chain'[k] = chain[k]
    BY DEF IInv, TypeOK, Broadcast
  <1>2. TypeOK'
    BY <1>1 DEF IInv, TypeOK, Labels
  <1>3. GivenUp' /\ NotBegun'
    BY <1>1 DEF IInv, TypeOK, GivenUp, NotBegun, Tx
  <1>4. Sent' /\ Unsent' /\ Running' /\ SuccessIsReal' /\ Returned'
    BY <1>1 DEF IInv, Sent, Unsent, Preparing, Polling, Running, SuccessIsReal, Returned
  <1> QED BY <1>2, <1>3, <1>4 DEF IInv

\* sendTransaction fails for good after this attempt's transaction was broadcast.
LEMMA BroadcastFailsIInv ==
    ASSUME IInv, Broadcast, Finish("send", NoSig), pc # "done",
           UNCHANGED <<ctxDone, height, lastValid, failed>>
    PROVE  IInv'
  <1>1. /\ chain' \in [Tx -> OnChain \cup {"none", "sent"}]
        /\ \A k \in Tx : k # attempt => chain'[k] = chain[k]
    BY DEF IInv, TypeOK, Broadcast
  <1>2. TypeOK'
    BY <1>1 DEF IInv, TypeOK, Finish, Labels
  <1>3. GivenUp' /\ NotBegun'
    BY <1>1 DEF IInv, TypeOK, GivenUp, NotBegun, Finish, Tx
  <1>4. Sent' /\ Unsent' /\ Running' /\ SuccessIsReal' /\ Returned'
    BY DEF Sent, Unsent, Preparing, Running, Polling, SuccessIsReal, Returned, Finish
  <1> QED BY <1>2, <1>3, <1>4 DEF IInv

\* sendTransaction and its HTTP retries.
LEMMA SendIInv ==
    ASSUME IInv, SendOk \/ SendTransient \/ SendRejected \/ SendExpired
    PROVE  IInv'
  <1>0. landed \in BOOLEAN /\ deadline \in BOOLEAN /\ tries \in 0 .. MaxAttempts - 1
    BY DEF IInv, TypeOK
  <1>1. CASE SendOk
    BY <1>0, <1>1, BroadcastIInv DEF SendOk, Polling
  <1>2. CASE SendTransient
    <2>0. UNCHANGED <<ctxDone, height, lastValid, failed>> /\ pc = "send"
      BY <1>2 DEF SendTransient
    <2>1. CASE tries + 1 < MaxAttempts
      <3>1. /\ tries' \in 0 .. MaxAttempts - 1
            /\ UNCHANGED <<signed, pc, attempt, landed, deadline, result, sig>>
        BY <1>0, <1>2, <2>1 DEF SendTransient
      <3>2. CASE Broadcast
        BY <1>0, <2>0, <3>1, <3>2, BroadcastIInv DEF Polling
      <3>3. CASE UNCHANGED chain
        BY <1>0, <2>0, <3>1, <3>3, StayIInv DEF Labels, Polling, Preparing
      <3> QED BY <1>2, <3>2, <3>3 DEF SendTransient
    <2>2. CASE ~(tries + 1 < MaxAttempts)
      <3>1. Finish("send", NoSig)
        BY <1>2, <2>2 DEF SendTransient
      <3>2. CASE Broadcast
        BY <2>0, <3>1, <3>2, BroadcastFailsIInv
      <3>3. CASE UNCHANGED chain
        BY <2>0, <3>1, <3>3, FinishIInv DEF clusterVars
      <3> QED BY <1>2, <3>2, <3>3 DEF SendTransient
    <2> QED BY <2>1, <2>2
  <1>3. CASE SendRejected
    BY <1>3, FinishIInv DEF SendRejected
  <1>4. CASE SendExpired
    BY <1>4, RetryOrFinishIInv DEF SendExpired
  <1> QED BY <1>1, <1>2, <1>3, <1>4

\* The polling loop of confirmSignature.
LEMMA ConfirmIInv ==
    ASSUME IInv,
           \/ Poll \/ StatusAnswer \/ StatusFails \/ HeightAnswer
           \/ HeightSkipped \/ Sleep \/ SleepCancelled
    PROVE  IInv'
  <1>0. /\ landed \in BOOLEAN /\ deadline \in BOOLEAN
        /\ tries \in 0 .. MaxAttempts - 1 /\ attempt \in Tx
    BY DEF IInv, TypeOK
  <1>a. /\ pc \in Polling /\ pc # "done"
        /\ UNCHANGED <<ctxDone, clusterVars>>
    BY DEF Poll, StatusAnswer, StatusFails, HeightAnswer, HeightSkipped, Sleep,
           SleepCancelled, Polling
  <1>b. chain[attempt] # "none"
    BY <1>a DEF IInv, Sent
  <1>c. ASSUME NEW r \in {"timeout", "context", "txerror"}, Finish(r, attempt)
        PROVE  IInv'
    BY <1>0, <1>a, <1>b, <1>c, FinishIInv
  <1>d. ASSUME pc' \in Polling, landed' \in BOOLEAN,
               UNCHANGED <<signed, attempt, tries, deadline, result, sig>>
        PROVE  IInv'
    BY <1>0, <1>a, <1>d, StayIInv DEF Labels, Polling, Preparing, clusterVars
  <1>1. CASE Poll
    BY <1>1, <1>c, <1>d DEF Poll, Polling
  <1>2. CASE StatusAnswer
    <2>1. CASE ~Landed(attempt)
      BY <1>2, <1>d, <2>1 DEF StatusAnswer, Polling
    <2>2. CASE Landed(attempt) /\ failed[attempt]
      BY <1>2, <1>c, <2>2 DEF StatusAnswer
    <2>3. CASE /\ Landed(attempt) /\ ~failed[attempt]
               /\ StatusReachedCommitment(chain[attempt], Required)
      <3>1. Finish("confirmed", attempt)
        BY <1>2, <2>3 DEF StatusAnswer
      <3>2. CommitmentRank(chain[attempt]) >= CommitmentRank(Required)
        BY <2>3 DEF StatusReachedCommitment
      <3> QED BY <1>0, <1>a, <1>b, <2>3, <3>1, <3>2, FinishIInv
    <2>4. CASE /\ Landed(attempt) /\ ~failed[attempt]
               /\ ~StatusReachedCommitment(chain[attempt], Required)
      BY <1>2, <1>d, <2>4 DEF StatusAnswer, Polling
    <2> QED BY <2>1, <2>2, <2>3, <2>4
  <1>3. CASE StatusFails
    BY <1>0, <1>3, <1>d DEF StatusFails, Polling
  <1>4. CASE HeightAnswer
    <2>1. PICK h \in 0 .. height :
              IF PastLastValid(h) THEN RetryOrFinish("expired", attempt)
              ELSE /\ pc' = "sleep"
                   /\ UNCHANGED <<signed, attempt, tries, landed, deadline, result, sig>>
      BY <1>4 DEF HeightAnswer
    <2>2. CASE PastLastValid(h)
      <3>1. height > lastValid[attempt]
        BY <1>0, <2>1, <2>2 DEF PastLastValid, IInv, TypeOK
      <3> QED BY <1>a, <1>b, <2>1, <2>2, <3>1, RetryOrFinishIInv
    <2>3. CASE ~PastLastValid(h)
      BY <1>0, <1>d, <2>1, <2>3 DEF Polling
    <2> QED BY <2>2, <2>3
  <1>5. CASE HeightSkipped
    BY <1>0, <1>5, <1>d DEF HeightSkipped, Polling
  <1>6. CASE Sleep
    BY <1>0, <1>6, <1>d DEF Sleep, Polling
  <1>7. CASE SleepCancelled
    BY <1>7, <1>c DEF SleepCancelled
  <1> QED BY <1>1, <1>2, <1>3, <1>4, <1>5, <1>6, <1>7

\* Time, the caller's context, blocks, and the fate of the transactions: statuses
\* only deepen, and a blockhash that is too old stays too old.
LEMMA EnvironmentIInv == ASSUME IInv, Environment PROVE IInv'
  <1>1. CASE DeadlinePasses
    <2>1. landed' \in BOOLEAN /\ deadline' \in BOOLEAN /\ tries' \in 0 .. MaxAttempts - 1
      BY <1>1 DEF DeadlinePasses, IInv, TypeOK
    <2> QED BY <1>1, <2>1, StayIInv DEF DeadlinePasses, Labels, Polling, Preparing, clusterVars
  <1>2. CASE Cancel
    BY <1>2 DEF Cancel, clientVars, clusterVars, IInv, TypeOK, GivenUp, NotBegun,
                Sent, Unsent, Running, SuccessIsReal, Returned
  <1>3. CASE NewBlock
    <2>1. TypeOK' /\ GivenUp' /\ NotBegun'
      BY <1>3 DEF NewBlock, clientVars, IInv, TypeOK, GivenUp, NotBegun, Tx
    <2>2. Sent' /\ Unsent' /\ Running' /\ SuccessIsReal' /\ Returned'
      BY <1>3 DEF NewBlock, clientVars, IInv, Sent, Unsent, Running, SuccessIsReal, Returned
    <2> QED BY <2>1, <2>2 DEF IInv
  <1>4. ASSUME NEW k \in Tx, Deepen(k) PROVE IInv'
    <2>1. TypeOK'
      BY <1>4 DEF Deepen, clientVars, IInv, TypeOK, OnChain
    <2>2. GivenUp' /\ NotBegun'
      BY <1>4 DEF Deepen, clientVars, IInv, TypeOK, GivenUp, NotBegun
    <2>3. Sent' /\ Unsent' /\ Running' /\ Returned'
      BY <1>4 DEF Deepen, clientVars, IInv, TypeOK, Sent, Unsent, Running, Returned
    <2>4. SuccessIsReal'
      BY <1>4 DEF Deepen, clientVars, IInv, TypeOK, SuccessIsReal, CommitmentRank
    <2> QED BY <2>1, <2>2, <2>3, <2>4 DEF IInv
  <1>5. ASSUME NEW k \in Tx, NEW f \in BOOLEAN, Land(k, f) PROVE IInv'
    <2>1. TypeOK'
      BY <1>5 DEF Land, clientVars, IInv, TypeOK, OnChain
    <2>2. GivenUp' /\ NotBegun'
      BY <1>5 DEF Land, clientVars, IInv, TypeOK, GivenUp, NotBegun
    <2>3. Sent' /\ Unsent' /\ Running' /\ Returned'
      BY <1>5 DEF Land, clientVars, IInv, TypeOK, Sent, Unsent, Running, Returned
    <2>4. SuccessIsReal'
      BY <1>5 DEF Land, clientVars, IInv, TypeOK, SuccessIsReal, CommitmentRank
    <2> QED BY <2>1, <2>2, <2>3, <2>4 DEF IInv
  <1> QED BY <1>1, <1>2, <1>3, <1>4, <1>5 DEF Environment

--------------------------------------------------------------------------------
\* Only the transaction of the current attempt can still be included.
LEMMA AliveIsLast == ASSUME IInv, NEW k \in Tx, Alive(k) PROVE k = attempt
  BY DEF IInv, TypeOK, GivenUp, NotBegun, Alive, Tx

\* IInv holds in every reachable state of the client and the cluster.
THEOREM Invariance == Spec => []IInv
  <1>1. Init => IInv
    BY InitIInv
  <1>2. IInv /\ [Next]_vars => IInv'
    <2> SUFFICES ASSUME IInv, [Next]_vars PROVE IInv'
      OBVIOUS
    <2>1. CASE Client
      BY <2>1, PrepareIInv, SendIInv, ConfirmIInv DEF Client
    <2>2. CASE Environment
      BY <2>2, EnvironmentIInv
    <2>3. CASE UNCHANGED vars
      BY <2>3 DEF vars, clientVars, clusterVars, IInv, TypeOK, GivenUp, NotBegun,
                  Sent, Unsent, Running, SuccessIsReal, Returned
    <2> QED BY <2>1, <2>2, <2>3 DEF Next
  <1> QED BY <1>1, <1>2, PTL DEF Spec

\* Every variable keeps its type; the loops stay within maxBlockhashRetries and
\* MaxAttempts.
THEOREM TypeCorrect == Spec => []TypeOK
  <1>1. IInv => TypeOK
    BY DEF IInv
  <1> QED BY <1>1, Invariance, PTL

\* SendAndConfirmTransaction never replaces a transaction that the cluster could
\* still include: at most one is in flight, for every number of retries.
THEOREM OneInFlight == Spec => []AtMostOneInFlight
  <1>1. IInv => AtMostOneInFlight
    <2> SUFFICES ASSUME IInv, NEW j \in Tx, NEW k \in Tx, Alive(j), Alive(k)
                 PROVE  j = k
      BY DEF AtMostOneInFlight
    <2> QED BY AliveIsLast
  <1> QED BY <1>1, Invariance, PTL

\* A nil error means that the returned signature is on chain, without an error, at
\* the commitment asked for or a deeper one.
THEOREM SuccessSound == Spec => []SuccessIsReal
  <1>1. IInv => SuccessIsReal
    BY DEF IInv
  <1> QED BY <1>1, Invariance, PTL

\* Whatever the outcome of the call and in whichever attempt it came, failures of a
\* later attempt's fetch or build included, the caller holds the signature of the
\* transaction that may still be included and of the last one if it is on chain;
\* only a sendTransaction that itself failed keeps it back.
THEOREM SignatureNeverLost == Spec => []SignatureKept
  <1>1. IInv => SignatureKept
    <2> SUFFICES ASSUME IInv, pc = "done"
                 PROVE  /\ \A k \in Tx : Alive(k) \/ (k = attempt /\ Landed(k)) =>
                               sig = k \/ (k = attempt /\ result = "send")
                        /\ sig # NoSig => chain[sig] # "none"
      BY DEF SignatureKept
    <2>1. ASSUME NEW k \in Tx, Alive(k) \/ (k = attempt /\ Landed(k))
          PROVE  sig = k \/ (k = attempt /\ result = "send")
      <3>1. k = attempt
        BY <2>1, AliveIsLast
      <3>2. chain[attempt] # "none"
        BY <2>1, <3>1 DEF Alive, Landed, OnChain
      <3> QED BY <3>1, <3>2 DEF IInv, Returned
    <2>2. sig # NoSig => chain[sig] # "none"
      BY DEF IInv, Returned
    <2> QED BY <2>1, <2>2
  <1> QED BY <1>1, Invariance, PTL
================================================================================
