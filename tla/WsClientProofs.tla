---------------------------- MODULE WsClientProofs ----------------------------
(***************************************************************************)
(* Proofs about WsClient, for every number of callers, requests and ids.    *)
(*                                                                          *)
(* NoPanic and ShutdownOnce are not inductive: what keeps close(done) and   *)
(* shutdown() from running twice is that a pendingReply, and later a map    *)
(* entry, has exactly one owner at any time.  The invariant says so:        *)
(* PendingOwner for the way from Subscribe to the reply, EntryOwner for the *)
(* way from the registration to the shutdown.  The other properties need to *)
(* know in addition which id an entry sits under (EntryId), that a sub.id is *)
(* written once (IdOnce), and what the history variables record.            *)
(***************************************************************************)
EXTENDS WsClient, TLAPS

\* The phases of Close: until its critical section the client is open and the
\* snapshots are empty; from then on the maps are nil and empty.
ClosePhase ==
    /\ mapsNil = closedFlag
    /\ closedFlag <=> once \in {"release", "done"}
    /\ clientDone <=> once = "done"
    /\ once \in {"free", "conn", "lock"} => closePending = {} /\ closeSubs = {}
    /\ once = "done" => closePending = {} /\ closeSubs = {}
    /\ closedFlag => /\ pendingReqs = {}
                     /\ \A i \in SubIDs : subscriptions[i] = NoReq

\* The read loop has a request in hand exactly while it processes one.
ReplyLabels  == {"register", "reject", "signal"}
NotifyLabels == {"dispatch", "drop", "shutdown"}
LoopHand ==
    /\ rpc \in ReplyLabels \cup NotifyLabels =>
         rreq \in Req /\ rreq <= nextReqID
    /\ rpc \in {"register", "dispatch", "drop"} => rid \in SubIDs

\* A Subscribe in progress knows its request; a request that succeeded knows
\* the id the server gave it, and only such requests are handed to callers.
InSubscribe == {"write", "wait", "cancel"}
CallerHand ==
    /\ \A g \in Callers : pc[g] \in InSubscribe =>
                             cur[g] \in Req /\ cur[g] <= nextReqID
    /\ \A r \in Req : (reply[r] = "ok" \/ (rpc = "signal" /\ rreq = r)) =>
                             subId[r] \in SubIDs
    /\ \A r \in handles : reply[r] = "ok"

\* An unresolved pendingReply is in one place: in the map, in the hands of
\* Close, or in the hands of the read loop.
PendingOwner ==
    /\ \A r \in pendingReqs \cup closePending :
         reply[r] = "open" /\ r <= nextReqID
    /\ rpc \in ReplyLabels => /\ reply[rreq] = "open"
                              /\ rreq \notin pendingReqs \cup closePending
    /\ \A r \in Req : r > nextReqID => reply[r] = "open"

\* A request the server has not accepted has no entry anywhere.
NotBorn(r) == reply[r] # "ok" /\ ~(rpc = "signal" /\ rreq = r)
Unowned(r) == /\ \A i \in SubIDs : subscriptions[i] # r
              /\ r \notin closeSubs
              /\ \A g \in Callers : entry[g] # r
              /\ shutdowns[r] = 0
              /\ ~(rpc \in NotifyLabels /\ rreq = r)
Unborn == \A r \in Req : NotBorn(r) => Unowned(r)

\* An entry is under one id, or in the snapshot of Close, or in the hands of one
\* Unsubscribe; and it has not been shut down, unless it is a one-shot entry.
EntryOwner ==
    /\ \A i \in SubIDs : subscriptions[i] # NoReq =>
         /\ \A j \in SubIDs : subscriptions[j] = subscriptions[i] => j = i
         /\ subscriptions[i] \notin closeSubs
         /\ \A g \in Callers : entry[g] # subscriptions[i]
         /\ ~oneShot[subscriptions[i]] => shutdowns[subscriptions[i]] = 0
    /\ \A g \in Callers : entry[g] # NoReq =>
         /\ \A h \in Callers : entry[h] = entry[g] => h = g
         /\ entry[g] \notin closeSubs
         /\ ~oneShot[entry[g]] => shutdowns[entry[g]] = 0
    /\ \A r \in closeSubs : ~oneShot[r] => shutdowns[r] = 0
    /\ rpc \in {"drop", "shutdown"} => oneShot[rreq]

\* sub.id is written once: a request on its way to the registration has none.
IdOnce == \A r \in Req :
    (r \in pendingReqs \/ r > nextReqID \/ (rpc = "register" /\ rreq = r))
        => subId[r] = NoId

\* An entry sits under its own sub.id, and the read loop remembers that id.
EntryId ==
    /\ \A i \in SubIDs : subscriptions[i] # NoReq => subId[subscriptions[i]] = i
    /\ rpc = "signal" => subId[rreq] = rid
    /\ rpc \in {"dispatch", "drop"} =>
         subId[rreq] = rid /\ subscriptions[rid] \in {rreq, NoReq}

\* Each Subscribe in progress has a request of its own, and until it gives up
\* that request can still be resolved; only Unsubscribe holds an entry.
WaiterOwner ==
    /\ \A g, h \in Callers :
         /\ pc[g] \in InSubscribe /\ pc[h] \in InSubscribe /\ cur[g] = cur[h]
         => g = h
    /\ \A g \in Callers : pc[g] \in {"write", "wait"} =>
         \/ cur[g] \in pendingReqs \cup closePending
         \/ rpc \in ReplyLabels /\ rreq = cur[g]
         \/ reply[cur[g]] # "open"
    /\ \A g \in Callers : entry[g] # NoReq => pc[g] \in {"unsub", "unsubclosed"}

\* An accepted request whose id nobody else got is registered until it ends,
\* and an entry that was taken out is shut down or about to be.
Born(r) == reply[r] = "ok" \/ (rpc = "signal" /\ rreq = r)
LifeCycle == \A r \in Req : (Born(r) /\ ~Displaced(r)) =>
    /\ r \notin ended => subscriptions[subId[r]] = r
    /\ \/ subscriptions[subId[r]] = r
       \/ subDone[r]
       \/ r \in closeSubs
       \/ \E g \in Callers : entry[g] = r
       \/ rpc = "shutdown" /\ rreq = r

\* What ended, late and dispatched record.
History ==
    /\ \A i \in SubIDs : subscriptions[i] \notin ended
    /\ \A r \in Req : NotBorn(r) => r \notin ended /\ dispatched[r] = 0
    /\ \A r \in Req : late[r] # 0 => /\ late[r] = 1 /\ r \in ended
                                     /\ ~(rpc = "dispatch" /\ rreq = r)
    /\ \A r \in Req : dispatched[r] # 0 =>
         /\ dispatched[r] = 1 /\ oneShot[r]
         /\ ~(rpc = "dispatch" /\ rreq = r)
         /\ (rpc = "drop" /\ rreq = r) \/ \A i \in SubIDs : subscriptions[i] # r

\* The inductive invariant.
IInv == /\ TypeOK /\ ClosePhase /\ LoopHand /\ CallerHand /\ PendingOwner
        /\ Unborn /\ EntryOwner /\ NoPanic /\ ShutdownOnce
        /\ IdOnce /\ EntryId /\ WaiterOwner /\ LifeCycle /\ History

-------------------------------------------------------------------------------

\* The sets of the type invariant, without what they are made of.
LEMMA Sets ==
    /\ NoReq \in MaybeReq /\ Req \subseteq MaybeReq
    /\ NoId \in MaybeId /\ SubIDs \subseteq MaybeId
    /\ \A r \in MaybeReq : r # NoReq => r \in Req
    /\ NoReq \notin Req
BY DEF NoReq, MaybeReq, MaybeId, Req

\* The saturating counters stay in their range.
LEMMA BumpType == \A n \in 0 .. 2 : Bump(n) \in 0 .. 2
BY DEF Bump

\* Every step keeps the types.
LEMMA TypeOKStep ==
    ASSUME IInv, [Next]_vars
    PROVE  TypeOK'
<1> USE MaxReqAssumption, Sets, BumpType DEF IInv, TypeOK, CallerLabels,
    LoopLabels
<1>1. ASSUME NEW g \in Callers, NEW one \in BOOLEAN, SubscribeBegin(g, one)
      PROVE  TypeOK'
  BY <1>1 DEF SubscribeBegin, Goto, closeVars, loopVars, endVars, histVars, Req
<1>2. ASSUME NEW g \in Callers, NEW r \in Req, UnsubscribeBegin(g, r)
      PROVE  TypeOK'
  <2>1. subId[r] \in SubIDs /\ subscriptions[subId[r]] \in MaybeReq
    BY <1>2 DEF UnsubscribeBegin, CallerHand
  <2>2. subscriptions' \in [SubIDs -> MaybeReq] /\ ended' \subseteq Req
    BY <1>2, <2>1 DEF UnsubscribeBegin, TakeEntry
  <2>3. nextReqID' \in 0 .. MaxReq
    BY <1>2 DEF UnsubscribeBegin
  <2>4. entry' \in [Callers -> MaybeReq] /\ pc' \in [Callers -> CallerLabels]
    BY <1>2, <2>1 DEF UnsubscribeBegin, Goto
  <2>5. QED
    BY <1>2, <2>2, <2>3, <2>4 DEF UnsubscribeBegin, closeVars, loopVars,
        subVars, endVars
<1>3. ASSUME NEW g \in Callers, SubscribeRefused(g)
      PROVE  TypeOK'
  BY <1>3 DEF SubscribeRefused, vars, mapVars, closeVars, callVars, loopVars,
      subVars, endVars, histVars
<1>4. ASSUME NEW g \in Callers, SubscribeWrite(g)
      PROVE  TypeOK'
  BY <1>4 DEF SubscribeWrite, Goto, mapVars, closeVars, loopVars, subVars,
      endVars, histVars, CallerHand, InSubscribe
<1>5. ASSUME NEW g \in Callers, SubscribeAbort(g)
      PROVE  TypeOK'
  BY <1>5 DEF SubscribeAbort, Goto, mapVars, closeVars, loopVars, subVars,
      endVars, histVars
<1>6. ASSUME NEW g \in Callers, CancelPending(g)
      PROVE  TypeOK'
  BY <1>6 DEF CancelPending, TakePending, Return, Goto, closeVars, loopVars,
      subVars, endVars, histVars
<1>7. ASSUME NEW g \in Callers, SubscribeClosed(g)
      PROVE  TypeOK'
  BY <1>7 DEF SubscribeClosed, Return, Goto, mapVars, closeVars, loopVars,
      subVars, endVars, histVars
<1>8. ASSUME NEW g \in Callers, SubscribeReturn(g)
      PROVE  TypeOK'
  BY <1>8 DEF SubscribeReturn, Return, Goto, mapVars, closeVars, loopVars,
      subVars, endVars, CallerHand, InSubscribe
<1>9. ASSUME NEW g \in Callers, UnsubscribeShutdown(g)
      PROVE  TypeOK'
  BY <1>9 DEF UnsubscribeShutdown, Shutdown, mapVars, closeVars, loopVars,
      subVars, histVars
<1>10. ASSUME NEW g \in Callers, UnsubscribeReturn(g)
      PROVE  TypeOK'
  BY <1>10 DEF UnsubscribeReturn, Return, Goto, mapVars, closeVars, loopVars,
      subVars, endVars, histVars
<1>11. ASSUME NEW g \in Callers, CloseBegin(g)
      PROVE  TypeOK'
  BY <1>11 DEF CloseBegin, Goto, StartOnce, mapVars, loopVars, subVars,
      endVars, histVars
<1>12. ASSUME NEW g \in Callers, CloseReturn(g)
      PROVE  TypeOK'
  BY <1>12 DEF CloseReturn, Return, Goto, mapVars, closeVars, loopVars,
      subVars, endVars, histVars
<1>13. ASSUME CloseConn
      PROVE  TypeOK'
  BY <1>13 DEF CloseConn, mapVars, callVars, loopVars, subVars, endVars,
      histVars
<1>14. ASSUME CloseLock
      PROVE  TypeOK'
  BY <1>14 DEF CloseLock, Registered, callVars, loopVars, subVars, endVars
<1>15. ASSUME CloseDone
      PROVE  TypeOK'
  BY <1>15 DEF CloseDone, mapVars, callVars, loopVars, subVars, endVars,
      histVars
<1>16. ASSUME NEW r \in Req, ClosePending(r)
      PROVE  TypeOK'
  BY <1>16 DEF ClosePending, Resolve, mapVars, callVars, loopVars, subVars,
      endVars, histVars
<1>17. ASSUME NEW r \in Req, CloseSub(r)
      PROVE  TypeOK'
  BY <1>17 DEF CloseSub, Shutdown, mapVars, callVars, loopVars, subVars,
      histVars
<1>18. ASSUME NEW r \in Req, ReplyRejected(r)
      PROVE  TypeOK'
  BY <1>18 DEF ReplyRejected, TakePending, closeVars, callVars, subVars,
      endVars, histVars
<1>19. ASSUME NEW r \in Req, NEW i \in SubIDs, ReplyAccepted(r, i)
      PROVE  TypeOK'
  BY <1>19 DEF ReplyAccepted, TakePending, closeVars, callVars, loopVars,
      subVars, endVars, histVars
<1>20. ASSUME NEW i \in SubIDs, Notified(i)
      PROVE  TypeOK'
  BY <1>20 DEF Notified, mapVars, closeVars, callVars, subVars, endVars,
      histVars
<1>21. ASSUME RejectPending
      PROVE  TypeOK'
  BY <1>21 DEF RejectPending, Resolve, NextFrame, mapVars, closeVars,
      callVars, subVars, endVars, histVars, LoopHand, ReplyLabels,
      NotifyLabels
<1>22. ASSUME RegisterSubscription
      PROVE  TypeOK'
  BY <1>22 DEF RegisterSubscription, StoreId, RegisterOutcome, closeVars,
      callVars, endVars, histVars, LoopHand, ReplyLabels, NotifyLabels
<1>23. ASSUME SignalPending
      PROVE  TypeOK'
  BY <1>23 DEF SignalPending, Resolve, NextFrame, mapVars, closeVars,
      callVars, subVars, endVars, histVars, LoopHand, ReplyLabels,
      NotifyLabels
<1>24. ASSUME Dispatch
      PROVE  TypeOK'
  BY <1>24 DEF Dispatch, NextFrame, mapVars, closeVars, callVars, subVars,
      endVars, LoopHand, ReplyLabels, NotifyLabels
<1>25. ASSUME OneShotDrop
      PROVE  TypeOK'
  BY <1>25 DEF OneShotDrop, TakeEntry, closeVars, callVars, subVars, endVars,
      LoopHand, ReplyLabels, NotifyLabels
<1>26. ASSUME OneShotShutdown
      PROVE  TypeOK'
  BY <1>26 DEF OneShotShutdown, Shutdown, NextFrame, mapVars, closeVars,
      callVars, subVars, histVars, LoopHand, ReplyLabels, NotifyLabels
<1>27. ASSUME ReadError
      PROVE  TypeOK'
  BY <1>27 DEF ReadError, mapVars, closeVars, callVars, subVars, endVars,
      histVars
<1>28. ASSUME ReadLoopClose
      PROVE  TypeOK'
  BY <1>28 DEF ReadLoopClose, StartOnce, mapVars, callVars, subVars, endVars,
      histVars
<1>29. ASSUME ReadLoopExit
      PROVE  TypeOK'
  BY <1>29 DEF ReadLoopExit, mapVars, closeVars, callVars, subVars, endVars,
      histVars
<1>30. ASSUME UNCHANGED vars
      PROVE  TypeOK'
  BY <1>30 DEF vars, mapVars, closeVars, callVars, loopVars, subVars, endVars,
      histVars
<1> HIDE DEF IInv, TypeOK
<1>31. QED
  BY <1>1, <1>2, <1>3, <1>4, <1>5, <1>6, <1>7, <1>8, <1>9, <1>10, <1>11,
      <1>12, <1>13, <1>14, <1>15, <1>16, <1>17, <1>18, <1>19, <1>20, <1>21,
      <1>22, <1>23, <1>24, <1>25, <1>26, <1>27, <1>28, <1>29, <1>30
  DEF Next, CallerStep, CloseStep, ReadLoopStep

\* Close passes its phases in order.
LEMMA ClosePhaseStep ==
    ASSUME IInv, [Next]_vars
    PROVE  ClosePhase'
<1> USE MaxReqAssumption, NoIdAssumption
    DEF IInv, ClosePhase, TypeOK,
        Req, NoReq
<1>1. ASSUME NEW g \in Callers, NEW one \in BOOLEAN, SubscribeBegin(g, one)
      PROVE  ClosePhase'
  BY <1>1 DEF SubscribeBegin, Goto, closeVars, loopVars, endVars, histVars
<1>2. ASSUME NEW g \in Callers, NEW r \in Req, UnsubscribeBegin(g, r)
      PROVE  ClosePhase'
  BY <1>2 DEF UnsubscribeBegin, TakeEntry, Goto, closeVars, loopVars, subVars,
      endVars
<1>3. ASSUME NEW g \in Callers, SubscribeRefused(g)
      PROVE  ClosePhase'
  BY <1>3 DEF SubscribeRefused, vars, mapVars, closeVars, callVars, loopVars,
      subVars, endVars, histVars
<1>4. ASSUME NEW g \in Callers, SubscribeWrite(g)
      PROVE  ClosePhase'
  BY <1>4 DEF SubscribeWrite, Goto, mapVars, closeVars, loopVars, subVars,
      endVars, histVars
<1>5. ASSUME NEW g \in Callers, SubscribeAbort(g)
      PROVE  ClosePhase'
  BY <1>5 DEF SubscribeAbort, Goto, mapVars, closeVars, loopVars, subVars,
      endVars, histVars
<1>6. ASSUME NEW g \in Callers, CancelPending(g)
      PROVE  ClosePhase'
  BY <1>6 DEF CancelPending, TakePending, Return, Goto, closeVars, loopVars,
      subVars, endVars, histVars
<1>7. ASSUME NEW g \in Callers, SubscribeClosed(g)
      PROVE  ClosePhase'
  BY <1>7 DEF SubscribeClosed, Return, Goto, mapVars, closeVars, loopVars,
      subVars, endVars, histVars
<1>8. ASSUME NEW g \in Callers, SubscribeReturn(g)
      PROVE  ClosePhase'
  BY <1>8 DEF SubscribeReturn, Return, Goto, mapVars, closeVars, loopVars,
      subVars, endVars
<1>9. ASSUME NEW g \in Callers, UnsubscribeShutdown(g)
      PROVE  ClosePhase'
  BY <1>9 DEF UnsubscribeShutdown, Shutdown, Bump, mapVars, closeVars,
      loopVars, subVars, histVars
<1>10. ASSUME NEW g \in Callers, UnsubscribeReturn(g)
      PROVE  ClosePhase'
  BY <1>10 DEF UnsubscribeReturn, Return, Goto, mapVars, closeVars, loopVars,
      subVars, endVars, histVars
<1>11. ASSUME NEW g \in Callers, CloseBegin(g)
      PROVE  ClosePhase'
  BY <1>11 DEF CloseBegin, Goto, StartOnce, mapVars, loopVars, subVars,
      endVars, histVars
<1>12. ASSUME NEW g \in Callers, CloseReturn(g)
      PROVE  ClosePhase'
  BY <1>12 DEF CloseReturn, Return, Goto, mapVars, closeVars, loopVars,
      subVars, endVars, histVars
<1>13. ASSUME CloseConn
      PROVE  ClosePhase'
  BY <1>13 DEF CloseConn, mapVars, callVars, loopVars, subVars, endVars,
      histVars
<1>14. ASSUME CloseLock
      PROVE  ClosePhase'
  BY <1>14 DEF CloseLock, Registered, callVars, loopVars, subVars, endVars
<1>15. ASSUME CloseDone
      PROVE  ClosePhase'
  BY <1>15 DEF CloseDone, mapVars, callVars, loopVars, subVars, endVars,
      histVars
<1>16. ASSUME NEW r \in Req, ClosePending(r)
      PROVE  ClosePhase'
  BY <1>16 DEF ClosePending, Resolve, mapVars, callVars, loopVars, subVars,
      endVars, histVars
<1>17. ASSUME NEW r \in Req, CloseSub(r)
      PROVE  ClosePhase'
  BY <1>17 DEF CloseSub, Shutdown, Bump, mapVars, callVars, loopVars, subVars,
      histVars
<1>18. ASSUME NEW r \in Req, ReplyRejected(r)
      PROVE  ClosePhase'
  BY <1>18 DEF ReplyRejected, TakePending, closeVars, callVars, subVars,
      endVars, histVars
<1>19. ASSUME NEW r \in Req, NEW i \in SubIDs, ReplyAccepted(r, i)
      PROVE  ClosePhase'
  BY <1>19 DEF ReplyAccepted, TakePending, closeVars, callVars, loopVars,
      subVars, endVars, histVars
<1>20. ASSUME NEW i \in SubIDs, Notified(i)
      PROVE  ClosePhase'
  BY <1>20 DEF Notified, mapVars, closeVars, callVars, subVars, endVars,
      histVars
<1>21. ASSUME RejectPending
      PROVE  ClosePhase'
  BY <1>21 DEF RejectPending, Resolve, NextFrame, mapVars, closeVars,
      callVars, subVars, endVars, histVars
<1>22. ASSUME RegisterSubscription
      PROVE  ClosePhase'
  BY <1>22 DEF RegisterSubscription, StoreId, RegisterOutcome, closeVars,
      callVars, endVars, histVars
<1>23. ASSUME SignalPending
      PROVE  ClosePhase'
  BY <1>23 DEF SignalPending, Resolve, NextFrame, mapVars, closeVars,
      callVars, subVars, endVars, histVars
<1>24. ASSUME Dispatch
      PROVE  ClosePhase'
  BY <1>24 DEF Dispatch, NextFrame, Bump, mapVars, closeVars, callVars,
      subVars, endVars
<1>25. ASSUME OneShotDrop
      PROVE  ClosePhase'
  BY <1>25 DEF OneShotDrop, TakeEntry, closeVars, callVars, subVars, endVars
<1>26. ASSUME OneShotShutdown
      PROVE  ClosePhase'
  BY <1>26 DEF OneShotShutdown, Shutdown, Bump, NextFrame, mapVars, closeVars,
      callVars, subVars, histVars
<1>27. ASSUME ReadError
      PROVE  ClosePhase'
  BY <1>27 DEF ReadError, mapVars, closeVars, callVars, subVars, endVars,
      histVars
<1>28. ASSUME ReadLoopClose
      PROVE  ClosePhase'
  BY <1>28 DEF ReadLoopClose, StartOnce, mapVars, callVars, subVars, endVars,
      histVars
<1>29. ASSUME ReadLoopExit
      PROVE  ClosePhase'
  BY <1>29 DEF ReadLoopExit, mapVars, closeVars, callVars, subVars, endVars,
      histVars
<1>30. ASSUME UNCHANGED vars
      PROVE  ClosePhase'
  BY <1>30 DEF vars, mapVars, closeVars, callVars, loopVars, subVars, endVars,
      histVars
<1> HIDE DEF IInv, ClosePhase
<1>31. QED
  BY <1>1, <1>2, <1>3, <1>4, <1>5, <1>6, <1>7, <1>8, <1>9, <1>10, <1>11,
      <1>12, <1>13, <1>14, <1>15, <1>16, <1>17, <1>18, <1>19, <1>20, <1>21,
      <1>22, <1>23, <1>24, <1>25, <1>26, <1>27, <1>28, <1>29, <1>30
  DEF Next, CallerStep, CloseStep, ReadLoopStep

\* The read loop always knows what it works on.
LEMMA LoopHandStep ==
    ASSUME IInv, [Next]_vars
    PROVE  LoopHand'
<1> USE MaxReqAssumption, NoIdAssumption
    DEF IInv, LoopHand, TypeOK, PendingOwner, Unborn, NotBorn, Unowned,
        ReplyLabels, NotifyLabels,
        Req, NoReq
<1>1. ASSUME NEW g \in Callers, NEW one \in BOOLEAN, SubscribeBegin(g, one)
      PROVE  LoopHand'
  BY <1>1 DEF SubscribeBegin, Goto, closeVars, loopVars, endVars, histVars
<1>2. ASSUME NEW g \in Callers, NEW r \in Req, UnsubscribeBegin(g, r)
      PROVE  LoopHand'
  BY <1>2 DEF UnsubscribeBegin, TakeEntry, Goto, closeVars, loopVars, subVars,
      endVars
<1>3. ASSUME NEW g \in Callers, SubscribeRefused(g)
      PROVE  LoopHand'
  BY <1>3 DEF SubscribeRefused, vars, mapVars, closeVars, callVars, loopVars,
      subVars, endVars, histVars
<1>4. ASSUME NEW g \in Callers, SubscribeWrite(g)
      PROVE  LoopHand'
  BY <1>4 DEF SubscribeWrite, Goto, mapVars, closeVars, loopVars, subVars,
      endVars, histVars
<1>5. ASSUME NEW g \in Callers, SubscribeAbort(g)
      PROVE  LoopHand'
  BY <1>5 DEF SubscribeAbort, Goto, mapVars, closeVars, loopVars, subVars,
      endVars, histVars
<1>6. ASSUME NEW g \in Callers, CancelPending(g)
      PROVE  LoopHand'
  BY <1>6 DEF CancelPending, TakePending, Return, Goto, closeVars, loopVars,
      subVars, endVars, histVars
<1>7. ASSUME NEW g \in Callers, SubscribeClosed(g)
      PROVE  LoopHand'
  BY <1>7 DEF SubscribeClosed, Return, Goto, mapVars, closeVars, loopVars,
      subVars, endVars, histVars
<1>8. ASSUME NEW g \in Callers, SubscribeReturn(g)
      PROVE  LoopHand'
  BY <1>8 DEF SubscribeReturn, Return, Goto, mapVars, closeVars, loopVars,
      subVars, endVars
<1>9. ASSUME NEW g \in Callers, UnsubscribeShutdown(g)
      PROVE  LoopHand'
  BY <1>9 DEF UnsubscribeShutdown, Shutdown, Bump, mapVars, closeVars,
      loopVars, subVars, histVars
<1>10. ASSUME NEW g \in Callers, UnsubscribeReturn(g)
      PROVE  LoopHand'
  BY <1>10 DEF UnsubscribeReturn, Return, Goto, mapVars, closeVars, loopVars,
      subVars, endVars, histVars
<1>11. ASSUME NEW g \in Callers, CloseBegin(g)
      PROVE  LoopHand'
  BY <1>11 DEF CloseBegin, Goto, StartOnce, mapVars, loopVars, subVars,
      endVars, histVars
<1>12. ASSUME NEW g \in Callers, CloseReturn(g)
      PROVE  LoopHand'
  BY <1>12 DEF CloseReturn, Return, Goto, mapVars, closeVars, loopVars,
      subVars, endVars, histVars
<1>13. ASSUME CloseConn
      PROVE  LoopHand'
  BY <1>13 DEF CloseConn, mapVars, callVars, loopVars, subVars, endVars,
      histVars
<1>14. ASSUME CloseLock
      PROVE  LoopHand'
  BY <1>14 DEF CloseLock, Registered, callVars, loopVars, subVars, endVars
<1>15. ASSUME CloseDone
      PROVE  LoopHand'
  BY <1>15 DEF CloseDone, mapVars, callVars, loopVars, subVars, endVars,
      histVars
<1>16. ASSUME NEW r \in Req, ClosePending(r)
      PROVE  LoopHand'
  BY <1>16 DEF ClosePending, Resolve, mapVars, callVars, loopVars, subVars,
      endVars, histVars
<1>17. ASSUME NEW r \in Req, CloseSub(r)
      PROVE  LoopHand'
  BY <1>17 DEF CloseSub, Shutdown, Bump, mapVars, callVars, loopVars, subVars,
      histVars
<1>18. ASSUME NEW r \in Req, ReplyRejected(r)
      PROVE  LoopHand'
  BY <1>18 DEF ReplyRejected, TakePending, closeVars, callVars, subVars,
      endVars, histVars
<1>19. ASSUME NEW r \in Req, NEW i \in SubIDs, ReplyAccepted(r, i)
      PROVE  LoopHand'
  BY <1>19 DEF ReplyAccepted, TakePending, closeVars, callVars, loopVars,
      subVars, endVars, histVars
<1>20. ASSUME NEW i \in SubIDs, Notified(i)
      PROVE  LoopHand'
  <2>1. subscriptions[i] \in Req /\ ~(subscriptions[i] > nextReqID)
    BY <1>20 DEF Notified, MaybeReq
  <2>2. QED
    BY <1>20, <2>1 DEF Notified, mapVars, closeVars, callVars, subVars,
        endVars, histVars
<1>21. ASSUME RejectPending
      PROVE  LoopHand'
  BY <1>21 DEF RejectPending, Resolve, NextFrame, mapVars, closeVars,
      callVars, subVars, endVars, histVars
<1>22. ASSUME RegisterSubscription
      PROVE  LoopHand'
  BY <1>22 DEF RegisterSubscription, StoreId, RegisterOutcome, closeVars,
      callVars, endVars, histVars
<1>23. ASSUME SignalPending
      PROVE  LoopHand'
  BY <1>23 DEF SignalPending, Resolve, NextFrame, mapVars, closeVars,
      callVars, subVars, endVars, histVars
<1>24. ASSUME Dispatch
      PROVE  LoopHand'
  BY <1>24 DEF Dispatch, NextFrame, Bump, mapVars, closeVars, callVars,
      subVars, endVars
<1>25. ASSUME OneShotDrop
      PROVE  LoopHand'
  BY <1>25 DEF OneShotDrop, TakeEntry, closeVars, callVars, subVars, endVars
<1>26. ASSUME OneShotShutdown
      PROVE  LoopHand'
  BY <1>26 DEF OneShotShutdown, Shutdown, Bump, NextFrame, mapVars, closeVars,
      callVars, subVars, histVars
<1>27. ASSUME ReadError
      PROVE  LoopHand'
  BY <1>27 DEF ReadError, mapVars, closeVars, callVars, subVars, endVars,
      histVars
<1>28. ASSUME ReadLoopClose
      PROVE  LoopHand'
  BY <1>28 DEF ReadLoopClose, StartOnce, mapVars, callVars, subVars, endVars,
      histVars
<1>29. ASSUME ReadLoopExit
      PROVE  LoopHand'
  BY <1>29 DEF ReadLoopExit, mapVars, closeVars, callVars, subVars, endVars,
      histVars
<1>30. ASSUME UNCHANGED vars
      PROVE  LoopHand'
  BY <1>30 DEF vars, mapVars, closeVars, callVars, loopVars, subVars, endVars,
      histVars
<1> HIDE DEF IInv, LoopHand
<1>31. QED
  BY <1>1, <1>2, <1>3, <1>4, <1>5, <1>6, <1>7, <1>8, <1>9, <1>10, <1>11,
      <1>12, <1>13, <1>14, <1>15, <1>16, <1>17, <1>18, <1>19, <1>20, <1>21,
      <1>22, <1>23, <1>24, <1>25, <1>26, <1>27, <1>28, <1>29, <1>30
  DEF Next, CallerStep, CloseStep, ReadLoopStep

\* Callers know their request, handles their id.
LEMMA CallerHandStep ==
    ASSUME IInv, [Next]_vars
    PROVE  CallerHand'
<1> USE MaxReqAssumption, NoIdAssumption
    DEF IInv, CallerHand, TypeOK, LoopHand, PendingOwner, ReplyLabels,
        NotifyLabels, InSubscribe,
        Req, NoReq
<1>1. ASSUME NEW g \in Callers, NEW one \in BOOLEAN, SubscribeBegin(g, one)
      PROVE  CallerHand'
  BY <1>1 DEF SubscribeBegin, Goto, closeVars, loopVars, endVars, histVars
<1>2. ASSUME NEW g \in Callers, NEW r \in Req, UnsubscribeBegin(g, r)
      PROVE  CallerHand'
  BY <1>2 DEF UnsubscribeBegin, TakeEntry, Goto, closeVars, loopVars, subVars,
      endVars
<1>3. ASSUME NEW g \in Callers, SubscribeRefused(g)
      PROVE  CallerHand'
  BY <1>3 DEF SubscribeRefused, vars, mapVars, closeVars, callVars, loopVars,
      subVars, endVars, histVars
<1>4. ASSUME NEW g \in Callers, SubscribeWrite(g)
      PROVE  CallerHand'
  BY <1>4 DEF SubscribeWrite, Goto, mapVars, closeVars, loopVars, subVars,
      endVars, histVars
<1>5. ASSUME NEW g \in Callers, SubscribeAbort(g)
      PROVE  CallerHand'
  BY <1>5 DEF SubscribeAbort, Goto, mapVars, closeVars, loopVars, subVars,
      endVars, histVars
<1>6. ASSUME NEW g \in Callers, CancelPending(g)
      PROVE  CallerHand'
  BY <1>6 DEF CancelPending, TakePending, Return, Goto, closeVars, loopVars,
      subVars, endVars, histVars
<1>7. ASSUME NEW g \in Callers, SubscribeClosed(g)
      PROVE  CallerHand'
  BY <1>7 DEF SubscribeClosed, Return, Goto, mapVars, closeVars, loopVars,
      subVars, endVars, histVars
<1>8. ASSUME NEW g \in Callers, SubscribeReturn(g)
      PROVE  CallerHand'
  BY <1>8 DEF SubscribeReturn, Return, Goto, mapVars, closeVars, loopVars,
      subVars, endVars
<1>9. ASSUME NEW g \in Callers, UnsubscribeShutdown(g)
      PROVE  CallerHand'
  BY <1>9 DEF UnsubscribeShutdown, Shutdown, Bump, mapVars, closeVars,
      loopVars, subVars, histVars
<1>10. ASSUME NEW g \in Callers, UnsubscribeReturn(g)
      PROVE  CallerHand'
  BY <1>10 DEF UnsubscribeReturn, Return, Goto, mapVars, closeVars, loopVars,
      subVars, endVars, histVars
<1>11. ASSUME NEW g \in Callers, CloseBegin(g)
      PROVE  CallerHand'
  BY <1>11 DEF CloseBegin, Goto, StartOnce, mapVars, loopVars, subVars,
      endVars, histVars
<1>12. ASSUME NEW g \in Callers, CloseReturn(g)
      PROVE  CallerHand'
  BY <1>12 DEF CloseReturn, Return, Goto, mapVars, closeVars, loopVars,
      subVars, endVars, histVars
<1>13. ASSUME CloseConn
      PROVE  CallerHand'
  BY <1>13 DEF CloseConn, mapVars, callVars, loopVars, subVars, endVars,
      histVars
<1>14. ASSUME CloseLock
      PROVE  CallerHand'
  BY <1>14 DEF CloseLock, Registered, callVars, loopVars, subVars, endVars
<1>15. ASSUME CloseDone
      PROVE  CallerHand'
  BY <1>15 DEF CloseDone, mapVars, callVars, loopVars, subVars, endVars,
      histVars
<1>16. ASSUME NEW r \in Req, ClosePending(r)
      PROVE  CallerHand'
  BY <1>16 DEF ClosePending, Resolve, mapVars, callVars, loopVars, subVars,
      endVars, histVars
<1>17. ASSUME NEW r \in Req, CloseSub(r)
      PROVE  CallerHand'
  BY <1>17 DEF CloseSub, Shutdown, Bump, mapVars, callVars, loopVars, subVars,
      histVars
<1>18. ASSUME NEW r \in Req, ReplyRejected(r)
      PROVE  CallerHand'
  BY <1>18 DEF ReplyRejected, TakePending, closeVars, callVars, subVars,
      endVars, histVars
<1>19. ASSUME NEW r \in Req, NEW i \in SubIDs, ReplyAccepted(r, i)
      PROVE  CallerHand'
  BY <1>19 DEF ReplyAccepted, TakePending, closeVars, callVars, loopVars,
      subVars, endVars, histVars
<1>20. ASSUME NEW i \in SubIDs, Notified(i)
      PROVE  CallerHand'
  BY <1>20 DEF Notified, mapVars, closeVars, callVars, subVars, endVars,
      histVars
<1>21. ASSUME RejectPending
      PROVE  CallerHand'
  BY <1>21 DEF RejectPending, Resolve, NextFrame, mapVars, closeVars,
      callVars, subVars, endVars, histVars
<1>22. ASSUME RegisterSubscription
      PROVE  CallerHand'
  BY <1>22 DEF RegisterSubscription, StoreId, RegisterOutcome, closeVars,
      callVars, endVars, histVars
<1>23. ASSUME SignalPending
      PROVE  CallerHand'
  BY <1>23 DEF SignalPending, Resolve, NextFrame, mapVars, closeVars,
      callVars, subVars, endVars, histVars
<1>24. ASSUME Dispatch
      PROVE  CallerHand'
  BY <1>24 DEF Dispatch, NextFrame, Bump, mapVars, closeVars, callVars,
      subVars, endVars
<1>25. ASSUME OneShotDrop
      PROVE  CallerHand'
  BY <1>25 DEF OneShotDrop, TakeEntry, closeVars, callVars, subVars, endVars
<1>26. ASSUME OneShotShutdown
      PROVE  CallerHand'
  BY <1>26 DEF OneShotShutdown, Shutdown, Bump, NextFrame, mapVars, closeVars,
      callVars, subVars, histVars
<1>27. ASSUME ReadError
      PROVE  CallerHand'
  BY <1>27 DEF ReadError, mapVars, closeVars, callVars, subVars, endVars,
      histVars
<1>28. ASSUME ReadLoopClose
      PROVE  CallerHand'
  BY <1>28 DEF ReadLoopClose, StartOnce, mapVars, callVars, subVars, endVars,
      histVars
<1>29. ASSUME ReadLoopExit
      PROVE  CallerHand'
  BY <1>29 DEF ReadLoopExit, mapVars, closeVars, callVars, subVars, endVars,
      histVars
<1>30. ASSUME UNCHANGED vars
      PROVE  CallerHand'
  BY <1>30 DEF vars, mapVars, closeVars, callVars, loopVars, subVars, endVars,
      histVars
<1> HIDE DEF IInv, CallerHand
<1>31. QED
  BY <1>1, <1>2, <1>3, <1>4, <1>5, <1>6, <1>7, <1>8, <1>9, <1>10, <1>11,
      <1>12, <1>13, <1>14, <1>15, <1>16, <1>17, <1>18, <1>19, <1>20, <1>21,
      <1>22, <1>23, <1>24, <1>25, <1>26, <1>27, <1>28, <1>29, <1>30
  DEF Next, CallerStep, CloseStep, ReadLoopStep

\* A pendingReply has one owner.
LEMMA PendingOwnerStep ==
    ASSUME IInv, [Next]_vars
    PROVE  PendingOwner'
<1> USE MaxReqAssumption, NoIdAssumption
    DEF IInv, PendingOwner, TypeOK, ClosePhase, LoopHand, ReplyLabels,
        NotifyLabels,
        Req, NoReq
<1>1. ASSUME NEW g \in Callers, NEW one \in BOOLEAN, SubscribeBegin(g, one)
      PROVE  PendingOwner'
  BY <1>1 DEF SubscribeBegin, Goto, closeVars, loopVars, endVars, histVars
<1>2. ASSUME NEW g \in Callers, NEW r \in Req, UnsubscribeBegin(g, r)
      PROVE  PendingOwner'
  BY <1>2 DEF UnsubscribeBegin, TakeEntry, Goto, closeVars, loopVars, subVars,
      endVars
<1>3. ASSUME NEW g \in Callers, SubscribeRefused(g)
      PROVE  PendingOwner'
  BY <1>3 DEF SubscribeRefused, vars, mapVars, closeVars, callVars, loopVars,
      subVars, endVars, histVars
<1>4. ASSUME NEW g \in Callers, SubscribeWrite(g)
      PROVE  PendingOwner'
  BY <1>4 DEF SubscribeWrite, Goto, mapVars, closeVars, loopVars, subVars,
      endVars, histVars
<1>5. ASSUME NEW g \in Callers, SubscribeAbort(g)
      PROVE  PendingOwner'
  BY <1>5 DEF SubscribeAbort, Goto, mapVars, closeVars, loopVars, subVars,
      endVars, histVars
<1>6. ASSUME NEW g \in Callers, CancelPending(g)
      PROVE  PendingOwner'
  BY <1>6 DEF CancelPending, TakePending, Return, Goto, closeVars, loopVars,
      subVars, endVars, histVars
<1>7. ASSUME NEW g \in Callers, SubscribeClosed(g)
      PROVE  PendingOwner'
  BY <1>7 DEF SubscribeClosed, Return, Goto, mapVars, closeVars, loopVars,
      subVars, endVars, histVars
<1>8. ASSUME NEW g \in Callers, SubscribeReturn(g)
      PROVE  PendingOwner'
  BY <1>8 DEF SubscribeReturn, Return, Goto, mapVars, closeVars, loopVars,
      subVars, endVars
<1>9. ASSUME NEW g \in Callers, UnsubscribeShutdown(g)
      PROVE  PendingOwner'
  BY <1>9 DEF UnsubscribeShutdown, Shutdown, Bump, mapVars, closeVars,
      loopVars, subVars, histVars
<1>10. ASSUME NEW g \in Callers, UnsubscribeReturn(g)
      PROVE  PendingOwner'
  BY <1>10 DEF UnsubscribeReturn, Return, Goto, mapVars, closeVars, loopVars,
      subVars, endVars, histVars
<1>11. ASSUME NEW g \in Callers, CloseBegin(g)
      PROVE  PendingOwner'
  BY <1>11 DEF CloseBegin, Goto, StartOnce, mapVars, loopVars, subVars,
      endVars, histVars
<1>12. ASSUME NEW g \in Callers, CloseReturn(g)
      PROVE  PendingOwner'
  BY <1>12 DEF CloseReturn, Return, Goto, mapVars, closeVars, loopVars,
      subVars, endVars, histVars
<1>13. ASSUME CloseConn
      PROVE  PendingOwner'
  BY <1>13 DEF CloseConn, mapVars, callVars, loopVars, subVars, endVars,
      histVars
<1>14. ASSUME CloseLock
      PROVE  PendingOwner'
  BY <1>14 DEF CloseLock, Registered, callVars, loopVars, subVars, endVars
<1>15. ASSUME CloseDone
      PROVE  PendingOwner'
  BY <1>15 DEF CloseDone, mapVars, callVars, loopVars, subVars, endVars,
      histVars
<1>16. ASSUME NEW r \in Req, ClosePending(r)
      PROVE  PendingOwner'
  BY <1>16 DEF ClosePending, Resolve, mapVars, callVars, loopVars, subVars,
      endVars, histVars
<1>17. ASSUME NEW r \in Req, CloseSub(r)
      PROVE  PendingOwner'
  BY <1>17 DEF CloseSub, Shutdown, Bump, mapVars, callVars, loopVars, subVars,
      histVars
<1>18. ASSUME NEW r \in Req, ReplyRejected(r)
      PROVE  PendingOwner'
  BY <1>18 DEF ReplyRejected, TakePending, closeVars, callVars, subVars,
      endVars, histVars
<1>19. ASSUME NEW r \in Req, NEW i \in SubIDs, ReplyAccepted(r, i)
      PROVE  PendingOwner'
  BY <1>19 DEF ReplyAccepted, TakePending, closeVars, callVars, loopVars,
      subVars, endVars, histVars
<1>20. ASSUME NEW i \in SubIDs, Notified(i)
      PROVE  PendingOwner'
  BY <1>20 DEF Notified, mapVars, closeVars, callVars, subVars, endVars,
      histVars
<1>21. ASSUME RejectPending
      PROVE  PendingOwner'
  BY <1>21 DEF RejectPending, Resolve, NextFrame, mapVars, closeVars,
      callVars, subVars, endVars, histVars
<1>22. ASSUME RegisterSubscription
      PROVE  PendingOwner'
  BY <1>22 DEF RegisterSubscription, StoreId, RegisterOutcome, closeVars,
      callVars, endVars, histVars
<1>23. ASSUME SignalPending
      PROVE  PendingOwner'
  BY <1>23 DEF SignalPending, Resolve, NextFrame, mapVars, closeVars,
      callVars, subVars, endVars, histVars
<1>24. ASSUME Dispatch
      PROVE  PendingOwner'
  BY <1>24 DEF Dispatch, NextFrame, Bump, mapVars, closeVars, callVars,
      subVars, endVars
<1>25. ASSUME OneShotDrop
      PROVE  PendingOwner'
  BY <1>25 DEF OneShotDrop, TakeEntry, closeVars, callVars, subVars, endVars
<1>26. ASSUME OneShotShutdown
      PROVE  PendingOwner'
  BY <1>26 DEF OneShotShutdown, Shutdown, Bump, NextFrame, mapVars, closeVars,
      callVars, subVars, histVars
<1>27. ASSUME ReadError
      PROVE  PendingOwner'
  BY <1>27 DEF ReadError, mapVars, closeVars, callVars, subVars, endVars,
      histVars
<1>28. ASSUME ReadLoopClose
      PROVE  PendingOwner'
  BY <1>28 DEF ReadLoopClose, StartOnce, mapVars, callVars, subVars, endVars,
      histVars
<1>29. ASSUME ReadLoopExit
      PROVE  PendingOwner'
  BY <1>29 DEF ReadLoopExit, mapVars, closeVars, callVars, subVars, endVars,
      histVars
<1>30. ASSUME UNCHANGED vars
      PROVE  PendingOwner'
  BY <1>30 DEF vars, mapVars, closeVars, callVars, loopVars, subVars, endVars,
      histVars
<1> HIDE DEF IInv, PendingOwner
<1>31. QED
  BY <1>1, <1>2, <1>3, <1>4, <1>5, <1>6, <1>7, <1>8, <1>9, <1>10, <1>11,
      <1>12, <1>13, <1>14, <1>15, <1>16, <1>17, <1>18, <1>19, <1>20, <1>21,
      <1>22, <1>23, <1>24, <1>25, <1>26, <1>27, <1>28, <1>29, <1>30
  DEF Next, CallerStep, CloseStep, ReadLoopStep

\* Nothing of an unaccepted request is in the maps.
LEMMA UnbornStep ==
    ASSUME IInv, [Next]_vars
    PROVE  Unborn'
<1> USE MaxReqAssumption, NoIdAssumption
    DEF IInv, Unborn, TypeOK, LoopHand, CallerHand, PendingOwner, EntryOwner,
        NotBorn, Unowned, ReplyLabels, NotifyLabels,
        Req, NoReq
<1>1. ASSUME NEW g \in Callers, NEW one \in BOOLEAN, SubscribeBegin(g, one)
      PROVE  Unborn'
  BY <1>1 DEF SubscribeBegin, Goto, closeVars, loopVars, endVars, histVars
<1>2. ASSUME NEW g \in Callers, NEW r \in Req, UnsubscribeBegin(g, r)
      PROVE  Unborn'
  BY <1>2 DEF UnsubscribeBegin, TakeEntry, Goto, closeVars, loopVars, subVars,
      endVars
<1>3. ASSUME NEW g \in Callers, SubscribeRefused(g)
      PROVE  Unborn'
  BY <1>3 DEF SubscribeRefused, vars, mapVars, closeVars, callVars, loopVars,
      subVars, endVars, histVars
<1>4. ASSUME NEW g \in Callers, SubscribeWrite(g)
      PROVE  Unborn'
  BY <1>4 DEF SubscribeWrite, Goto, mapVars, closeVars, loopVars, subVars,
      endVars, histVars
<1>5. ASSUME NEW g \in Callers, SubscribeAbort(g)
      PROVE  Unborn'
  BY <1>5 DEF SubscribeAbort, Goto, mapVars, closeVars, loopVars, subVars,
      endVars, histVars
<1>6. ASSUME NEW g \in Callers, CancelPending(g)
      PROVE  Unborn'
  BY <1>6 DEF CancelPending, TakePending, Return, Goto, closeVars, loopVars,
      subVars, endVars, histVars
<1>7. ASSUME NEW g \in Callers, SubscribeClosed(g)
      PROVE  Unborn'
  BY <1>7 DEF SubscribeClosed, Return, Goto, mapVars, closeVars, loopVars,
      subVars, endVars, histVars
<1>8. ASSUME NEW g \in Callers, SubscribeReturn(g)
      PROVE  Unborn'
  BY <1>8 DEF SubscribeReturn, Return, Goto, mapVars, closeVars, loopVars,
      subVars, endVars
<1>9. ASSUME NEW g \in Callers, UnsubscribeShutdown(g)
      PROVE  Unborn'
  BY <1>9 DEF UnsubscribeShutdown, Shutdown, Bump, mapVars, closeVars,
      loopVars, subVars, histVars
<1>10. ASSUME NEW g \in Callers, UnsubscribeReturn(g)
      PROVE  Unborn'
  BY <1>10 DEF UnsubscribeReturn, Return, Goto, mapVars, closeVars, loopVars,
      subVars, endVars, histVars
<1>11. ASSUME NEW g \in Callers, CloseBegin(g)
      PROVE  Unborn'
  BY <1>11 DEF CloseBegin, Goto, StartOnce, mapVars, loopVars, subVars,
      endVars, histVars
<1>12. ASSUME NEW g \in Callers, CloseReturn(g)
      PROVE  Unborn'
  BY <1>12 DEF CloseReturn, Return, Goto, mapVars, closeVars, loopVars,
      subVars, endVars, histVars
<1>13. ASSUME CloseConn
      PROVE  Unborn'
  BY <1>13 DEF CloseConn, mapVars, callVars, loopVars, subVars, endVars,
      histVars
<1>14. ASSUME CloseLock
      PROVE  Unborn'
  BY <1>14 DEF CloseLock, Registered, callVars, loopVars, subVars, endVars
<1>15. ASSUME CloseDone
      PROVE  Unborn'
  BY <1>15 DEF CloseDone, mapVars, callVars, loopVars, subVars, endVars,
      histVars
<1>16. ASSUME NEW r \in Req, ClosePending(r)
      PROVE  Unborn'
  BY <1>16 DEF ClosePending, Resolve, mapVars, callVars, loopVars, subVars,
      endVars, histVars
<1>17. ASSUME NEW r \in Req, CloseSub(r)
      PROVE  Unborn'
  BY <1>17 DEF CloseSub, Shutdown, Bump, mapVars, callVars, loopVars, subVars,
      histVars
<1>18. ASSUME NEW r \in Req, ReplyRejected(r)
      PROVE  Unborn'
  BY <1>18 DEF ReplyRejected, TakePending, closeVars, callVars, subVars,
      endVars, histVars
<1>19. ASSUME NEW r \in Req, NEW i \in SubIDs, ReplyAccepted(r, i)
      PROVE  Unborn'
  BY <1>19 DEF ReplyAccepted, TakePending, closeVars, callVars, loopVars,
      subVars, endVars, histVars
<1>20. ASSUME NEW i \in SubIDs, Notified(i)
      PROVE  Unborn'
  BY <1>20 DEF Notified, mapVars, closeVars, callVars, subVars, endVars,
      histVars
<1>21. ASSUME RejectPending
      PROVE  Unborn'
  BY <1>21 DEF RejectPending, Resolve, NextFrame, mapVars, closeVars,
      callVars, subVars, endVars, histVars
<1>22. ASSUME RegisterSubscription
      PROVE  Unborn'
  BY <1>22 DEF RegisterSubscription, StoreId, RegisterOutcome, closeVars,
      callVars, endVars, histVars
<1>23. ASSUME SignalPending
      PROVE  Unborn'
  BY <1>23 DEF SignalPending, Resolve, NextFrame, mapVars, closeVars,
      callVars, subVars, endVars, histVars
<1>24. ASSUME Dispatch
      PROVE  Unborn'
  BY <1>24 DEF Dispatch, NextFrame, Bump, mapVars, closeVars, callVars,
      subVars, endVars
<1>25. ASSUME OneShotDrop
      PROVE  Unborn'
  BY <1>25 DEF OneShotDrop, TakeEntry, closeVars, callVars, subVars, endVars
<1>26. ASSUME OneShotShutdown
      PROVE  Unborn'
  BY <1>26 DEF OneShotShutdown, Shutdown, Bump, NextFrame, mapVars, closeVars,
      callVars, subVars, histVars
<1>27. ASSUME ReadError
      PROVE  Unborn'
  BY <1>27 DEF ReadError, mapVars, closeVars, callVars, subVars, endVars,
      histVars
<1>28. ASSUME ReadLoopClose
      PROVE  Unborn'
  BY <1>28 DEF ReadLoopClose, StartOnce, mapVars, callVars, subVars, endVars,
      histVars
<1>29. ASSUME ReadLoopExit
      PROVE  Unborn'
  BY <1>29 DEF ReadLoopExit, mapVars, closeVars, callVars, subVars, endVars,
      histVars
<1>30. ASSUME UNCHANGED vars
      PROVE  Unborn'
  BY <1>30 DEF vars, mapVars, closeVars, callVars, loopVars, subVars, endVars,
      histVars
<1> HIDE DEF IInv, Unborn
<1>31. QED
  BY <1>1, <1>2, <1>3, <1>4, <1>5, <1>6, <1>7, <1>8, <1>9, <1>10, <1>11,
      <1>12, <1>13, <1>14, <1>15, <1>16, <1>17, <1>18, <1>19, <1>20, <1>21,
      <1>22, <1>23, <1>24, <1>25, <1>26, <1>27, <1>28, <1>29, <1>30
  DEF Next, CallerStep, CloseStep, ReadLoopStep

\* A map entry has one owner.
LEMMA EntryOwnerStep ==
    ASSUME IInv, [Next]_vars
    PROVE  EntryOwner'
<1> USE MaxReqAssumption, NoIdAssumption
    DEF IInv, EntryOwner, TypeOK, ClosePhase, LoopHand, CallerHand,
        PendingOwner, Unborn, NotBorn, Unowned, ReplyLabels, NotifyLabels,
        Req, NoReq
<1>1. ASSUME NEW g \in Callers, NEW one \in BOOLEAN, SubscribeBegin(g, one)
      PROVE  EntryOwner'
  BY <1>1 DEF SubscribeBegin, Goto, closeVars, loopVars, endVars, histVars
<1>2. ASSUME NEW g \in Callers, NEW r \in Req, UnsubscribeBegin(g, r)
      PROVE  EntryOwner'
  BY <1>2 DEF UnsubscribeBegin, TakeEntry, Goto, closeVars, loopVars, subVars,
      endVars
<1>3. ASSUME NEW g \in Callers, SubscribeRefused(g)
      PROVE  EntryOwner'
  BY <1>3 DEF SubscribeRefused, vars, mapVars, closeVars, callVars, loopVars,
      subVars, endVars, histVars
<1>4. ASSUME NEW g \in Callers, SubscribeWrite(g)
      PROVE  EntryOwner'
  BY <1>4 DEF SubscribeWrite, Goto, mapVars, closeVars, loopVars, subVars,
      endVars, histVars
<1>5. ASSUME NEW g \in Callers, SubscribeAbort(g)
      PROVE  EntryOwner'
  BY <1>5 DEF SubscribeAbort, Goto, mapVars, closeVars, loopVars, subVars,
      endVars, histVars
<1>6. ASSUME NEW g \in Callers, CancelPending(g)
      PROVE  EntryOwner'
  BY <1>6 DEF CancelPending, TakePending, Return, Goto, closeVars, loopVars,
      subVars, endVars, histVars
<1>7. ASSUME NEW g \in Callers, SubscribeClosed(g)
      PROVE  EntryOwner'
  BY <1>7 DEF SubscribeClosed, Return, Goto, mapVars, closeVars, loopVars,
      subVars, endVars, histVars
<1>8. ASSUME NEW g \in Callers, SubscribeReturn(g)
      PROVE  EntryOwner'
  BY <1>8 DEF SubscribeReturn, Return, Goto, mapVars, closeVars, loopVars,
      subVars, endVars
<1>9. ASSUME NEW g \in Callers, UnsubscribeShutdown(g)
      PROVE  EntryOwner'
  BY <1>9 DEF UnsubscribeShutdown, Shutdown, Bump, mapVars, closeVars,
      loopVars, subVars, histVars
<1>10. ASSUME NEW g \in Callers, UnsubscribeReturn(g)
      PROVE  EntryOwner'
  BY <1>10 DEF UnsubscribeReturn, Return, Goto, mapVars, closeVars, loopVars,
      subVars, endVars, histVars
<1>11. ASSUME NEW g \in Callers, CloseBegin(g)
      PROVE  EntryOwner'
  BY <1>11 DEF CloseBegin, Goto, StartOnce, mapVars, loopVars, subVars,
      endVars, histVars
<1>12. ASSUME NEW g \in Callers, CloseReturn(g)
      PROVE  EntryOwner'
  BY <1>12 DEF CloseReturn, Return, Goto, mapVars, closeVars, loopVars,
      subVars, endVars, histVars
<1>13. ASSUME CloseConn
      PROVE  EntryOwner'
  BY <1>13 DEF CloseConn, mapVars, callVars, loopVars, subVars, endVars,
      histVars
<1>14. ASSUME CloseLock
      PROVE  EntryOwner'
  BY <1>14 DEF CloseLock, Registered, callVars, loopVars, subVars, endVars
<1>15. ASSUME CloseDone
      PROVE  EntryOwner'
  BY <1>15 DEF CloseDone, mapVars, callVars, loopVars, subVars, endVars,
      histVars
<1>16. ASSUME NEW r \in Req, ClosePending(r)
      PROVE  EntryOwner'
  BY <1>16 DEF ClosePending, Resolve, mapVars, callVars, loopVars, subVars,
      endVars, histVars
<1>17. ASSUME NEW r \in Req, CloseSub(r)
      PROVE  EntryOwner'
  BY <1>17 DEF CloseSub, Shutdown, Bump, mapVars, callVars, loopVars, subVars,
      histVars
<1>18. ASSUME NEW r \in Req, ReplyRejected(r)
      PROVE  EntryOwner'
  BY <1>18 DEF ReplyRejected, TakePending, closeVars, callVars, subVars,
      endVars, histVars
<1>19. ASSUME NEW r \in Req, NEW i \in SubIDs, ReplyAccepted(r, i)
      PROVE  EntryOwner'
  BY <1>19 DEF ReplyAccepted, TakePending, closeVars, callVars, loopVars,
      subVars, endVars, histVars
<1>20. ASSUME NEW i \in SubIDs, Notified(i)
      PROVE  EntryOwner'
  BY <1>20 DEF Notified, mapVars, closeVars, callVars, subVars, endVars,
      histVars
<1>21. ASSUME RejectPending
      PROVE  EntryOwner'
  BY <1>21 DEF RejectPending, Resolve, NextFrame, mapVars, closeVars,
      callVars, subVars, endVars, histVars
<1>22. ASSUME RegisterSubscription
      PROVE  EntryOwner'
  BY <1>22 DEF RegisterSubscription, StoreId, RegisterOutcome, closeVars,
      callVars, endVars, histVars
<1>23. ASSUME SignalPending
      PROVE  EntryOwner'
  BY <1>23 DEF SignalPending, Resolve, NextFrame, mapVars, closeVars,
      callVars, subVars, endVars, histVars
<1>24. ASSUME Dispatch
      PROVE  EntryOwner'
  BY <1>24 DEF Dispatch, NextFrame, Bump, mapVars, closeVars, callVars,
      subVars, endVars
<1>25. ASSUME OneShotDrop
      PROVE  EntryOwner'
  BY <1>25 DEF OneShotDrop, TakeEntry, closeVars, callVars, subVars, endVars
<1>26. ASSUME OneShotShutdown
      PROVE  EntryOwner'
  BY <1>26 DEF OneShotShutdown, Shutdown, Bump, NextFrame, mapVars, closeVars,
      callVars, subVars, histVars
<1>27. ASSUME ReadError
      PROVE  EntryOwner'
  BY <1>27 DEF ReadError, mapVars, closeVars, callVars, subVars, endVars,
      histVars
<1>28. ASSUME ReadLoopClose
      PROVE  EntryOwner'
  BY <1>28 DEF ReadLoopClose, StartOnce, mapVars, callVars, subVars, endVars,
      histVars
<1>29. ASSUME ReadLoopExit
      PROVE  EntryOwner'
  BY <1>29 DEF ReadLoopExit, mapVars, closeVars, callVars, subVars, endVars,
      histVars
<1>30. ASSUME UNCHANGED vars
      PROVE  EntryOwner'
  BY <1>30 DEF vars, mapVars, closeVars, callVars, loopVars, subVars, endVars,
      histVars
<1> HIDE DEF IInv, EntryOwner
<1>31. QED
  BY <1>1, <1>2, <1>3, <1>4, <1>5, <1>6, <1>7, <1>8, <1>9, <1>10, <1>11,
      <1>12, <1>13, <1>14, <1>15, <1>16, <1>17, <1>18, <1>19, <1>20, <1>21,
      <1>22, <1>23, <1>24, <1>25, <1>26, <1>27, <1>28, <1>29, <1>30
  DEF Next, CallerStep, CloseStep, ReadLoopStep

\* No step closes a closed channel or stores into a nil map.
LEMMA NoPanicStep ==
    ASSUME IInv, [Next]_vars
    PROVE  NoPanic'
<1> USE MaxReqAssumption, NoIdAssumption
    DEF IInv, NoPanic, TypeOK, ClosePhase, LoopHand, PendingOwner,
        ReplyLabels, NotifyLabels,
        Req, NoReq
<1>1. ASSUME NEW g \in Callers, NEW one \in BOOLEAN, SubscribeBegin(g, one)
      PROVE  NoPanic'
  BY <1>1 DEF SubscribeBegin, Goto, closeVars, loopVars, endVars, histVars
<1>2. ASSUME NEW g \in Callers, NEW r \in Req, UnsubscribeBegin(g, r)
      PROVE  NoPanic'
  BY <1>2 DEF UnsubscribeBegin, TakeEntry, Goto, closeVars, loopVars, subVars,
      endVars
<1>3. ASSUME NEW g \in Callers, SubscribeRefused(g)
      PROVE  NoPanic'
  BY <1>3 DEF SubscribeRefused, vars, mapVars, closeVars, callVars, loopVars,
      subVars, endVars, histVars
<1>4. ASSUME NEW g \in Callers, SubscribeWrite(g)
      PROVE  NoPanic'
  BY <1>4 DEF SubscribeWrite, Goto, mapVars, closeVars, loopVars, subVars,
      endVars, histVars
<1>5. ASSUME NEW g \in Callers, SubscribeAbort(g)
      PROVE  NoPanic'
  BY <1>5 DEF SubscribeAbort, Goto, mapVars, closeVars, loopVars, subVars,
      endVars, histVars
<1>6. ASSUME NEW g \in Callers, CancelPending(g)
      PROVE  NoPanic'
  BY <1>6 DEF CancelPending, TakePending, Return, Goto, closeVars, loopVars,
      subVars, endVars, histVars
<1>7. ASSUME NEW g \in Callers, SubscribeClosed(g)
      PROVE  NoPanic'
  BY <1>7 DEF SubscribeClosed, Return, Goto, mapVars, closeVars, loopVars,
      subVars, endVars, histVars
<1>8. ASSUME NEW g \in Callers, SubscribeReturn(g)
      PROVE  NoPanic'
  BY <1>8 DEF SubscribeReturn, Return, Goto, mapVars, closeVars, loopVars,
      subVars, endVars
<1>9. ASSUME NEW g \in Callers, UnsubscribeShutdown(g)
      PROVE  NoPanic'
  BY <1>9 DEF UnsubscribeShutdown, Shutdown, Bump, mapVars, closeVars,
      loopVars, subVars, histVars
<1>10. ASSUME NEW g \in Callers, UnsubscribeReturn(g)
      PROVE  NoPanic'
  BY <1>10 DEF UnsubscribeReturn, Return, Goto, mapVars, closeVars, loopVars,
      subVars, endVars, histVars
<1>11. ASSUME NEW g \in Callers, CloseBegin(g)
      PROVE  NoPanic'
  BY <1>11 DEF CloseBegin, Goto, StartOnce, mapVars, loopVars, subVars,
      endVars, histVars
<1>12. ASSUME NEW g \in Callers, CloseReturn(g)
      PROVE  NoPanic'
  BY <1>12 DEF CloseReturn, Return, Goto, mapVars, closeVars, loopVars,
      subVars, endVars, histVars
<1>13. ASSUME CloseConn
      PROVE  NoPanic'
  BY <1>13 DEF CloseConn, mapVars, callVars, loopVars, subVars, endVars,
      histVars
<1>14. ASSUME CloseLock
      PROVE  NoPanic'
  BY <1>14 DEF CloseLock, Registered, callVars, loopVars, subVars, endVars
<1>15. ASSUME CloseDone
      PROVE  NoPanic'
  BY <1>15 DEF CloseDone, mapVars, callVars, loopVars, subVars, endVars,
      histVars
<1>16. ASSUME NEW r \in Req, ClosePending(r)
      PROVE  NoPanic'
  BY <1>16 DEF ClosePending, Resolve, mapVars, callVars, loopVars, subVars,
      endVars, histVars
<1>17. ASSUME NEW r \in Req, CloseSub(r)
      PROVE  NoPanic'
  BY <1>17 DEF CloseSub, Shutdown, Bump, mapVars, callVars, loopVars, subVars,
      histVars
<1>18. ASSUME NEW r \in Req, ReplyRejected(r)
      PROVE  NoPanic'
  BY <1>18 DEF ReplyRejected, TakePending, closeVars, callVars, subVars,
      endVars, histVars
<1>19. ASSUME NEW r \in Req, NEW i \in SubIDs, ReplyAccepted(r, i)
      PROVE  NoPanic'
  BY <1>19 DEF ReplyAccepted, TakePending, closeVars, callVars, loopVars,
      subVars, endVars, histVars
<1>20. ASSUME NEW i \in SubIDs, Notified(i)
      PROVE  NoPanic'
  BY <1>20 DEF Notified, mapVars, closeVars, callVars, subVars, endVars,
      histVars
<1>21. ASSUME RejectPending
      PROVE  NoPanic'
  BY <1>21 DEF RejectPending, Resolve, NextFrame, mapVars, closeVars,
      callVars, subVars, endVars, histVars
<1>22. ASSUME RegisterSubscription
      PROVE  NoPanic'
  BY <1>22 DEF RegisterSubscription, StoreId, RegisterOutcome, closeVars,
      callVars, endVars, histVars
<1>23. ASSUME SignalPending
      PROVE  NoPanic'
  BY <1>23 DEF SignalPending, Resolve, NextFrame, mapVars, closeVars,
      callVars, subVars, endVars, histVars
<1>24. ASSUME Dispatch
      PROVE  NoPanic'
  BY <1>24 DEF Dispatch, NextFrame, Bump, mapVars, closeVars, callVars,
      subVars, endVars
<1>25. ASSUME OneShotDrop
      PROVE  NoPanic'
  BY <1>25 DEF OneShotDrop, TakeEntry, closeVars, callVars, subVars, endVars
<1>26. ASSUME OneShotShutdown
      PROVE  NoPanic'
  BY <1>26 DEF OneShotShutdown, Shutdown, Bump, NextFrame, mapVars, closeVars,
      callVars, subVars, histVars
<1>27. ASSUME ReadError
      PROVE  NoPanic'
  BY <1>27 DEF ReadError, mapVars, closeVars, callVars, subVars, endVars,
      histVars
<1>28. ASSUME ReadLoopClose
      PROVE  NoPanic'
  BY <1>28 DEF ReadLoopClose, StartOnce, mapVars, callVars, subVars, endVars,
      histVars
<1>29. ASSUME ReadLoopExit
      PROVE  NoPanic'
  BY <1>29 DEF ReadLoopExit, mapVars, closeVars, callVars, subVars, endVars,
      histVars
<1>30. ASSUME UNCHANGED vars
      PROVE  NoPanic'
  BY <1>30 DEF vars, mapVars, closeVars, callVars, loopVars, subVars, endVars,
      histVars
<1> HIDE DEF IInv, NoPanic
<1>31. QED
  BY <1>1, <1>2, <1>3, <1>4, <1>5, <1>6, <1>7, <1>8, <1>9, <1>10, <1>11,
      <1>12, <1>13, <1>14, <1>15, <1>16, <1>17, <1>18, <1>19, <1>20, <1>21,
      <1>22, <1>23, <1>24, <1>25, <1>26, <1>27, <1>28, <1>29, <1>30
  DEF Next, CallerStep, CloseStep, ReadLoopStep

\* No step shuts an entry down that was shut down before.
LEMMA ShutdownOnceStep ==
    ASSUME IInv, [Next]_vars
    PROVE  ShutdownOnce'
<1> USE MaxReqAssumption, NoIdAssumption
    DEF IInv, ShutdownOnce, TypeOK, LoopHand, PendingOwner, Unborn, NotBorn,
        Unowned, EntryOwner, ReplyLabels, NotifyLabels,
        Req, NoReq
<1>1. ASSUME NEW g \in Callers, NEW one \in BOOLEAN, SubscribeBegin(g, one)
      PROVE  ShutdownOnce'
  BY <1>1 DEF SubscribeBegin, Goto, closeVars, loopVars, endVars, histVars
<1>2. ASSUME NEW g \in Callers, NEW r \in Req, UnsubscribeBegin(g, r)
      PROVE  ShutdownOnce'
  BY <1>2 DEF UnsubscribeBegin, TakeEntry, Goto, closeVars, loopVars, subVars,
      endVars
<1>3. ASSUME NEW g \in Callers, SubscribeRefused(g)
      PROVE  ShutdownOnce'
  BY <1>3 DEF SubscribeRefused, vars, mapVars, closeVars, callVars, loopVars,
      subVars, endVars, histVars
<1>4. ASSUME NEW g \in Callers, SubscribeWrite(g)
      PROVE  ShutdownOnce'
  BY <1>4 DEF SubscribeWrite, Goto, mapVars, closeVars, loopVars, subVars,
      endVars, histVars
<1>5. ASSUME NEW g \in Callers, SubscribeAbort(g)
      PROVE  ShutdownOnce'
  BY <1>5 DEF SubscribeAbort, Goto, mapVars, closeVars, loopVars, subVars,
      endVars, histVars
<1>6. ASSUME NEW g \in Callers, CancelPending(g)
      PROVE  ShutdownOnce'
  BY <1>6 DEF CancelPending, TakePending, Return, Goto, closeVars, loopVars,
      subVars, endVars, histVars
<1>7. ASSUME NEW g \in Callers, SubscribeClosed(g)
      PROVE  ShutdownOnce'
  BY <1>7 DEF SubscribeClosed, Return, Goto, mapVars, closeVars, loopVars,
      subVars, endVars, histVars
<1>8. ASSUME NEW g \in Callers, SubscribeReturn(g)
      PROVE  ShutdownOnce'
  BY <1>8 DEF SubscribeReturn, Return, Goto, mapVars, closeVars, loopVars,
      subVars, endVars
<1>9. ASSUME NEW g \in Callers, UnsubscribeShutdown(g)
      PROVE  ShutdownOnce'
  BY <1>9 DEF UnsubscribeShutdown, Shutdown, Bump, mapVars, closeVars,
      loopVars, subVars, histVars
<1>10. ASSUME NEW g \in Callers, UnsubscribeReturn(g)
      PROVE  ShutdownOnce'
  BY <1>10 DEF UnsubscribeReturn, Return, Goto, mapVars, closeVars, loopVars,
      subVars, endVars, histVars
<1>11. ASSUME NEW g \in Callers, CloseBegin(g)
      PROVE  ShutdownOnce'
  BY <1>11 DEF CloseBegin, Goto, StartOnce, mapVars, loopVars, subVars,
      endVars, histVars
<1>12. ASSUME NEW g \in Callers, CloseReturn(g)
      PROVE  ShutdownOnce'
  BY <1>12 DEF CloseReturn, Return, Goto, mapVars, closeVars, loopVars,
      subVars, endVars, histVars
<1>13. ASSUME CloseConn
      PROVE  ShutdownOnce'
  BY <1>13 DEF CloseConn, mapVars, callVars, loopVars, subVars, endVars,
      histVars
<1>14. ASSUME CloseLock
      PROVE  ShutdownOnce'
  BY <1>14 DEF CloseLock, Registered, callVars, loopVars, subVars, endVars
<1>15. ASSUME CloseDone
      PROVE  ShutdownOnce'
  BY <1>15 DEF CloseDone, mapVars, callVars, loopVars, subVars, endVars,
      histVars
<1>16. ASSUME NEW r \in Req, ClosePending(r)
      PROVE  ShutdownOnce'
  BY <1>16 DEF ClosePending, Resolve, mapVars, callVars, loopVars, subVars,
      endVars, histVars
<1>17. ASSUME NEW r \in Req, CloseSub(r)
      PROVE  ShutdownOnce'
  BY <1>17 DEF CloseSub, Shutdown, Bump, mapVars, callVars, loopVars, subVars,
      histVars
<1>18. ASSUME NEW r \in Req, ReplyRejected(r)
      PROVE  ShutdownOnce'
  BY <1>18 DEF ReplyRejected, TakePending, closeVars, callVars, subVars,
      endVars, histVars
<1>19. ASSUME NEW r \in Req, NEW i \in SubIDs, ReplyAccepted(r, i)
      PROVE  ShutdownOnce'
  BY <1>19 DEF ReplyAccepted, TakePending, closeVars, callVars, loopVars,
      subVars, endVars, histVars
<1>20. ASSUME NEW i \in SubIDs, Notified(i)
      PROVE  ShutdownOnce'
  BY <1>20 DEF Notified, mapVars, closeVars, callVars, subVars, endVars,
      histVars
<1>21. ASSUME RejectPending
      PROVE  ShutdownOnce'
  BY <1>21 DEF RejectPending, Resolve, NextFrame, mapVars, closeVars,
      callVars, subVars, endVars, histVars
<1>22. ASSUME RegisterSubscription
      PROVE  ShutdownOnce'
  BY <1>22 DEF RegisterSubscription, StoreId, RegisterOutcome, closeVars,
      callVars, endVars, histVars
<1>23. ASSUME SignalPending
      PROVE  ShutdownOnce'
  BY <1>23 DEF SignalPending, Resolve, NextFrame, mapVars, closeVars,
      callVars, subVars, endVars, histVars
<1>24. ASSUME Dispatch
      PROVE  ShutdownOnce'
  BY <1>24 DEF Dispatch, NextFrame, Bump, mapVars, closeVars, callVars,
      subVars, endVars
<1>25. ASSUME OneShotDrop
      PROVE  ShutdownOnce'
  BY <1>25 DEF OneShotDrop, TakeEntry, closeVars, callVars, subVars, endVars
<1>26. ASSUME OneShotShutdown
      PROVE  ShutdownOnce'
  BY <1>26 DEF OneShotShutdown, Shutdown, Bump, NextFrame, mapVars, closeVars,
      callVars, subVars, histVars
<1>27. ASSUME ReadError
      PROVE  ShutdownOnce'
  BY <1>27 DEF ReadError, mapVars, closeVars, callVars, subVars, endVars,
      histVars
<1>28. ASSUME ReadLoopClose
      PROVE  ShutdownOnce'
  BY <1>28 DEF ReadLoopClose, StartOnce, mapVars, callVars, subVars, endVars,
      histVars
<1>29. ASSUME ReadLoopExit
      PROVE  ShutdownOnce'
  BY <1>29 DEF ReadLoopExit, mapVars, closeVars, callVars, subVars, endVars,
      histVars
<1>30. ASSUME UNCHANGED vars
      PROVE  ShutdownOnce'
  BY <1>30 DEF vars, mapVars, closeVars, callVars, loopVars, subVars, endVars,
      histVars
<1> HIDE DEF IInv, ShutdownOnce
<1>31. QED
  BY <1>1, <1>2, <1>3, <1>4, <1>5, <1>6, <1>7, <1>8, <1>9, <1>10, <1>11,
      <1>12, <1>13, <1>14, <1>15, <1>16, <1>17, <1>18, <1>19, <1>20, <1>21,
      <1>22, <1>23, <1>24, <1>25, <1>26, <1>27, <1>28, <1>29, <1>30
  DEF Next, CallerStep, CloseStep, ReadLoopStep

\* Ids are written once.
LEMMA IdOnceStep ==
    ASSUME IInv, [Next]_vars
    PROVE  IdOnce'
<1> USE MaxReqAssumption, NoIdAssumption
    DEF IInv, IdOnce, TypeOK, LoopHand, PendingOwner, ReplyLabels,
        NotifyLabels,
        Req, NoReq
<1>1. ASSUME NEW g \in Callers, NEW one \in BOOLEAN, SubscribeBegin(g, one)
      PROVE  IdOnce'
  BY <1>1 DEF SubscribeBegin, Goto, closeVars, loopVars, endVars, histVars
<1>2. ASSUME NEW g \in Callers, NEW r \in Req, UnsubscribeBegin(g, r)
      PROVE  IdOnce'
  BY <1>2 DEF UnsubscribeBegin, TakeEntry, Goto, closeVars, loopVars, subVars,
      endVars
<1>3. ASSUME NEW g \in Callers, SubscribeRefused(g)
      PROVE  IdOnce'
  BY <1>3 DEF SubscribeRefused, vars, mapVars, closeVars, callVars, loopVars,
      subVars, endVars, histVars
<1>4. ASSUME NEW g \in Callers, SubscribeWrite(g)
      PROVE  IdOnce'
  BY <1>4 DEF SubscribeWrite, Goto, mapVars, closeVars, loopVars, subVars,
      endVars, histVars
<1>5. ASSUME NEW g \in Callers, SubscribeAbort(g)
      PROVE  IdOnce'
  BY <1>5 DEF SubscribeAbort, Goto, mapVars, closeVars, loopVars, subVars,
      endVars, histVars
<1>6. ASSUME NEW g \in Callers, CancelPending(g)
      PROVE  IdOnce'
  BY <1>6 DEF CancelPending, TakePending, Return, Goto, closeVars, loopVars,
      subVars, endVars, histVars
<1>7. ASSUME NEW g \in Callers, SubscribeClosed(g)
      PROVE  IdOnce'
  BY <1>7 DEF SubscribeClosed, Return, Goto, mapVars, closeVars, loopVars,
      subVars, endVars, histVars
<1>8. ASSUME NEW g \in Callers, SubscribeReturn(g)
      PROVE  IdOnce'
  BY <1>8 DEF SubscribeReturn, Return, Goto, mapVars, closeVars, loopVars,
      subVars, endVars
<1>9. ASSUME NEW g \in Callers, UnsubscribeShutdown(g)
      PROVE  IdOnce'
  BY <1>9 DEF UnsubscribeShutdown, Shutdown, Bump, mapVars, closeVars,
      loopVars, subVars, histVars
<1>10. ASSUME NEW g \in Callers, UnsubscribeReturn(g)
      PROVE  IdOnce'
  BY <1>10 DEF UnsubscribeReturn, Return, Goto, mapVars, closeVars, loopVars,
      subVars, endVars, histVars
<1>11. ASSUME NEW g \in Callers, CloseBegin(g)
      PROVE  IdOnce'
  BY <1>11 DEF CloseBegin, Goto, StartOnce, mapVars, loopVars, subVars,
      endVars, histVars
<1>12. ASSUME NEW g \in Callers, CloseReturn(g)
      PROVE  IdOnce'
  BY <1>12 DEF CloseReturn, Return, Goto, mapVars, closeVars, loopVars,
      subVars, endVars, histVars
<1>13. ASSUME CloseConn
      PROVE  IdOnce'
  BY <1>13 DEF CloseConn, mapVars, callVars, loopVars, subVars, endVars,
      histVars
<1>14. ASSUME CloseLock
      PROVE  IdOnce'
  BY <1>14 DEF CloseLock, Registered, callVars, loopVars, subVars, endVars
<1>15. ASSUME CloseDone
      PROVE  IdOnce'
  BY <1>15 DEF CloseDone, mapVars, callVars, loopVars, subVars, endVars,
      histVars
<1>16. ASSUME NEW r \in Req, ClosePending(r)
      PROVE  IdOnce'
  BY <1>16 DEF ClosePending, Resolve, mapVars, callVars, loopVars, subVars,
      endVars, histVars
<1>17. ASSUME NEW r \in Req, CloseSub(r)
      PROVE  IdOnce'
  BY <1>17 DEF CloseSub, Shutdown, Bump, mapVars, callVars, loopVars, subVars,
      histVars
<1>18. ASSUME NEW r \in Req, ReplyRejected(r)
      PROVE  IdOnce'
  BY <1>18 DEF ReplyRejected, TakePending, closeVars, callVars, subVars,
      endVars, histVars
<1>19. ASSUME NEW r \in Req, NEW i \in SubIDs, ReplyAccepted(r, i)
      PROVE  IdOnce'
  BY <1>19 DEF ReplyAccepted, TakePending, closeVars, callVars, loopVars,
      subVars, endVars, histVars
<1>20. ASSUME NEW i \in SubIDs, Notified(i)
      PROVE  IdOnce'
  BY <1>20 DEF Notified, mapVars, closeVars, callVars, subVars, endVars,
      histVars
<1>21. ASSUME RejectPending
      PROVE  IdOnce'
  BY <1>21 DEF RejectPending, Resolve, NextFrame, mapVars, closeVars,
      callVars, subVars, endVars, histVars
<1>22. ASSUME RegisterSubscription
      PROVE  IdOnce'
  BY <1>22 DEF RegisterSubscription, StoreId, RegisterOutcome, closeVars,
      callVars, endVars, histVars
<1>23. ASSUME SignalPending
      PROVE  IdOnce'
  BY <1>23 DEF SignalPending, Resolve, NextFrame, mapVars, closeVars,
      callVars, subVars, endVars, histVars
<1>24. ASSUME Dispatch
      PROVE  IdOnce'
  BY <1>24 DEF Dispatch, NextFrame, Bump, mapVars, closeVars, callVars,
      subVars, endVars
<1>25. ASSUME OneShotDrop
      PROVE  IdOnce'
  BY <1>25 DEF OneShotDrop, TakeEntry, closeVars, callVars, subVars, endVars
<1>26. ASSUME OneShotShutdown
      PROVE  IdOnce'
  BY <1>26 DEF OneShotShutdown, Shutdown, Bump, NextFrame, mapVars, closeVars,
      callVars, subVars, histVars
<1>27. ASSUME ReadError
      PROVE  IdOnce'
  BY <1>27 DEF ReadError, mapVars, closeVars, callVars, subVars, endVars,
      histVars
<1>28. ASSUME ReadLoopClose
      PROVE  IdOnce'
  BY <1>28 DEF ReadLoopClose, StartOnce, mapVars, callVars, subVars, endVars,
      histVars
<1>29. ASSUME ReadLoopExit
      PROVE  IdOnce'
  BY <1>29 DEF ReadLoopExit, mapVars, closeVars, callVars, subVars, endVars,
      histVars
<1>30. ASSUME UNCHANGED vars
      PROVE  IdOnce'
  BY <1>30 DEF vars, mapVars, closeVars, callVars, loopVars, subVars, endVars,
      histVars
<1> HIDE DEF IInv, IdOnce
<1>31. QED
  BY <1>1, <1>2, <1>3, <1>4, <1>5, <1>6, <1>7, <1>8, <1>9, <1>10, <1>11,
      <1>12, <1>13, <1>14, <1>15, <1>16, <1>17, <1>18, <1>19, <1>20, <1>21,
      <1>22, <1>23, <1>24, <1>25, <1>26, <1>27, <1>28, <1>29, <1>30
  DEF Next, CallerStep, CloseStep, ReadLoopStep

\* Entries stay under their own id.
LEMMA EntryIdStep ==
    ASSUME IInv, [Next]_vars
    PROVE  EntryId'
<1> USE MaxReqAssumption, NoIdAssumption
    DEF IInv, EntryId, TypeOK, LoopHand, PendingOwner, IdOnce, CallerHand,
        Unborn, NotBorn, Unowned, ReplyLabels, NotifyLabels, MaybeId,
        MaybeReq,
        Req, NoReq
<1>1. ASSUME NEW g \in Callers, NEW one \in BOOLEAN, SubscribeBegin(g, one)
      PROVE  EntryId'
  BY <1>1 DEF SubscribeBegin, Goto, closeVars, loopVars, endVars, histVars
<1>2. ASSUME NEW g \in Callers, NEW r \in Req, UnsubscribeBegin(g, r)
      PROVE  EntryId'
  BY <1>2 DEF UnsubscribeBegin, TakeEntry, Goto, closeVars, loopVars, subVars,
      endVars
<1>3. ASSUME NEW g \in Callers, SubscribeRefused(g)
      PROVE  EntryId'
  BY <1>3 DEF SubscribeRefused, vars, mapVars, closeVars, callVars, loopVars,
      subVars, endVars, histVars
<1>4. ASSUME NEW g \in Callers, SubscribeWrite(g)
      PROVE  EntryId'
  BY <1>4 DEF SubscribeWrite, Goto, mapVars, closeVars, loopVars, subVars,
      endVars, histVars
<1>5. ASSUME NEW g \in Callers, SubscribeAbort(g)
      PROVE  EntryId'
  BY <1>5 DEF SubscribeAbort, Goto, mapVars, closeVars, loopVars, subVars,
      endVars, histVars
<1>6. ASSUME NEW g \in Callers, CancelPending(g)
      PROVE  EntryId'
  BY <1>6 DEF CancelPending, TakePending, Return, Goto, closeVars, loopVars,
      subVars, endVars, histVars
<1>7. ASSUME NEW g \in Callers, SubscribeClosed(g)
      PROVE  EntryId'
  BY <1>7 DEF SubscribeClosed, Return, Goto, mapVars, closeVars, loopVars,
      subVars, endVars, histVars
<1>8. ASSUME NEW g \in Callers, SubscribeReturn(g)
      PROVE  EntryId'
  BY <1>8 DEF SubscribeReturn, Return, Goto, mapVars, closeVars, loopVars,
      subVars, endVars
<1>9. ASSUME NEW g \in Callers, UnsubscribeShutdown(g)
      PROVE  EntryId'
  BY <1>9 DEF UnsubscribeShutdown, Shutdown, Bump, mapVars, closeVars,
      loopVars, subVars, histVars
<1>10. ASSUME NEW g \in Callers, UnsubscribeReturn(g)
      PROVE  EntryId'
  BY <1>10 DEF UnsubscribeReturn, Return, Goto, mapVars, closeVars, loopVars,
      subVars, endVars, histVars
<1>11. ASSUME NEW g \in Callers, CloseBegin(g)
      PROVE  EntryId'
  BY <1>11 DEF CloseBegin, Goto, StartOnce, mapVars, loopVars, subVars,
      endVars, histVars
<1>12. ASSUME NEW g \in Callers, CloseReturn(g)
      PROVE  EntryId'
  BY <1>12 DEF CloseReturn, Return, Goto, mapVars, closeVars, loopVars,
      subVars, endVars, histVars
<1>13. ASSUME CloseConn
      PROVE  EntryId'
  BY <1>13 DEF CloseConn, mapVars, callVars, loopVars, subVars, endVars,
      histVars
<1>14. ASSUME CloseLock
      PROVE  EntryId'
  BY <1>14 DEF CloseLock, Registered, callVars, loopVars, subVars, endVars
<1>15. ASSUME CloseDone
      PROVE  EntryId'
  BY <1>15 DEF CloseDone, mapVars, callVars, loopVars, subVars, endVars,
      histVars
<1>16. ASSUME NEW r \in Req, ClosePending(r)
      PROVE  EntryId'
  BY <1>16 DEF ClosePending, Resolve, mapVars, callVars, loopVars, subVars,
      endVars, histVars
<1>17. ASSUME NEW r \in Req, CloseSub(r)
      PROVE  EntryId'
  BY <1>17 DEF CloseSub, Shutdown, Bump, mapVars, callVars, loopVars, subVars,
      histVars
<1>18. ASSUME NEW r \in Req, ReplyRejected(r)
      PROVE  EntryId'
  BY <1>18 DEF ReplyRejected, TakePending, closeVars, callVars, subVars,
      endVars, histVars
<1>19. ASSUME NEW r \in Req, NEW i \in SubIDs, ReplyAccepted(r, i)
      PROVE  EntryId'
  BY <1>19 DEF ReplyAccepted, TakePending, closeVars, callVars, loopVars,
      subVars, endVars, histVars
<1>20. ASSUME NEW i \in SubIDs, Notified(i)
      PROVE  EntryId'
  BY <1>20 DEF Notified, mapVars, closeVars, callVars, subVars, endVars,
      histVars
<1>21. ASSUME RejectPending
      PROVE  EntryId'
  BY <1>21 DEF RejectPending, Resolve, NextFrame, mapVars, closeVars,
      callVars, subVars, endVars, histVars
<1>22. ASSUME RegisterSubscription
      PROVE  EntryId'
  BY <1>22 DEF RegisterSubscription, StoreId, RegisterOutcome, closeVars,
      callVars, endVars, histVars
<1>23. ASSUME SignalPending
      PROVE  EntryId'
  BY <1>23 DEF SignalPending, Resolve, NextFrame, mapVars, closeVars,
      callVars, subVars, endVars, histVars
<1>24. ASSUME Dispatch
      PROVE  EntryId'
  BY <1>24 DEF Dispatch, NextFrame, Bump, mapVars, closeVars, callVars,
      subVars, endVars
<1>25. ASSUME OneShotDrop
      PROVE  EntryId'
  BY <1>25 DEF OneShotDrop, TakeEntry, closeVars, callVars, subVars, endVars
<1>26. ASSUME OneShotShutdown
      PROVE  EntryId'
  BY <1>26 DEF OneShotShutdown, Shutdown, Bump, NextFrame, mapVars, closeVars,
      callVars, subVars, histVars
<1>27. ASSUME ReadError
      PROVE  EntryId'
  BY <1>27 DEF ReadError, mapVars, closeVars, callVars, subVars, endVars,
      histVars
<1>28. ASSUME ReadLoopClose
      PROVE  EntryId'
  BY <1>28 DEF ReadLoopClose, StartOnce, mapVars, callVars, subVars, endVars,
      histVars
<1>29. ASSUME ReadLoopExit
      PROVE  EntryId'
  BY <1>29 DEF ReadLoopExit, mapVars, closeVars, callVars, subVars, endVars,
      histVars
<1>30. ASSUME UNCHANGED vars
      PROVE  EntryId'
  BY <1>30 DEF vars, mapVars, closeVars, callVars, loopVars, subVars, endVars,
      histVars
<1> HIDE DEF IInv, EntryId
<1>31. QED
  BY <1>1, <1>2, <1>3, <1>4, <1>5, <1>6, <1>7, <1>8, <1>9, <1>10, <1>11,
      <1>12, <1>13, <1>14, <1>15, <1>16, <1>17, <1>18, <1>19, <1>20, <1>21,
      <1>22, <1>23, <1>24, <1>25, <1>26, <1>27, <1>28, <1>29, <1>30
  DEF Next, CallerStep, CloseStep, ReadLoopStep

\* A waiting Subscribe is not forgotten.
LEMMA WaiterOwnerStep ==
    ASSUME IInv, [Next]_vars
    PROVE  WaiterOwner'
<1> USE MaxReqAssumption, NoIdAssumption
    DEF IInv, WaiterOwner, TypeOK, ClosePhase, LoopHand, CallerHand,
        PendingOwner, ReplyLabels, NotifyLabels, InSubscribe,
        Req, NoReq
<1>1. ASSUME NEW g \in Callers, NEW one \in BOOLEAN, SubscribeBegin(g, one)
      PROVE  WaiterOwner'
  BY <1>1 DEF SubscribeBegin, Goto, closeVars, loopVars, endVars, histVars
<1>2. ASSUME NEW g \in Callers, NEW r \in Req, UnsubscribeBegin(g, r)
      PROVE  WaiterOwner'
  BY <1>2 DEF UnsubscribeBegin, TakeEntry, Goto, closeVars, loopVars, subVars,
      endVars
<1>3. ASSUME NEW g \in Callers, SubscribeRefused(g)
      PROVE  WaiterOwner'
  BY <1>3 DEF SubscribeRefused, vars, mapVars, closeVars, callVars, loopVars,
      subVars, endVars, histVars
<1>4. ASSUME NEW g \in Callers, SubscribeWrite(g)
      PROVE  WaiterOwner'
  BY <1>4 DEF SubscribeWrite, Goto, mapVars, closeVars, loopVars, subVars,
      endVars, histVars
<1>5. ASSUME NEW g \in Callers, SubscribeAbort(g)
      PROVE  WaiterOwner'
  BY <1>5 DEF SubscribeAbort, Goto, mapVars, closeVars, loopVars, subVars,
      endVars, histVars
<1>6. ASSUME NEW g \in Callers, CancelPending(g)
      PROVE  WaiterOwner'
  BY <1>6 DEF CancelPending, TakePending, Return, Goto, closeVars, loopVars,
      subVars, endVars, histVars
<1>7. ASSUME NEW g \in Callers, SubscribeClosed(g)
      PROVE  WaiterOwner'
  BY <1>7 DEF SubscribeClosed, Return, Goto, mapVars, closeVars, loopVars,
      subVars, endVars, histVars
<1>8. ASSUME NEW g \in Callers, SubscribeReturn(g)
      PROVE  WaiterOwner'
  BY <1>8 DEF SubscribeReturn, Return, Goto, mapVars, closeVars, loopVars,
      subVars, endVars
<1>9. ASSUME NEW g \in Callers, UnsubscribeShutdown(g)
      PROVE  WaiterOwner'
  BY <1>9 DEF UnsubscribeShutdown, Shutdown, Bump, mapVars, closeVars,
      loopVars, subVars, histVars
<1>10. ASSUME NEW g \in Callers, UnsubscribeReturn(g)
      PROVE  WaiterOwner'
  BY <1>10 DEF UnsubscribeReturn, Return, Goto, mapVars, closeVars, loopVars,
      subVars, endVars, histVars
<1>11. ASSUME NEW g \in Callers, CloseBegin(g)
      PROVE  WaiterOwner'
  BY <1>11 DEF CloseBegin, Goto, StartOnce, mapVars, loopVars, subVars,
      endVars, histVars
<1>12. ASSUME NEW g \in Callers, CloseReturn(g)
      PROVE  WaiterOwner'
  BY <1>12 DEF CloseReturn, Return, Goto, mapVars, closeVars, loopVars,
      subVars, endVars, histVars
<1>13. ASSUME CloseConn
      PROVE  WaiterOwner'
  BY <1>13 DEF CloseConn, mapVars, callVars, loopVars, subVars, endVars,
      histVars
<1>14. ASSUME CloseLock
      PROVE  WaiterOwner'
  BY <1>14 DEF CloseLock, Registered, callVars, loopVars, subVars, endVars
<1>15. ASSUME CloseDone
      PROVE  WaiterOwner'
  BY <1>15 DEF CloseDone, mapVars, callVars, loopVars, subVars, endVars,
      histVars
<1>16. ASSUME NEW r \in Req, ClosePending(r)
      PROVE  WaiterOwner'
  BY <1>16 DEF ClosePending, Resolve, mapVars, callVars, loopVars, subVars,
      endVars, histVars
<1>17. ASSUME NEW r \in Req, CloseSub(r)
      PROVE  WaiterOwner'
  BY <1>17 DEF CloseSub, Shutdown, Bump, mapVars, callVars, loopVars, subVars,
      histVars
<1>18. ASSUME NEW r \in Req, ReplyRejected(r)
      PROVE  WaiterOwner'
  BY <1>18 DEF ReplyRejected, TakePending, closeVars, callVars, subVars,
      endVars, histVars
<1>19. ASSUME NEW r \in Req, NEW i \in SubIDs, ReplyAccepted(r, i)
      PROVE  WaiterOwner'
  BY <1>19 DEF ReplyAccepted, TakePending, closeVars, callVars, loopVars,
      subVars, endVars, histVars
<1>20. ASSUME NEW i \in SubIDs, Notified(i)
      PROVE  WaiterOwner'
  BY <1>20 DEF Notified, mapVars, closeVars, callVars, subVars, endVars,
      histVars
<1>21. ASSUME RejectPending
      PROVE  WaiterOwner'
  BY <1>21 DEF RejectPending, Resolve, NextFrame, mapVars, closeVars,
      callVars, subVars, endVars, histVars
<1>22. ASSUME RegisterSubscription
      PROVE  WaiterOwner'
  BY <1>22 DEF RegisterSubscription, StoreId, RegisterOutcome, closeVars,
      callVars, endVars, histVars
<1>23. ASSUME SignalPending
      PROVE  WaiterOwner'
  BY <1>23 DEF SignalPending, Resolve, NextFrame, mapVars, closeVars,
      callVars, subVars, endVars, histVars
<1>24. ASSUME Dispatch
      PROVE  WaiterOwner'
  BY <1>24 DEF Dispatch, NextFrame, Bump, mapVars, closeVars, callVars,
      subVars, endVars
<1>25. ASSUME OneShotDrop
      PROVE  WaiterOwner'
  BY <1>25 DEF OneShotDrop, TakeEntry, closeVars, callVars, subVars, endVars
<1>26. ASSUME OneShotShutdown
      PROVE  WaiterOwner'
  BY <1>26 DEF OneShotShutdown, Shutdown, Bump, NextFrame, mapVars, closeVars,
      callVars, subVars, histVars
<1>27. ASSUME ReadError
      PROVE  WaiterOwner'
  BY <1>27 DEF ReadError, mapVars, closeVars, callVars, subVars, endVars,
      histVars
<1>28. ASSUME ReadLoopClose
      PROVE  WaiterOwner'
  BY <1>28 DEF ReadLoopClose, StartOnce, mapVars, callVars, subVars, endVars,
      histVars
<1>29. ASSUME ReadLoopExit
      PROVE  WaiterOwner'
  BY <1>29 DEF ReadLoopExit, mapVars, closeVars, callVars, subVars, endVars,
      histVars
<1>30. ASSUME UNCHANGED vars
      PROVE  WaiterOwner'
  BY <1>30 DEF vars, mapVars, closeVars, callVars, loopVars, subVars, endVars,
      histVars
<1> HIDE DEF IInv, WaiterOwner
<1>31. QED
  BY <1>1, <1>2, <1>3, <1>4, <1>5, <1>6, <1>7, <1>8, <1>9, <1>10, <1>11,
      <1>12, <1>13, <1>14, <1>15, <1>16, <1>17, <1>18, <1>19, <1>20, <1>21,
      <1>22, <1>23, <1>24, <1>25, <1>26, <1>27, <1>28, <1>29, <1>30
  DEF Next, CallerStep, CloseStep, ReadLoopStep

\* From the registration to the shutdown.
LEMMA LifeCycleStep ==
    ASSUME IInv, [Next]_vars
    PROVE  LifeCycle'
<1> USE MaxReqAssumption, NoIdAssumption
    DEF IInv, LifeCycle, TypeOK, ClosePhase, LoopHand, CallerHand,
        PendingOwner, IdOnce, EntryId, EntryOwner, WaiterOwner, Born,
        Displaced, ReplyLabels, NotifyLabels, InSubscribe,
        Req, NoReq
<1>1. ASSUME NEW g \in Callers, NEW one \in BOOLEAN, SubscribeBegin(g, one)
      PROVE  LifeCycle'
  BY <1>1 DEF SubscribeBegin, Goto, closeVars, loopVars, endVars, histVars
<1>2. ASSUME NEW g \in Callers, NEW r \in Req, UnsubscribeBegin(g, r)
      PROVE  LifeCycle'
  <2>1. /\ entry' = [entry EXCEPT ![g] = subscriptions[subId[r]]]
        /\ subId' = subId /\ subId[r] \in SubIDs /\ entry[g] = NoReq
    BY <1>2 DEF UnsubscribeBegin, subVars
  <2>2. ASSUME NEW q \in Req, Born(q)', ~Displaced(q)'
        PROVE  /\ q \notin ended' => subscriptions'[subId'[q]] = q
               /\ \/ subscriptions'[subId'[q]] = q
                  \/ subDone'[q]
                  \/ q \in closeSubs'
                  \/ \E h \in Callers : entry'[h] = q
                  \/ rpc' = "shutdown" /\ rreq' = q
    <3>1. Born(q) /\ ~Displaced(q)
      BY <1>2, <2>2 DEF UnsubscribeBegin, loopVars, subVars
    <3>2. CASE subscriptions[subId[q]] = q
      BY <1>2, <2>1, <2>2, <3>1, <3>2 DEF UnsubscribeBegin, TakeEntry, Goto,
          closeVars, loopVars, subVars, endVars
    <3>3. CASE \E h \in Callers : entry[h] = q
      <4>1. PICK h \in Callers : entry[h] = q
        BY <3>3
      <4>2. entry'[h] = q
        BY <2>1, <4>1
      <4>3. QED
        BY <1>2, <2>1, <2>2, <3>1, <4>2 DEF UnsubscribeBegin, TakeEntry, Goto,
            closeVars, loopVars, subVars, endVars
    <3>4. QED
      BY <1>2, <2>1, <2>2, <3>1, <3>2, <3>3 DEF UnsubscribeBegin, TakeEntry,
          Goto, closeVars, loopVars, subVars, endVars
  <2>3. QED
    BY <2>2
<1>3. ASSUME NEW g \in Callers, SubscribeRefused(g)
      PROVE  LifeCycle'
  BY <1>3 DEF SubscribeRefused, vars, mapVars, closeVars, callVars, loopVars,
      subVars, endVars, histVars
<1>4. ASSUME NEW g \in Callers, SubscribeWrite(g)
      PROVE  LifeCycle'
  BY <1>4 DEF SubscribeWrite, Goto, mapVars, closeVars, loopVars, subVars,
      endVars, histVars
<1>5. ASSUME NEW g \in Callers, SubscribeAbort(g)
      PROVE  LifeCycle'
  BY <1>5 DEF SubscribeAbort, Goto, mapVars, closeVars, loopVars, subVars,
      endVars, histVars
<1>6. ASSUME NEW g \in Callers, CancelPending(g)
      PROVE  LifeCycle'
  <2>1. entry[g] = NoReq
    BY <1>6 DEF CancelPending
  <2>2. entry' = entry
    BY <1>6, <2>1 DEF CancelPending, Return
  <2>3. QED
    BY <1>6, <2>2 DEF CancelPending, TakePending, Return, Goto, closeVars,
        loopVars, subVars, endVars, histVars
<1>7. ASSUME NEW g \in Callers, SubscribeClosed(g)
      PROVE  LifeCycle'
  <2>1. entry[g] = NoReq
    BY <1>7 DEF SubscribeClosed
  <2>2. entry' = entry
    BY <1>7, <2>1 DEF SubscribeClosed, Return
  <2>3. QED
    BY <1>7, <2>2 DEF SubscribeClosed, Return, Goto, mapVars, closeVars,
        loopVars, subVars, endVars, histVars
<1>8. ASSUME NEW g \in Callers, SubscribeReturn(g)
      PROVE  LifeCycle'
  <2>1. entry[g] = NoReq
    BY <1>8 DEF SubscribeReturn
  <2>2. entry' = entry
    BY <1>8, <2>1 DEF SubscribeReturn, Return
  <2>3. QED
    BY <1>8, <2>2 DEF SubscribeReturn, Return, Goto, mapVars, closeVars,
        loopVars, subVars, endVars
<1>9. ASSUME NEW g \in Callers, UnsubscribeShutdown(g)
      PROVE  LifeCycle'
  BY <1>9 DEF UnsubscribeShutdown, Shutdown, Bump, mapVars, closeVars,
      loopVars, subVars, histVars
<1>10. ASSUME NEW g \in Callers, UnsubscribeReturn(g)
      PROVE  LifeCycle'
  BY <1>10 DEF UnsubscribeReturn, Return, Goto, mapVars, closeVars, loopVars,
      subVars, endVars, histVars
<1>11. ASSUME NEW g \in Callers, CloseBegin(g)
      PROVE  LifeCycle'
  BY <1>11 DEF CloseBegin, Goto, StartOnce, mapVars, loopVars, subVars,
      endVars, histVars
<1>12. ASSUME NEW g \in Callers, CloseReturn(g)
      PROVE  LifeCycle'
  BY <1>12 DEF CloseReturn, Return, Goto, mapVars, closeVars, loopVars,
      subVars, endVars, histVars
<1>13. ASSUME CloseConn
      PROVE  LifeCycle'
  BY <1>13 DEF CloseConn, mapVars, callVars, loopVars, subVars, endVars,
      histVars
<1>14. ASSUME CloseLock
      PROVE  LifeCycle'
  BY <1>14 DEF CloseLock, Registered, callVars, loopVars, subVars, endVars
<1>15. ASSUME CloseDone
      PROVE  LifeCycle'
  BY <1>15 DEF CloseDone, mapVars, callVars, loopVars, subVars, endVars,
      histVars
<1>16. ASSUME NEW r \in Req, ClosePending(r)
      PROVE  LifeCycle'
  BY <1>16 DEF ClosePending, Resolve, mapVars, callVars, loopVars, subVars,
      endVars, histVars
<1>17. ASSUME NEW r \in Req, CloseSub(r)
      PROVE  LifeCycle'
  BY <1>17 DEF CloseSub, Shutdown, Bump, mapVars, callVars, loopVars, subVars,
      histVars
<1>18. ASSUME NEW r \in Req, ReplyRejected(r)
      PROVE  LifeCycle'
  BY <1>18 DEF ReplyRejected, TakePending, closeVars, callVars, subVars,
      endVars, histVars
<1>19. ASSUME NEW r \in Req, NEW i \in SubIDs, ReplyAccepted(r, i)
      PROVE  LifeCycle'
  BY <1>19 DEF ReplyAccepted, TakePending, closeVars, callVars, loopVars,
      subVars, endVars, histVars
<1>20. ASSUME NEW i \in SubIDs, Notified(i)
      PROVE  LifeCycle'
  BY <1>20 DEF Notified, mapVars, closeVars, callVars, subVars, endVars,
      histVars
<1>21. ASSUME RejectPending
      PROVE  LifeCycle'
  BY <1>21 DEF RejectPending, Resolve, NextFrame, mapVars, closeVars,
      callVars, subVars, endVars, histVars
<1>22. ASSUME RegisterSubscription
      PROVE  LifeCycle'
  BY <1>22 DEF RegisterSubscription, StoreId, RegisterOutcome, closeVars,
      callVars, endVars, histVars
<1>23. ASSUME SignalPending
      PROVE  LifeCycle'
  BY <1>23 DEF SignalPending, Resolve, NextFrame, mapVars, closeVars,
      callVars, subVars, endVars, histVars
<1>24. ASSUME Dispatch
      PROVE  LifeCycle'
  BY <1>24 DEF Dispatch, NextFrame, Bump, mapVars, closeVars, callVars,
      subVars, endVars
<1>25. ASSUME OneShotDrop
      PROVE  LifeCycle'
  BY <1>25 DEF OneShotDrop, TakeEntry, closeVars, callVars, subVars, endVars
<1>26. ASSUME OneShotShutdown
      PROVE  LifeCycle'
  BY <1>26 DEF OneShotShutdown, Shutdown, Bump, NextFrame, mapVars, closeVars,
      callVars, subVars, histVars
<1>27. ASSUME ReadError
      PROVE  LifeCycle'
  BY <1>27 DEF ReadError, mapVars, closeVars, callVars, subVars, endVars,
      histVars
<1>28. ASSUME ReadLoopClose
      PROVE  LifeCycle'
  BY <1>28 DEF ReadLoopClose, StartOnce, mapVars, callVars, subVars, endVars,
      histVars
<1>29. ASSUME ReadLoopExit
      PROVE  LifeCycle'
  BY <1>29 DEF ReadLoopExit, mapVars, closeVars, callVars, subVars, endVars,
      histVars
<1>30. ASSUME UNCHANGED vars
      PROVE  LifeCycle'
  BY <1>30 DEF vars, mapVars, closeVars, callVars, loopVars, subVars, endVars,
      histVars
<1> HIDE DEF IInv, LifeCycle
<1>31. QED
  BY <1>1, <1>2, <1>3, <1>4, <1>5, <1>6, <1>7, <1>8, <1>9, <1>10, <1>11,
      <1>12, <1>13, <1>14, <1>15, <1>16, <1>17, <1>18, <1>19, <1>20, <1>21,
      <1>22, <1>23, <1>24, <1>25, <1>26, <1>27, <1>28, <1>29, <1>30
  DEF Next, CallerStep, CloseStep, ReadLoopStep

\* The history variables.
LEMMA HistoryStep ==
    ASSUME IInv, [Next]_vars
    PROVE  History'
<1> USE MaxReqAssumption, NoIdAssumption
    DEF IInv, History, TypeOK, LoopHand, CallerHand, PendingOwner, EntryId,
        Unborn, NotBorn, Unowned, EntryOwner, ReplyLabels, NotifyLabels,
        Req, NoReq
<1>1. ASSUME NEW g \in Callers, NEW one \in BOOLEAN, SubscribeBegin(g, one)
      PROVE  History'
  BY <1>1 DEF SubscribeBegin, Goto, closeVars, loopVars, endVars, histVars
<1>2. ASSUME NEW g \in Callers, NEW r \in Req, UnsubscribeBegin(g, r)
      PROVE  History'
  BY <1>2 DEF UnsubscribeBegin, TakeEntry, Goto, closeVars, loopVars, subVars,
      endVars
<1>3. ASSUME NEW g \in Callers, SubscribeRefused(g)
      PROVE  History'
  BY <1>3 DEF SubscribeRefused, vars, mapVars, closeVars, callVars, loopVars,
      subVars, endVars, histVars
<1>4. ASSUME NEW g \in Callers, SubscribeWrite(g)
      PROVE  History'
  BY <1>4 DEF SubscribeWrite, Goto, mapVars, closeVars, loopVars, subVars,
      endVars, histVars
<1>5. ASSUME NEW g \in Callers, SubscribeAbort(g)
      PROVE  History'
  BY <1>5 DEF SubscribeAbort, Goto, mapVars, closeVars, loopVars, subVars,
      endVars, histVars
<1>6. ASSUME NEW g \in Callers, CancelPending(g)
      PROVE  History'
  BY <1>6 DEF CancelPending, TakePending, Return, Goto, closeVars, loopVars,
      subVars, endVars, histVars
<1>7. ASSUME NEW g \in Callers, SubscribeClosed(g)
      PROVE  History'
  BY <1>7 DEF SubscribeClosed, Return, Goto, mapVars, closeVars, loopVars,
      subVars, endVars, histVars
<1>8. ASSUME NEW g \in Callers, SubscribeReturn(g)
      PROVE  History'
  BY <1>8 DEF SubscribeReturn, Return, Goto, mapVars, closeVars, loopVars,
      subVars, endVars
<1>9. ASSUME NEW g \in Callers, UnsubscribeShutdown(g)
      PROVE  History'
  BY <1>9 DEF UnsubscribeShutdown, Shutdown, Bump, mapVars, closeVars,
      loopVars, subVars, histVars
<1>10. ASSUME NEW g \in Callers, UnsubscribeReturn(g)
      PROVE  History'
  BY <1>10 DEF UnsubscribeReturn, Return, Goto, mapVars, closeVars, loopVars,
      subVars, endVars, histVars
<1>11. ASSUME NEW g \in Callers, CloseBegin(g)
      PROVE  History'
  BY <1>11 DEF CloseBegin, Goto, StartOnce, mapVars, loopVars, subVars,
      endVars, histVars
<1>12. ASSUME NEW g \in Callers, CloseReturn(g)
      PROVE  History'
  BY <1>12 DEF CloseReturn, Return, Goto, mapVars, closeVars, loopVars,
      subVars, endVars, histVars
<1>13. ASSUME CloseConn
      PROVE  History'
  BY <1>13 DEF CloseConn, mapVars, callVars, loopVars, subVars, endVars,
      histVars
<1>14. ASSUME CloseLock
      PROVE  History'
  BY <1>14 DEF CloseLock, Registered, callVars, loopVars, subVars, endVars
<1>15. ASSUME CloseDone
      PROVE  History'
  BY <1>15 DEF CloseDone, mapVars, callVars, loopVars, subVars, endVars,
      histVars
<1>16. ASSUME NEW r \in Req, ClosePending(r)
      PROVE  History'
  BY <1>16 DEF ClosePending, Resolve, mapVars, callVars, loopVars, subVars,
      endVars, histVars
<1>17. ASSUME NEW r \in Req, CloseSub(r)
      PROVE  History'
  BY <1>17 DEF CloseSub, Shutdown, Bump, mapVars, callVars, loopVars, subVars,
      histVars
<1>18. ASSUME NEW r \in Req, ReplyRejected(r)
      PROVE  History'
  BY <1>18 DEF ReplyRejected, TakePending, closeVars, callVars, subVars,
      endVars, histVars
<1>19. ASSUME NEW r \in Req, NEW i \in SubIDs, ReplyAccepted(r, i)
      PROVE  History'
  BY <1>19 DEF ReplyAccepted, TakePending, closeVars, callVars, loopVars,
      subVars, endVars, histVars
<1>20. ASSUME NEW i \in SubIDs, Notified(i)
      PROVE  History'
  BY <1>20 DEF Notified, mapVars, closeVars, callVars, subVars, endVars,
      histVars
<1>21. ASSUME RejectPending
      PROVE  History'
  BY <1>21 DEF RejectPending, Resolve, NextFrame, mapVars, closeVars,
      callVars, subVars, endVars, histVars
<1>22. ASSUME RegisterSubscription
      PROVE  History'
  BY <1>22 DEF RegisterSubscription, StoreId, RegisterOutcome, closeVars,
      callVars, endVars, histVars
<1>23. ASSUME SignalPending
      PROVE  History'
  BY <1>23 DEF SignalPending, Resolve, NextFrame, mapVars, closeVars,
      callVars, subVars, endVars, histVars
<1>24. ASSUME Dispatch
      PROVE  History'
  BY <1>24 DEF Dispatch, NextFrame, Bump, mapVars, closeVars, callVars,
      subVars, endVars
<1>25. ASSUME OneShotDrop
      PROVE  History'
  BY <1>25 DEF OneShotDrop, TakeEntry, closeVars, callVars, subVars, endVars
<1>26. ASSUME OneShotShutdown
      PROVE  History'
  BY <1>26 DEF OneShotShutdown, Shutdown, Bump, NextFrame, mapVars, closeVars,
      callVars, subVars, histVars
<1>27. ASSUME ReadError
      PROVE  History'
  BY <1>27 DEF ReadError, mapVars, closeVars, callVars, subVars, endVars,
      histVars
<1>28. ASSUME ReadLoopClose
      PROVE  History'
  BY <1>28 DEF ReadLoopClose, StartOnce, mapVars, callVars, subVars, endVars,
      histVars
<1>29. ASSUME ReadLoopExit
      PROVE  History'
  BY <1>29 DEF ReadLoopExit, mapVars, closeVars, callVars, subVars, endVars,
      histVars
<1>30. ASSUME UNCHANGED vars
      PROVE  History'
  BY <1>30 DEF vars, mapVars, closeVars, callVars, loopVars, subVars, endVars,
      histVars
<1> HIDE DEF IInv, History
<1>31. QED
  BY <1>1, <1>2, <1>3, <1>4, <1>5, <1>6, <1>7, <1>8, <1>9, <1>10, <1>11,
      <1>12, <1>13, <1>14, <1>15, <1>16, <1>17, <1>18, <1>19, <1>20, <1>21,
      <1>22, <1>23, <1>24, <1>25, <1>26, <1>27, <1>28, <1>29, <1>30
  DEF Next, CallerStep, CloseStep, ReadLoopStep

\* DialWebSocket establishes the invariant.
LEMMA InitIInv == Init => IInv
<1> SUFFICES ASSUME Init PROVE IInv
  OBVIOUS
<1> USE MaxReqAssumption, NoIdAssumption DEF Init
<1>1. TypeOK
  <2>1. /\ subscriptions \in [SubIDs -> MaybeReq]
        /\ subId \in [Req -> MaybeId]
        /\ cur \in [Callers -> MaybeReq] /\ entry \in [Callers -> MaybeReq]
        /\ rreq \in MaybeReq /\ rid \in MaybeId
    BY Sets
  <2>2. /\ pc \in [Callers -> CallerLabels] /\ rpc \in LoopLabels
        /\ reply \in [Req -> {"open", "ok", "err"}]
    BY DEF CallerLabels, LoopLabels
  <2>3. /\ nextReqID \in 0 .. MaxReq
        /\ shutdowns \in [Req -> 0 .. 2] /\ dispatched \in [Req -> 0 .. 2]
        /\ late \in [Req -> 0 .. 2]
    OBVIOUS
  <2>4. QED
    BY <2>1, <2>2, <2>3 DEF TypeOK
<1>2. ClosePhase /\ NoPanic
  BY DEF ClosePhase, NoPanic
<1>3. LoopHand /\ CallerHand /\ PendingOwner /\ WaiterOwner
  BY DEF LoopHand, CallerHand, PendingOwner, WaiterOwner, ReplyLabels,
         NotifyLabels, InSubscribe
<1>4. Unborn /\ EntryOwner /\ ShutdownOnce
  BY Sets DEF Unborn, NotBorn, Unowned, EntryOwner, ShutdownOnce, NotifyLabels
<1>5. IdOnce /\ EntryId /\ LifeCycle
  BY DEF IdOnce, EntryId, LifeCycle, Born
<1>6. History
  BY Sets DEF History, NotBorn
<1>7. QED
  BY <1>1, <1>2, <1>3, <1>4, <1>5, <1>6 DEF IInv

\* IInv is an invariant of the client.
THEOREM Invariance == Spec => []IInv
<1>1. IInv /\ [Next]_vars => IInv'
  BY TypeOKStep, ClosePhaseStep, LoopHandStep, CallerHandStep,
     PendingOwnerStep, UnbornStep, EntryOwnerStep, NoPanicStep,
     ShutdownOnceStep, IdOnceStep, EntryIdStep, WaiterOwnerStep,
     LifeCycleStep, HistoryStep
  DEF IInv
<1>2. QED
  BY InitIInv, <1>1, PTL DEF Spec

\* The type invariant, for any number of goroutines, requests and ids.
THEOREM TypeCorrect == Spec => []TypeOK
BY Invariance, PTL DEF IInv

\* No interleaving closes a channel twice or writes to a nil map.
THEOREM PanicFree == Spec => []NoPanic
BY Invariance, PTL DEF IInv

\* The shutdown callback of an ordinary subscription runs at most once, however
\* many Unsubscribe calls race with each other and with Close.
THEOREM ShutdownAtMostOnce == Spec => []ShutdownOnce
BY Invariance, PTL DEF IInv

\* A returned handle is registered, ended, or owed a shutdown by somebody.
THEOREM HandlesAccounted == Spec => []HandleAccounted
<1>1. IInv => HandleAccounted
  BY DEF IInv, TypeOK, CallerHand, LifeCycle, Born, HandleAccounted
<1>2. QED
  BY Invariance, <1>1, PTL

\* A Subscribe that waits for its reply can still be answered.
THEOREM WaitersAccounted == Spec => []WaiterAccounted
<1>1. IInv => WaiterAccounted
  BY DEF IInv, WaiterOwner, WaiterAccounted, ReplyLabels
<1>2. QED
  BY Invariance, <1>1, PTL

\* A Subscribe succeeds only after its entry is in the map.
THEOREM RegistrationPrecedesReturn == Spec => []RegisteredBeforeReturn
<1>1. IInv => RegisteredBeforeReturn
  BY DEF IInv, LifeCycle, Born, RegisteredBeforeReturn
<1>2. QED
  BY Invariance, <1>1, PTL

\* A one-shot subscription dispatches at most one notification.
THEOREM OneShotOnce == Spec => []OneShotDeliveredOnce
<1>1. IInv => OneShotDeliveredOnce
  BY DEF IInv, TypeOK, History, OneShotDeliveredOnce
<1>2. QED
  BY Invariance, <1>1, PTL

\* At most one notification is dispatched after its entry was taken out.
THEOREM LateDispatchAtMostOnce == Spec => []LateDispatchBounded
<1>1. IInv => LateDispatchBounded
  BY DEF IInv, TypeOK, History, LateDispatchBounded
<1>2. QED
  BY Invariance, <1>1, PTL

\* The one-shot cleanup never deletes the entry of another subscription.
THEOREM OneShotCleanup == Spec => []OneShotDropsOwnEntry
<1>1. IInv => OneShotDropsOwnEntry
  BY DEF IInv, EntryId, OneShotDropsOwnEntry
<1>2. QED
  BY Invariance, <1>1, PTL
===============================================================================
