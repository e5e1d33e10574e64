------------------------------- MODULE WsClient -------------------------------
(***************************************************************************)
(* The WebSocket client of package ws (ws/client.go): one connection shared *)
(* by every subscription, one read-loop goroutine that routes the incoming  *)
(* frames, and any number of caller goroutines that run Subscribe,          *)
(* Unsubscribe and Close concurrently with it.                              *)
(*                                                                          *)
(* One step of the model is one critical section of c.mu, one operation on  *)
(* a channel or on the connection, or one call of a user callback: exactly  *)
(* the places where another goroutine can run in between.                   *)
(*                                                                          *)
(* A subscribe request, its pendingReply and its Subscription are created   *)
(* together and are all identified here by the request id.  The server and  *)
(* the network are external: the server answers each request it received at *)
(* most once, notifies an id only after the reply that assigns it, and may  *)
(* assign an id that is in use already: the client does not look.           *)
(***************************************************************************)
EXTENDS Integers

CONSTANTS
    Callers,    \* goroutines that use the client
    SubIDs,     \* subscription ids the server may assign
    MaxReq,     \* bound: how many request ids are ever drawn
    NoId        \* sub.id before a reply sets it

ASSUME MaxReqAssumption == MaxReq \in Nat
ASSUME NoIdAssumption == NoId \notin SubIDs

Req    == 1 .. MaxReq
NoReq  == 0
MaybeReq == Req \cup {NoReq}
MaybeId  == SubIDs \cup {NoId}

VARIABLES
    \* the fields of Client under mu
    nextReqID, closedFlag, mapsNil, pendingReqs, subscriptions,
    \* the other fields of Client
    connOpen, clientDone, errStored,
    \* Close: progress of the once.Do body, who started it, its two snapshots
    once, closer, closePending, closeSubs,
    \* per request: pendingReply.done with errMsg, and the Subscription
    reply, oneShot, subId, subDone,
    \* caller goroutines: control state, request in hand, entry in hand
    pc, cur, entry,
    \* read-loop goroutine: control state, request and subscription id in hand
    rpc, rreq, rid,
    \* external: requests the server received and has yet to answer
    wire,
    \* history: handles returned to callers, entries taken out of the map,
    \* callback counts (saturating), Go panics
    handles, ended, shutdowns, dispatched, late, panicked

mapVars   == <<nextReqID, closedFlag, mapsNil, pendingReqs, subscriptions>>
closeVars == <<once, closer, closePending, closeSubs>>
callVars  == <<pc, cur, entry>>
loopVars  == <<rpc, rreq, rid>>
subVars   == <<oneShot, subId>>
endVars   == <<subDone, shutdowns>>
histVars  == <<handles, ended, dispatched, late>>

vars == <<mapVars, connOpen, clientDone, errStored, closeVars, reply, subVars,
          endVars, callVars, loopVars, wire, histVars, panicked>>

Bump(n) == IF n < 2 THEN n + 1 ELSE 2

(***************************************************************************)
(* DialWebSocket: empty maps, an open connection, the read loop started.    *)
(***************************************************************************)
Init ==
    /\ nextReqID = 0 /\ closedFlag = FALSE /\ mapsNil = FALSE
    /\ pendingReqs = {}
    /\ subscriptions = [i \in SubIDs |-> NoReq]
    /\ connOpen = TRUE /\ clientDone = FALSE /\ errStored = FALSE
    /\ once = "free" /\ closer = "none"
    /\ closePending = {} /\ closeSubs = {}
    /\ reply = [r \in Req |-> "open"]
    /\ oneShot = [r \in Req |-> FALSE]
    /\ subId = [r \in Req |-> NoId]
    /\ subDone = [r \in Req |-> FALSE]
    /\ pc = [g \in Callers |-> "idle"]
    /\ cur = [g \in Callers |-> NoReq]
    /\ entry = [g \in Callers |-> NoReq]
    /\ rpc = "read" /\ rreq = NoReq /\ rid = NoId
    /\ wire = {}
    /\ handles = {} /\ ended = {}
    /\ shutdowns = [r \in Req |-> 0]
    /\ dispatched = [r \in Req |-> 0]
    /\ late = [r \in Req |-> 0]
    /\ panicked = FALSE

(***************************************************************************)
(* What several handlers share.                                            *)
(***************************************************************************)

\* Entries of the subscriptions map, by the request that created them.
Registered == {subscriptions[i] : i \in SubIDs} \ {NoReq}

\* delete(c.pendingReqs, r).
PeekPending(r) == UNCHANGED pendingReqs         \* mutant: look, do not delete
TakePending(r) == pendingReqs' = pendingReqs \ {r}

\* delete(c.subscriptions, i): whoever deletes an entry has to shut it down.
LeaveEntry(i) ==                                \* mutant: the entry stays
    /\ ended' = ended \cup ({subscriptions[i]} \ {NoReq})
    /\ UNCHANGED subscriptions
TakeEntry(i) ==
    /\ ended' = ended \cup ({subscriptions[i]} \ {NoReq})
    /\ subscriptions' = [subscriptions EXCEPT ![i] = NoReq]

\* pending.errMsg = ...; close(pending.done): closing twice panics.
ResolveForgetsErr(r, how) ==                    \* mutant: error path, no close
    /\ reply' = IF how = "err" THEN reply ELSE [reply EXCEPT ![r] = how]
    /\ panicked' = (panicked \/ reply[r] # "open")
Resolve(r, how) ==
    /\ reply' = [reply EXCEPT ![r] = how]
    /\ panicked' = (panicked \/ reply[r] # "open")

\* shutdownFn: sub.once closes subDone, then the user's shutdown runs.
ShutdownKeepsDone(r) ==                         \* mutant: subDone stays open
    /\ shutdowns' = [shutdowns EXCEPT ![r] = Bump(@)]
    /\ UNCHANGED subDone
Shutdown(r) ==
    /\ subDone' = [subDone EXCEPT ![r] = TRUE]
    /\ shutdowns' = [shutdowns EXCEPT ![r] = Bump(@)]

\* The read loop goes back to ReadMessage.
NextFrame == rpc' = "read" /\ rreq' = NoReq /\ rid' = NoId

Goto(g, label) == pc' = [pc EXCEPT ![g] = label]

Return(g) ==
    /\ Goto(g, "idle")
    /\ cur' = [cur EXCEPT ![g] = NoReq]
    /\ entry' = [entry EXCEPT ![g] = NoReq]

(***************************************************************************)
(* Subscribe, run by caller g.                                             *)
(***************************************************************************)

\* First critical section: refuse on a closed client ...
SubscribeRefused(g) ==
    /\ pc[g] = "idle" /\ closedFlag
    /\ UNCHANGED vars

\* ... otherwise draw a request id and store the pendingReply (a write to a
\* nil map panics).
SubscribeBegin(g, one) ==
    /\ pc[g] = "idle" /\ ~closedFlag /\ nextReqID < MaxReq
    /\ LET r == nextReqID + 1 IN
        /\ nextReqID' = r
        /\ pendingReqs' = pendingReqs \cup {r}
        /\ oneShot' = [oneShot EXCEPT ![r] = one]
        /\ cur' = [cur EXCEPT ![g] = r]
    /\ panicked' = (panicked \/ mapsNil)
    /\ Goto(g, "write")
    /\ UNCHANGED <<closedFlag, mapsNil, subscriptions, connOpen, clientDone,
                   errStored, closeVars, reply, subId, endVars, entry,
                   loopVars, wire, histVars>>

\* WriteMessage succeeds: the request is on its way to the server.
SubscribeWrite(g) ==
    /\ pc[g] = "write" /\ connOpen
    /\ wire' = wire \cup {cur[g]}
    /\ Goto(g, "wait")
    /\ UNCHANGED <<mapVars, connOpen, clientDone, errStored, closeVars, reply,
                   subVars, endVars, cur, entry, loopVars, histVars,
                   panicked>>

\* Marshal or WriteMessage fails (a write on a closed connection always does),
\* or the select picks ctx.Done(): cancelPending comes next.
SubscribeAbort(g) ==
    /\ pc[g] \in {"write", "wait"}
    /\ Goto(g, "cancel")
    /\ UNCHANGED <<mapVars, connOpen, clientDone, errStored, closeVars, reply,
                   subVars, endVars, cur, entry, loopVars, wire, histVars,
                   panicked>>

CancelPending(g) ==
    /\ pc[g] = "cancel"
    /\ TakePending(cur[g])
    /\ Return(g)
    /\ UNCHANGED <<nextReqID, closedFlag, mapsNil, subscriptions, connOpen,
                   clientDone, errStored, closeVars, reply, subVars, endVars,
                   loopVars, wire, histVars, panicked>>

\* The select picks c.done: error, and no cancelPending.
SubscribeClosed(g) ==
    /\ pc[g] = "wait" /\ clientDone
    /\ Return(g)
    /\ UNCHANGED <<mapVars, connOpen, clientDone, errStored, closeVars, reply,
                   subVars, endVars, loopVars, wire, histVars, panicked>>

\* The select picks pending.done: the handle is returned unless errMsg is set.
SubscribeReturnRegisters(g) ==          \* mutant: the caller registers the entry
    /\ pc[g] = "wait" /\ reply[cur[g]] = "ok" /\ ~mapsNil
    /\ handles' = handles \cup {cur[g]}
    /\ subscriptions' = [subscriptions EXCEPT ![subId[cur[g]]] = cur[g]]
    /\ Return(g)
    /\ UNCHANGED <<nextReqID, closedFlag, mapsNil, pendingReqs, connOpen,
                   clientDone, errStored, closeVars, reply, subVars, endVars,
                   loopVars, wire, ended, dispatched, late,
                   panicked>>
SubscribeReturn(g) ==
    /\ pc[g] = "wait" /\ reply[cur[g]] # "open"
    /\ handles' = IF reply[cur[g]] = "ok" THEN handles \cup {cur[g]} ELSE handles
    /\ Return(g)
    /\ UNCHANGED <<mapVars, connOpen, clientDone, errStored, closeVars, reply,
                   subVars, endVars, loopVars, wire, ended, dispatched,
                   late, panicked>>

(***************************************************************************)
(* Unsubscribe of handle r, run by caller g.                               *)
(***************************************************************************)

\* One critical section: take whatever entry sits under s.id, read closedFlag,
\* draw a request id.
UnsubscribeBegin(g, r) ==
    /\ pc[g] = "idle" /\ r \in handles /\ nextReqID < MaxReq
    /\ nextReqID' = nextReqID + 1
    /\ TakeEntry(subId[r])
    /\ entry' = [entry EXCEPT ![g] = subscriptions[subId[r]]]
    /\ Goto(g, IF closedFlag THEN "unsubclosed" ELSE "unsub")
    /\ UNCHANGED <<closedFlag, mapsNil, pendingReqs, connOpen, clientDone,
                   errStored, closeVars, reply, subVars, endVars, cur, loopVars,
                   wire, handles, dispatched, late, panicked>>

\* entry.shutdown(), outside the lock.
UnsubscribeShutdown(g) ==
    /\ pc[g] \in {"unsub", "unsubclosed"} /\ entry[g] # NoReq
    /\ Shutdown(entry[g])
    /\ entry' = [entry EXCEPT ![g] = NoReq]
    /\ UNCHANGED <<mapVars, connOpen, clientDone, errStored, closeVars, reply,
                   subVars, pc, cur, loopVars, wire, histVars, panicked>>

\* Return: after the fire-and-forget unsubscribe request was written or failed,
\* or without one when the client was closed.
UnsubscribeReturn(g) ==
    /\ pc[g] \in {"unsub", "unsubclosed"} /\ entry[g] = NoReq
    /\ Return(g)
    /\ UNCHANGED <<mapVars, connOpen, clientDone, errStored, closeVars, reply,
                   subVars, endVars, loopVars, wire, histVars, panicked>>

(***************************************************************************)
(* Close.  The body of once.Do runs once, started by a caller or by the    *)
(* read loop's deferred call; every other Close waits for it to finish.    *)
(***************************************************************************)

StartOnceCallerOnly(who) ==             \* mutant: the read loop does not close
    IF once = "free" /\ who = "caller" THEN once' = "conn" /\ closer' = who
                                       ELSE UNCHANGED <<once, closer>>
StartOnce(who) ==
    IF once = "free" THEN once' = "conn" /\ closer' = who
                     ELSE UNCHANGED <<once, closer>>

CloseBegin(g) ==
    /\ pc[g] = "idle"
    /\ StartOnce("caller")
    /\ Goto(g, "closing")
    /\ UNCHANGED <<mapVars, connOpen, clientDone, errStored, closePending,
                   closeSubs, reply, subVars, endVars, cur, entry, loopVars,
                   wire, histVars, panicked>>

CloseReturn(g) ==
    /\ pc[g] = "closing" /\ once = "done"
    /\ Return(g)
    /\ UNCHANGED <<mapVars, connOpen, clientDone, errStored, closeVars, reply,
                   subVars, endVars, loopVars, wire, histVars, panicked>>

\* WriteControl (bounded by a deadline, result ignored) and conn.Close.
CloseConnEarlyReturn ==                 \* mutant: Close gives up after conn.Close
    /\ once = "conn"
    /\ once' = "done"
    /\ connOpen' = FALSE /\ wire' = {}
    /\ UNCHANGED <<mapVars, clientDone, errStored, closer, closePending,
                   closeSubs, reply, subVars, endVars, callVars, loopVars,
                   histVars, panicked>>
CloseConn ==
    /\ once = "conn"
    /\ once' = "lock"
    /\ connOpen' = FALSE /\ wire' = {}
    /\ UNCHANGED <<mapVars, clientDone, errStored, closer, closePending,
                   closeSubs, reply, subVars, endVars, callVars, loopVars,
                   histVars, panicked>>

\* The critical section: set closedFlag, take both maps and nil them.
CloseLock ==
    /\ once = "lock"
    /\ once' = "release"
    /\ closedFlag' = TRUE
    /\ mapsNil' = TRUE
    /\ closePending' = pendingReqs
    /\ pendingReqs' = {}
    /\ closeSubs' = Registered
    /\ subscriptions' = [i \in SubIDs |-> NoReq]
    /\ ended' = ended \cup Registered
    /\ UNCHANGED <<nextReqID, connOpen, clientDone, errStored, closer, reply,
                   subVars, endVars, callVars, loopVars, wire, handles,
                   dispatched, late, panicked>>

\* One round of the first loop: "connection closed" for an in-flight Subscribe.
ClosePending(r) ==
    /\ once = "release" /\ r \in closePending
    /\ Resolve(r, "err")
    /\ closePending' = closePending \ {r}
    /\ UNCHANGED <<mapVars, connOpen, clientDone, errStored, once, closer,
                   closeSubs, subVars, endVars, callVars, loopVars, wire,
                   histVars>>

\* One round of the second loop: shut an active subscription down.
CloseSub(r) ==
    /\ once = "release" /\ closePending = {} /\ r \in closeSubs
    /\ Shutdown(r)
    /\ closeSubs' = closeSubs \ {r}
    /\ UNCHANGED <<mapVars, connOpen, clientDone, errStored, once, closer,
                   closePending, reply, subVars, callVars, loopVars, wire,
                   histVars, panicked>>

\* close(c.done), and once.Do returns.
CloseDone ==
    /\ once = "release" /\ closePending = {} /\ closeSubs = {}
    /\ once' = "done"
    /\ panicked' = (panicked \/ clientDone)
    /\ clientDone' = TRUE
    /\ UNCHANGED <<mapVars, connOpen, errStored, closer, closePending,
                   closeSubs, reply, subVars, endVars, callVars, loopVars,
                   wire, histVars>>

(***************************************************************************)
(* The read loop.  ReadMessage hands it one frame at a time; a frame the   *)
(* code ignores (undecodable, no id and no method, the ack of an           *)
(* unsubscribe, a notification without an entry) changes nothing.          *)
(***************************************************************************)

\* handleReply, first critical section: the pendingReply leaves pendingReqs.
\* The server accepts the request and assigns an id ...
ReplyAccepted(r, i) ==
    /\ rpc = "read" /\ connOpen
    /\ r \in wire
    /\ wire' = wire \ {r}
    /\ TakePending(r)
    /\ IF r \in pendingReqs
         THEN rpc' = "register" /\ rreq' = r /\ rid' = i
         ELSE UNCHANGED loopVars
    /\ UNCHANGED <<nextReqID, closedFlag, mapsNil, subscriptions, connOpen,
                   clientDone, errStored, closeVars, reply, subVars, endVars,
                   callVars, histVars, panicked>>

\* ... or answers with an error, or with a result that is not an id.
ReplyRejected(r) ==
    /\ rpc = "read" /\ connOpen /\ r \in wire
    /\ wire' = wire \ {r}
    /\ TakePending(r)
    /\ IF r \in pendingReqs
         THEN rpc' = "reject" /\ rreq' = r
         ELSE UNCHANGED <<rpc, rreq>>
    /\ UNCHANGED <<nextReqID, closedFlag, mapsNil, subscriptions, connOpen,
                   clientDone, errStored, closeVars, reply, subVars, endVars,
                   callVars, rid, histVars, panicked>>

\* errMsg is set and pending.done closed, outside the lock.
RejectPending ==
    /\ rpc = "reject"
    /\ Resolve(rreq, "err")
    /\ NextFrame
    /\ UNCHANGED <<mapVars, connOpen, clientDone, errStored, closeVars,
                   subVars, endVars, callVars, wire, histVars>>

\* sub.id = subID.
StoreRequestId == subId' = [subId EXCEPT ![rreq] = rreq]    \* mutant: wrong id
StoreId == subId' = [subId EXCEPT ![rreq] = rid]

\* The outcome of the second critical section: an error when Close ran since
\* the first one and the map is nil, success otherwise.
AlwaysSignal == "signal"                                    \* mutant: no nil check
RegisterOutcome == IF mapsNil THEN "reject" ELSE "signal"

\* Second critical section: register the entry, unless Close ran in between.
RegisterSubscription ==
    /\ rpc = "register"
    /\ StoreId
    /\ rpc' = RegisterOutcome
    /\ subscriptions' = IF mapsNil THEN subscriptions
                        ELSE [subscriptions EXCEPT ![rid] = rreq]
    /\ UNCHANGED <<nextReqID, closedFlag, mapsNil, pendingReqs, connOpen,
                   clientDone, errStored, closeVars, reply, oneShot, endVars,
                   callVars, rreq, rid, wire, histVars, panicked>>

\* close(pending.done) after the registration.
SignalPending ==
    /\ rpc = "signal"
    /\ Resolve(rreq, "ok")
    /\ NextFrame
    /\ UNCHANGED <<mapVars, connOpen, clientDone, errStored, closeVars,
                   subVars, endVars, callVars, wire, histVars>>

\* A notification finds its entry under the read lock ...
Notified(i) ==
    /\ rpc = "read" /\ connOpen
    /\ subscriptions[i] # NoReq
    /\ rpc' = "dispatch" /\ rreq' = subscriptions[i] /\ rid' = i
    /\ UNCHANGED <<mapVars, connOpen, clientDone, errStored, closeVars, reply,
                   subVars, endVars, callVars, wire, histVars, panicked>>

\* ... and is dispatched after the lock is released.
Dispatch ==
    /\ rpc = "dispatch"
    /\ dispatched' = IF oneShot[rreq] THEN [dispatched EXCEPT ![rreq] = Bump(@)]
                     ELSE dispatched
    /\ late' = IF rreq \in ended THEN [late EXCEPT ![rreq] = Bump(@)] ELSE late
    /\ IF oneShot[rreq]
         THEN rpc' = "drop" /\ UNCHANGED <<rreq, rid>>
         ELSE NextFrame
    /\ UNCHANGED <<mapVars, connOpen, clientDone, errStored, closeVars, reply,
                   subVars, endVars, callVars, wire, handles, ended, panicked>>

\* A one-shot entry is deleted by its id after its single notification ...
OneShotDrop ==
    /\ rpc = "drop"
    /\ TakeEntry(rid)
    /\ rpc' = "shutdown"
    /\ UNCHANGED <<nextReqID, closedFlag, mapsNil, pendingReqs, connOpen,
                   clientDone, errStored, closeVars, reply, subVars, endVars,
                   callVars, rreq, rid, wire, handles, dispatched, late, panicked>>

\* ... and shut down outside the lock.
OneShotShutdown ==
    /\ rpc = "shutdown"
    /\ Shutdown(rreq)
    /\ NextFrame
    /\ UNCHANGED <<mapVars, connOpen, clientDone, errStored, closeVars, reply,
                   subVars, callVars, wire, histVars, panicked>>

\* ReadMessage fails: the peer or the network, or our own conn.Close.
ReadError ==
    /\ rpc = "read"
    /\ errStored' = TRUE
    /\ rpc' = "exit"
    /\ UNCHANGED <<mapVars, connOpen, clientDone, closeVars, reply, subVars,
                   endVars, callVars, rreq, rid, wire, histVars, panicked>>

\* The deferred Close of the read loop.
ReadLoopClose ==
    /\ rpc = "exit"
    /\ StartOnce("readLoop")
    /\ rpc' = "closing"
    /\ UNCHANGED <<mapVars, connOpen, clientDone, errStored, closePending,
                   closeSubs, reply, subVars, endVars, callVars, rreq, rid,
                   wire, histVars, panicked>>

ReadLoopExit ==
    /\ rpc = "closing" /\ once = "done"
    /\ rpc' = "done"
    /\ UNCHANGED <<mapVars, connOpen, clientDone, errStored, closeVars, reply,
                   subVars, endVars, callVars, rreq, rid, wire, histVars,
                   panicked>>

-------------------------------------------------------------------------------
CallerStep(g) ==
    \/ SubscribeRefused(g)
    \/ \E one \in BOOLEAN : SubscribeBegin(g, one)
    \/ SubscribeWrite(g) \/ SubscribeAbort(g) \/ CancelPending(g)
    \/ SubscribeClosed(g) \/ SubscribeReturn(g)
    \/ \E r \in Req : UnsubscribeBegin(g, r)
    \/ UnsubscribeShutdown(g) \/ UnsubscribeReturn(g)
    \/ CloseBegin(g) \/ CloseReturn(g)

CloseStep ==
    \/ CloseConn \/ CloseLock \/ CloseDone
    \/ \E r \in Req : ClosePending(r) \/ CloseSub(r)

ReadLoopStep ==
    \/ \E r \in Req, i \in SubIDs : ReplyAccepted(r, i)
    \/ \E r \in Req : ReplyRejected(r)
    \/ RejectPending \/ RegisterSubscription \/ SignalPending
    \/ \E i \in SubIDs : Notified(i)
    \/ Dispatch \/ OneShotDrop \/ OneShotShutdown
    \/ ReadError \/ ReadLoopClose \/ ReadLoopExit

Next == (\E g \in Callers : CallerStep(g)) \/ CloseStep \/ ReadLoopStep

Spec == Init /\ [][Next]_vars

(***************************************************************************)
(* Fairness: what the Go runtime and the code guarantee.  A runnable       *)
(* goroutine is eventually scheduled, critical sections are short, no user *)
(* callback blocks, a select with a ready case proceeds, and an operation  *)
(* on a closed connection fails.  Nothing is assumed of the server, of a   *)
(* write on an open connection, of contexts, or that anyone calls Close.   *)
(***************************************************************************)
Fairness ==
    /\ WF_vars(CloseStep)
    /\ WF_vars(RejectPending \/ RegisterSubscription \/ SignalPending)
    /\ WF_vars(Dispatch \/ OneShotDrop \/ OneShotShutdown)
    /\ WF_vars(~connOpen /\ ReadError)
    /\ WF_vars(ReadLoopClose \/ ReadLoopExit)
    /\ \A g \in Callers :
        /\ WF_vars(SubscribeClosed(g) \/ SubscribeReturn(g))
        /\ WF_vars(~connOpen /\ pc[g] = "write" /\ SubscribeAbort(g))
        /\ WF_vars(CancelPending(g))
        /\ WF_vars(UnsubscribeShutdown(g))
        /\ WF_vars(~connOpen /\ UnsubscribeReturn(g))
        /\ WF_vars(CloseReturn(g))

FairSpec == Spec /\ Fairness

-------------------------------------------------------------------------------
(***************************************************************************)
(* Properties.                                                             *)
(***************************************************************************)

CallerLabels == {"idle", "write", "wait", "cancel", "unsub", "unsubclosed",
                 "closing"}
LoopLabels == {"read", "register", "reject", "signal", "dispatch", "drop",
               "shutdown", "exit", "closing", "done"}

\* Every variable has the type its Go counterpart gives it.
TypeOK ==
    /\ nextReqID \in 0 .. MaxReq
    /\ closedFlag \in BOOLEAN /\ mapsNil \in BOOLEAN
    /\ pendingReqs \subseteq Req
    /\ subscriptions \in [SubIDs -> MaybeReq]
    /\ connOpen \in BOOLEAN /\ clientDone \in BOOLEAN /\ errStored \in BOOLEAN
    /\ once \in {"free", "conn", "lock", "release", "done"}
    /\ closer \in {"none", "caller", "readLoop"}
    /\ closePending \subseteq Req /\ closeSubs \subseteq Req
    /\ reply \in [Req -> {"open", "ok", "err"}]
    /\ oneShot \in [Req -> BOOLEAN]
    /\ subId \in [Req -> MaybeId]
    /\ subDone \in [Req -> BOOLEAN]
    /\ pc \in [Callers -> CallerLabels]
    /\ cur \in [Callers -> MaybeReq]
    /\ entry \in [Callers -> MaybeReq]
    /\ rpc \in LoopLabels /\ rreq \in MaybeReq /\ rid \in MaybeId
    /\ wire \subseteq Req
    /\ handles \subseteq Req /\ ended \subseteq Req
    /\ shutdowns \in [Req -> 0 .. 2] /\ dispatched \in [Req -> 0 .. 2]
    /\ late \in [Req -> 0 .. 2]
    /\ panicked \in BOOLEAN

\* No interleaving of Subscribe, Unsubscribe, Close and the read loop makes Go
\* panic: pending.done and c.done are closed at most once although three places
\* close pending.done, and nothing is stored in a map that Close has set to nil.
NoPanic == ~panicked

\* "shutdown is invoked once when the subscription ends (via Unsubscribe or
\* client Close)": Unsubscribe, the Unsubscribe of another handle and Close race
\* for an entry, but only the one that takes it out of the map shuts it down.
ShutdownOnce == \A r \in Req : ~oneShot[r] => shutdowns[r] <= 1

\* The server gave r's id to another request as well.
Displaced(r) == \E q \in Req \ {r} : subId[q] = subId[r]

\* A handle never falls between the goroutines: until its Done channel is
\* closed it is in the map, or somebody who took it out is about to close it.
HandleAccounted ==
    \A r \in handles : ~Displaced(r) =>
        \/ subscriptions[subId[r]] = r
        \/ subDone[r]
        \/ r \in closeSubs
        \/ \E g \in Callers : entry[g] = r
        \/ rpc = "shutdown" /\ rreq = r

\* A Subscribe that waits for its reply can still get one: its pendingReply is
\* in the map, in the hands of the read loop or of Close, or already resolved.
WaiterAccounted ==
    \A g \in Callers : pc[g] = "wait" =>
        \/ cur[g] \in pendingReqs
        \/ cur[g] \in closePending
        \/ rpc \in {"register", "reject", "signal"} /\ rreq = cur[g]
        \/ reply[cur[g]] # "open"

\* handleReply "REGISTERS the subscription in subscriptions map before closing
\* pending.done": once a Subscribe may succeed, every notification of its id
\* finds its entry until Unsubscribe, Close or the one-shot drop takes it out.
RegisteredBeforeReturn ==
    \A r \in Req : (reply[r] = "ok" /\ r \notin ended /\ ~Displaced(r)) =>
                       subscriptions[subId[r]] = r

\* A one-shot subscription delivers "exactly one notification", even when the
\* server sends more and Unsubscribe or Close runs meanwhile.
OneShotDeliveredOnce == \A r \in Req : oneShot[r] => dispatched[r] <= 1

\* The read loop dispatches outside the lock, so a callback can still run after
\* Unsubscribe or Close took the entry: but only one, the one already in flight.
LateDispatchBounded == \A r \in Req : late[r] <= 1

\* The one-shot cleanup deletes by id, after the lock was released and taken
\* again: what it deletes is the entry that it dispatched to, or nothing.
OneShotDropsOwnEntry ==
    rpc = "drop" => subscriptions[rid] \in {rreq, NoReq}

\* Once Close has begun, by a caller or after a read error, the client reaches
\* its terminated state: close(c.done) is executed.
CloseCompletes == (once # "free" \/ errStored) ~> clientDone

\* "Unblock any in-flight subscribe calls": after Close no Subscribe stays
\* blocked, in its write, in its select or anywhere else, whichever of the read
\* loop and Close holds its pendingReply.
SubscribersReleased ==
    \A g \in Callers :
        (once # "free" /\ pc[g] \in {"write", "wait", "cancel"}) ~> pc[g] = "idle"

\* Done "is closed when the subscription ends, either because Unsubscribe was
\* called or because the underlying client was closed": every handle that a
\* caller holds when the client is closed sees its Done channel close, provided
\* the server gave its id to no other subscription.
HandlesEnd ==
    \A r \in Req : (clientDone /\ r \in handles /\ ~Displaced(r)) ~> subDone[r]

\* The same without the exception for an id that the server assigned twice.
EveryHandleEnds ==
    \A r \in Req : (clientDone /\ r \in handles) ~> subDone[r]
===============================================================================
