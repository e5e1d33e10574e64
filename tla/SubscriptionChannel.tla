-------------------------- MODULE SubscriptionChannel --------------------------
(***************************************************************************)
(* The channel of a typed subscription (AccountSubscribe, LogsSubscribe,    *)
(* ...): the dispatch callback runs on the read loop, decodes a payload and  *)
(* hands it to sendOrDropOldest (ws/util.go), while the user's goroutines    *)
(* receive from Recv().  The three select statements of sendOrDropOldest are *)
(* three steps: the consumer may run in between.  The read loop is the only  *)
(* producer (one goroutine calls dispatch, see WsClient).                    *)
(***************************************************************************)
EXTENDS Naturals, Sequences

CONSTANTS
    Cap,       \* capacity of the Go channel: 64, 16 or 4 in the code
    MaxMsgs    \* bound: notifications that arrive

ASSUME CapAssumption == Cap \in Nat \ {0}
ASSUME MaxMsgsAssumption == MaxMsgs \in Nat

VARIABLES
    next,      \* notifications that arrived: the number of the current one
    ch,        \* the buffered Go channel
    step,      \* where sendOrDropOldest is: "idle", "full", "retry"
    received,  \* history: what the consumer received, in order
    dropped,   \* history: received by nobody: taken out again or undecodable
    gaveUp     \* history: values the last select discarded

vars == <<next, ch, step, received, dropped, gaveUp>>

Init ==
    /\ next = 0 /\ ch = <<>> /\ step = "idle"
    /\ received = <<>> /\ dropped = {} /\ gaveUp = {}

\* The payload does not decode: dispatch returns.
Undecodable ==
    /\ step = "idle" /\ next < MaxMsgs
    /\ next' = next + 1
    /\ dropped' = dropped \cup {next + 1}
    /\ UNCHANGED <<ch, step, received, gaveUp>>

\* First select: send if there is room.
Send ==
    /\ step = "idle" /\ next < MaxMsgs
    /\ next' = next + 1
    /\ IF Len(ch) < Cap
         THEN ch' = Append(ch, next + 1) /\ UNCHANGED step
         ELSE step' = "full" /\ UNCHANGED ch
    /\ UNCHANGED <<received, dropped, gaveUp>>

\* Second select: take the oldest element out if there is one.
DropNothing ==                  \* mutant: the second select is missing
    /\ step = "full" /\ step' = "retry"
    /\ UNCHANGED <<next, ch, received, dropped, gaveUp>>
DropBlocking ==                 \* mutant: a plain receive, blocks when empty
    /\ step = "full" /\ ch # <<>> /\ step' = "retry"
    /\ ch' = Tail(ch) /\ dropped' = dropped \cup {Head(ch)}
    /\ UNCHANGED <<next, received, gaveUp>>
DropOldest ==
    /\ step = "full" /\ step' = "retry"
    /\ IF ch = <<>>
         THEN UNCHANGED <<ch, dropped>>
         ELSE ch' = Tail(ch) /\ dropped' = dropped \cup {Head(ch)}
    /\ UNCHANGED <<next, received, gaveUp>>

\* Third select: send if there is room, otherwise give the new value up.
SendAgain ==
    /\ step = "retry" /\ step' = "idle"
    /\ IF Len(ch) < Cap
         THEN ch' = Append(ch, next) /\ UNCHANGED gaveUp
         ELSE gaveUp' = gaveUp \cup {next} /\ UNCHANGED ch
    /\ UNCHANGED <<next, received, dropped>>

\* A consumer goroutine receives from Recv().
Recv ==
    /\ ch # <<>>
    /\ received' = Append(received, Head(ch))
    /\ ch' = Tail(ch)
    /\ UNCHANGED <<next, step, dropped, gaveUp>>

Dispatch == Send \/ DropOldest \/ SendAgain

Next == Undecodable \/ Dispatch \/ Recv

\* The read loop keeps running inside dispatch; consumers owe nothing.
Spec == Init /\ [][Next]_vars /\ WF_vars(DropOldest) /\ WF_vars(SendAgain)

--------------------------------------------------------------------------------
\* Dropping keeps the stream fresh: the newest notification always gets in, the
\* discarding branch of the last select is dead with a single producer.
NewestKept == gaveUp = {}

\* The three selects together behave like one atomic offer to a lossy FIFO: what
\* the consumer drains between them is neither seen twice nor out of order, and
\* every notification is received, buffered, on its way, or knowingly dropped.
Abstract == INSTANCE LossyFifo WITH
    last   <- IF step = "full" THEN next - 1 ELSE next,
    buffer <- IF step = "retry" THEN Append(ch, next) ELSE ch,
    full   <- step = "full",
    taken  <- received,
    lost   <- dropped

\* sendOrDropOldest implements the lossy FIFO, its progress included: a slow or
\* absent consumer never blocks the read loop.  What is lost is undecodable, or was
\* the oldest in the buffer when it was dropped, on an offer that had found it full.
ImplementsLossyFifo == Abstract!Spec
================================================================================
