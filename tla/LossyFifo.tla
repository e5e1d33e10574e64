------------------------------- MODULE LossyFifo -------------------------------
(***************************************************************************)
(* What a typed subscription promises its consumer: a bounded first-in      *)
(* first-out stream whose producer never waits.  Notifications are numbered *)
(* in the order they arrive.  An offer that finds the buffer full may cost   *)
(* the consumer one notification, the oldest that is still buffered when it   *)
(* is dropped: the consumer may have drained some, or all, in between.  The   *)
(* notification offered is lost only if it cannot be decoded.                *)
(***************************************************************************)
EXTENDS Naturals, Sequences

CONSTANTS Cap, MaxMsgs

VARIABLES
    last,      \* how many notifications have arrived
    buffer,    \* waiting for the consumer
    full,      \* an offer has found the buffer full and is under way
    taken,     \* what the consumer has received, in order
    lost       \* what it will never receive

vars == <<last, buffer, full, taken, lost>>

Init == last = 0 /\ buffer = <<>> /\ full = FALSE /\ taken = <<>> /\ lost = {}

\* A notification that cannot be decoded is skipped.
Skip ==
    /\ ~full /\ last < MaxMsgs
    /\ last' = last + 1 /\ lost' = lost \cup {last + 1}
    /\ UNCHANGED <<buffer, full, taken>>

Offer ==
    /\ ~full /\ last < MaxMsgs /\ Len(buffer) < Cap
    /\ last' = last + 1
    /\ buffer' = Append(buffer, last + 1)
    /\ UNCHANGED <<full, taken, lost>>

FindFull ==
    /\ ~full /\ last < MaxMsgs /\ Len(buffer) = Cap
    /\ full' = TRUE
    /\ UNCHANGED <<last, buffer, taken, lost>>

Replace ==
    /\ full /\ full' = FALSE
    /\ last' = last + 1
    /\ IF buffer = <<>>
         THEN buffer' = <<last + 1>> /\ UNCHANGED lost
         ELSE /\ buffer' = Append(Tail(buffer), last + 1)
              /\ lost' = lost \cup {Head(buffer)}
    /\ UNCHANGED taken

Take ==
    /\ buffer # <<>>
    /\ taken' = Append(taken, Head(buffer))
    /\ buffer' = Tail(buffer)
    /\ UNCHANGED <<last, full, lost>>

Next == Skip \/ Offer \/ FindFull \/ Replace \/ Take

\* The producer finishes what it starts; nothing is asked of the consumer.
Spec == Init /\ [][Next]_vars /\ WF_vars(Replace)
================================================================================
