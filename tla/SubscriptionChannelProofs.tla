----------------------- MODULE SubscriptionChannelProofs -----------------------
(***************************************************************************)
(* sendOrDropOldest for every capacity and every number of notifications: it  *)
(* never gives the new value up, it implements the lossy FIFO step by step,   *)
(* and what the consumer gets is the stream with gaps, in order.              *)
(***************************************************************************)
EXTENDS SubscriptionChannel, SequenceTheorems, TLAPS

\* The values of the variables.  A sender has a notification in hand, and once it has
\* made room nobody but itself can use it up.
TypeOK ==
    /\ next \in 0 .. MaxMsgs
    /\ ch \in Seq(Nat) /\ Len(ch) <= Cap
    /\ step \in {"idle", "full", "retry"}
    /\ received \in Seq(Nat)
    /\ dropped \subseteq Nat
    /\ step # "idle" => next > 0
    /\ step = "retry" => Len(ch) < Cap

\* The number of the last notification that is neither in a sender's hand nor to come.
Settled == IF step = "idle" THEN next ELSE next - 1

\* What was received comes before what is buffered, each in the order of arrival.
InOrder ==
    /\ \A i, j \in 1 .. Len(received) : i < j => received[i] < received[j]
    /\ \A i, j \in 1 .. Len(ch) : i < j => ch[i] < ch[j]
    /\ \A i \in 1 .. Len(received), j \in 1 .. Len(ch) : received[i] < ch[j]
    /\ \A i \in 1 .. Len(received) : received[i] <= Settled
    /\ \A i \in 1 .. Len(ch) : ch[i] <= Settled

\* Every notification that arrived is received, buffered, in the sender's hand, or
\* was dropped, and none that was dropped is received or still buffered.
Accounted ==
    /\ \A n \in 1 .. Settled :
          \/ n \in dropped
          \/ \E i \in 1 .. Len(received) : received[i] = n
          \/ \E i \in 1 .. Len(ch) : ch[i] = n
    /\ \A n \in dropped : /\ n <= Settled
                          /\ \A i \in 1 .. Len(received) : received[i] # n
                          /\ \A i \in 1 .. Len(ch) : ch[i] # n

IInv == TypeOK /\ NewestKept /\ InOrder /\ Accounted

USE CapAssumption, MaxMsgsAssumption

--------------------------------------------------------------------------------
\* A channel that has just been made is empty.
LEMMA InitIInv == Init => IInv
  BY DEF Init, IInv, TypeOK, NewestKept, InOrder, Accounted, Settled

\* What appending to and taking from a channel do.
LEMMA ChannelOps ==
    ASSUME NEW s \in Seq(Nat), NEW n \in Nat
    PROVE  /\ Append(s, n) \in Seq(Nat) /\ Len(Append(s, n)) = Len(s) + 1
           /\ \A i \in 1 .. Len(s) : Append(s, n)[i] = s[i]
           /\ Append(s, n)[Len(s) + 1] = n
           /\ s # <<>> => /\ Head(s) = s[1] /\ Tail(s) \in Seq(Nat) /\ Len(s) > 0
                          /\ Len(Tail(s)) = Len(s) - 1
                          /\ \A i \in 1 .. Len(s) - 1 : Tail(s)[i] = s[i + 1]
           /\ Len(s) \in Nat /\ \A i \in 1 .. Len(s) : s[i] \in Nat
  OBVIOUS

\* Undecodable.
LEMMA UndecodableIInv == ASSUME IInv, Undecodable PROVE IInv'
  <1> USE DEF IInv, Undecodable, TypeOK
  <1>1. TypeOK' /\ NewestKept'
    BY DEF NewestKept
  <1>2. next \in Nat /\ Settled = next /\ Settled' = next + 1
    BY DEF Settled
  <1>3. InOrder'
    BY <1>2, ChannelOps, SMTT(20) DEF InOrder
  <1>4. Accounted'
    <2>1. /\ \A i \in 1 .. Len(received) : received[i] \in Nat /\ received[i] <= next
          /\ \A i \in 1 .. Len(ch) : ch[i] \in Nat /\ ch[i] <= next
      BY <1>2, ChannelOps DEF InOrder
    <2>2. \A n \in 1 .. next + 1 : n = next + 1 \/ n \in 1 .. next
      BY <1>2
    <2>3. \A n \in dropped' : n <= next + 1
      BY <1>2 DEF Accounted
    <2>4. \A n \in dropped' : /\ \A i \in 1 .. Len(received) : received[i] # n
                              /\ \A i \in 1 .. Len(ch) : ch[i] # n
      BY <1>2, <2>1 DEF Accounted
    <2>5. \A n \in 1 .. next + 1 : \/ n \in dropped'
                                   \/ \E i \in 1 .. Len(received) : received[i] = n
                                   \/ \E i \in 1 .. Len(ch) : ch[i] = n
      BY <1>2, <2>2 DEF Accounted
    <2>6. received' = received /\ ch' = ch
      OBVIOUS
    <2> HIDE DEF IInv, Undecodable, TypeOK
    <2> QED BY <1>2, <2>3, <2>4, <2>5, <2>6 DEF Accounted
  <1> QED BY <1>1, <1>3, <1>4

\* Appending the notification in hand, by the first or the third select.
LEMMA PutIInv ==
    ASSUME IInv, NEW n \in Nat, n = Settled + 1, n \in 0 .. MaxMsgs, Len(ch) < Cap,
           ch' = Append(ch, n), next' = n, step' = "idle",
           UNCHANGED <<received, dropped, gaveUp>>
    PROVE  IInv'
  <1> USE DEF IInv, TypeOK
  <1>1. TypeOK' /\ NewestKept'
    BY ChannelOps DEF NewestKept
  <1>2. Settled' = n /\ Settled \in Int /\ n = Settled + 1
    BY DEF Settled
  <1>3. /\ Len(ch') = Len(ch) + 1 /\ Len(ch) \in Nat
        /\ \A i \in 1 .. Len(ch) : ch'[i] = ch[i] /\ ch[i] \in Nat
        /\ ch'[Len(ch) + 1] = n
        /\ \A i \in 1 .. Len(received) : received[i] \in Nat
    BY ChannelOps
  <1>4. InOrder'
    BY <1>2, <1>3, SMTT(20) DEF InOrder
  <1>5. Accounted'
    <2>1. Accounted /\ InOrder /\ received' = received /\ dropped' = dropped
      OBVIOUS
    <2>2. dropped \subseteq Nat
      OBVIOUS
    <2> HIDE DEF IInv, TypeOK
    <2>3. ASSUME NEW k \in 1 .. n
          PROVE  \/ k \in dropped'
                 \/ \E i \in 1 .. Len(received') : received'[i] = k
                 \/ \E i \in 1 .. Len(ch') : ch'[i] = k
      <3>1. CASE k = n
        BY <1>3, <3>1
      <3>2. CASE k \in 1 .. Settled
        BY <1>3, <2>1, <3>2 DEF Accounted
      <3> QED BY <1>2, <3>1, <3>2
    <2>4. ASSUME NEW k \in dropped'
          PROVE  /\ k <= n
                 /\ \A i \in 1 .. Len(received') : received'[i] # k
      BY <1>2, <2>1, <2>2 DEF Accounted
    <2>5. ASSUME NEW k \in dropped', NEW i \in 1 .. Len(ch') PROVE ch'[i] # k
      <3>1. k <= Settled /\ k \in Nat
        BY <2>1, <2>2 DEF Accounted
      <3>2. CASE i = Len(ch) + 1
        BY <1>2, <1>3, <3>1, <3>2
      <3>3. CASE i \in 1 .. Len(ch)
        BY <1>3, <2>1, <3>3 DEF Accounted
      <3> QED BY <1>3, <3>2, <3>3
    <2> QED BY <1>2, <2>3, <2>4, <2>5 DEF Accounted
  <1> QED BY <1>1, <1>4, <1>5

\* Send.
LEMMA SendIInv == ASSUME IInv, Send PROVE IInv'
  <1> USE DEF IInv, Send, TypeOK
  <1>1. CASE Len(ch) < Cap
    BY <1>1, PutIInv DEF Settled
  <1>2. CASE ~(Len(ch) < Cap)
    <2>1. Settled' = Settled
      BY <1>2 DEF Settled
    <2>2. InOrder' /\ Accounted'
      BY <1>2, <2>1 DEF InOrder, Accounted
    <2>3. TypeOK' /\ NewestKept'
      BY <1>2 DEF NewestKept
    <2> QED BY <2>2, <2>3
  <1> QED BY <1>1, <1>2

\* DropOldest: the element taken out is the oldest one.
LEMMA DropOldestIInv == ASSUME IInv, DropOldest PROVE IInv'
  <1> USE DEF IInv, DropOldest, TypeOK
  <1>0. Settled' = Settled /\ Settled \in Int
    BY DEF Settled
  <1>1. CASE ch = <<>>
    <2>1. UNCHANGED <<ch, dropped, received, next, gaveUp>> /\ step' = "retry"
      BY <1>1
    <2>2. Len(ch) = 0 /\ 0 < Cap
      BY <1>1
    <2>3. TypeOK' /\ NewestKept'
      BY <2>1, <2>2 DEF NewestKept
    <2>4. InOrder' /\ Accounted'
      BY <1>0, <2>1 DEF InOrder, Accounted
    <2> QED BY <2>3, <2>4
  <1>2. CASE ch # <<>>
    <2>1. /\ ch' = Tail(ch) /\ Len(ch') = Len(ch) - 1 /\ Len(ch) \in Nat \ {0}
          /\ \A i \in 1 .. Len(ch) - 1 : ch'[i] = ch[i + 1]
          /\ \A i \in 1 .. Len(ch) : ch[i] \in Nat
          /\ \A i \in 1 .. Len(received) : received[i] \in Nat
          /\ dropped' = dropped \cup {ch[1]}
      <3>1. ch' = Tail(ch) /\ dropped' = dropped \cup {Head(ch)} /\ ch \in Seq(Nat)
            /\ received \in Seq(Nat)
        BY <1>2
      <3> HIDE DEF IInv, DropOldest, TypeOK
      <3>2. Head(ch) = ch[1] /\ Len(ch) \in Nat \ {0}
        BY <1>2, <3>1
      <3>3. Len(Tail(ch)) = Len(ch) - 1 /\ \A i \in 1 .. Len(ch) - 1 : Tail(ch)[i] = ch[i + 1]
        BY <1>2, <3>1
      <3> QED BY <3>1, <3>2, <3>3
    <2>2. TypeOK' /\ NewestKept'
      <3>1. ch' \in Seq(Nat) /\ ch[1] \in Nat
        BY <1>2, <2>1
      <3>2. Len(ch') < Cap /\ Len(ch') <= Cap
        BY <2>1
      <3>3. dropped' \subseteq Nat
        BY <2>1, <3>1
      <3>4. /\ next' \in 0 .. MaxMsgs /\ step' = "retry" /\ received' \in Seq(Nat)
            /\ next' > 0 /\ gaveUp' = {}
        BY DEF NewestKept
      <3> QED BY <3>1, <3>2, <3>3, <3>4 DEF NewestKept
    <2>3. InOrder'
      BY <1>0, <2>1 DEF InOrder
    <2>4. ASSUME NEW i \in 1 .. Len(ch), i # 1 PROVE i - 1 \in 1 .. Len(ch') /\ ch'[i - 1] = ch[i]
      BY <2>1, <2>4
    <2>5. Accounted'
      <3>0. Accounted
        OBVIOUS
      <3>1. \A n \in 1 .. Settled : \/ n \in dropped'
                                    \/ \E i \in 1 .. Len(received) : received[i] = n
                                    \/ \E i \in 1 .. Len(ch') : ch'[i] = n
        <4> HIDE DEF IInv, DropOldest, TypeOK
        <4> SUFFICES ASSUME NEW n \in 1 .. Settled, n \notin dropped',
                            ~ \E i \in 1 .. Len(received) : received[i] = n
                     PROVE  \E i \in 1 .. Len(ch') : ch'[i] = n
          OBVIOUS
        <4>1. PICK i \in 1 .. Len(ch) : ch[i] = n
          BY <2>1, <3>0 DEF Accounted
        <4> QED BY <2>1, <2>4, <4>1
      <3>2. ch[1] <= Settled /\ \A i \in 1 .. Len(received) : received[i] # ch[1]
        BY <2>1 DEF InOrder
      <3>3. \A i \in 1 .. Len(ch') : ch'[i] # ch[1]
        BY <2>1 DEF InOrder
      <3>4. \A n \in dropped : \A i \in 1 .. Len(ch') : ch'[i] # n
        BY <2>1 DEF Accounted
      <3> QED BY <1>0, <2>1, <3>1, <3>2, <3>3, <3>4 DEF Accounted
    <2> QED BY <2>2, <2>3, <2>5
  <1> QED BY <1>1, <1>2

\* SendAgain: there is room, the discarding branch is dead.
LEMMA SendAgainIInv == ASSUME IInv, SendAgain PROVE IInv'
  <1>1. Len(ch) < Cap /\ ch' = Append(ch, next) /\ UNCHANGED gaveUp /\ step = "retry"
    BY DEF IInv, SendAgain, TypeOK
  <1>2. next = Settled + 1 /\ next \in Nat /\ next \in 0 .. MaxMsgs
    BY <1>1 DEF IInv, TypeOK, Settled
  <1> QED BY <1>1, <1>2, PutIInv DEF SendAgain

\* Recv: the consumer takes the oldest element.
LEMMA RecvIInv == ASSUME IInv, Recv PROVE IInv'
  <1> USE DEF IInv, Recv, TypeOK
  <1>0. Settled' = Settled /\ Settled \in Int
    BY DEF Settled
  <1>1. /\ Len(ch') = Len(ch) - 1 /\ Len(ch) \in Nat \ {0}
        /\ \A i \in 1 .. Len(ch) - 1 : ch'[i] = ch[i + 1]
        /\ \A i \in 1 .. Len(ch) : ch[i] \in Nat
        /\ \A i \in 1 .. Len(received) : received[i] \in Nat /\ received'[i] = received[i]
        /\ Len(received') = Len(received) + 1 /\ Len(received) \in Nat
        /\ received'[Len(received) + 1] = ch[1]
    BY ChannelOps
  <1>2. TypeOK' /\ NewestKept'
    <2>1. Head(ch) \in Nat
      BY <1>1, ChannelOps
    <2> QED BY <1>1, <2>1, ChannelOps DEF NewestKept
  <1>3. InOrder'
    <2>1. \A i, j \in 1 .. Len(received') : i < j => received'[i] < received'[j]
      BY <1>1 DEF InOrder
    <2>2. \A i, j \in 1 .. Len(ch') : i < j => ch'[i] < ch'[j]
      BY <1>1 DEF InOrder
    <2>3. \A i \in 1 .. Len(received'), j \in 1 .. Len(ch') : received'[i] < ch'[j]
      BY <1>1 DEF InOrder
    <2>4. \A i \in 1 .. Len(received') : received'[i] <= Settled
      BY <1>1 DEF InOrder
    <2>5. \A i \in 1 .. Len(ch') : ch'[i] <= Settled
      BY <1>1 DEF InOrder
    <2> QED BY <1>0, <2>1, <2>2, <2>3, <2>4, <2>5 DEF InOrder
  <1>4. Accounted'
    <2>1. ASSUME NEW i \in 1 .. Len(ch), i # 1 PROVE i - 1 \in 1 .. Len(ch') /\ ch'[i - 1] = ch[i]
      BY <1>1, <2>1
    <2>2. Len(received) + 1 \in 1 .. Len(received')
          /\ \A i \in 1 .. Len(received) : i \in 1 .. Len(received')
      BY <1>1
    <2>3. \A n \in 1 .. Settled : \/ n \in dropped
                                  \/ \E i \in 1 .. Len(received') : received'[i] = n
                                  \/ \E i \in 1 .. Len(ch') : ch'[i] = n
      <3>1. Accounted
        OBVIOUS
      <3> HIDE DEF IInv, Recv, TypeOK
      <3> SUFFICES ASSUME NEW n \in 1 .. Settled, n \notin dropped,
                          ~ \E i \in 1 .. Len(received') : received'[i] = n
                   PROVE  \E i \in 1 .. Len(ch') : ch'[i] = n
        OBVIOUS
      <3>2. PICK i \in 1 .. Len(ch) : ch[i] = n
        BY <1>1, <2>2, <3>1 DEF Accounted
      <3>3. i # 1
        BY <1>1, <2>2, <3>2
      <3> QED BY <2>1, <3>2, <3>3
    <2>4. \A n \in dropped : /\ \A i \in 1 .. Len(received') : received'[i] # n
                             /\ \A i \in 1 .. Len(ch') : ch'[i] # n
      BY <1>1 DEF Accounted
    <2> QED BY <1>0, <2>3, <2>4 DEF Accounted
  <1> QED BY <1>2, <1>3, <1>4

LEMMA Invariance == Spec => []IInv
  <1>1. IInv /\ [Next]_vars => IInv'
    <2> SUFFICES ASSUME IInv, [Next]_vars PROVE IInv'
      OBVIOUS
    <2>1. CASE UNCHANGED vars
      BY <2>1 DEF vars, IInv, TypeOK, NewestKept, InOrder, Accounted, Settled
    <2> QED
      BY <2>1, UndecodableIInv, SendIInv, DropOldestIInv, SendAgainIInv, RecvIInv
      DEF Next, Dispatch
  <1> QED BY <1>1, InitIInv, PTL DEF Spec

--------------------------------------------------------------------------------
\* With a single producer the last select always finds room: a notification that
\* decodes is never the one that is discarded, whatever the capacity.
THEOREM NewestAlwaysKept == Spec => []NewestKept
  <1>1. IInv => NewestKept
    BY DEF IInv
  <1> QED BY <1>1, Invariance, PTL

\* What the consumer has received is in the order of arrival, without repetition, and
\* every notification is received, buffered, in hand or knowingly dropped.
THEOREM StreamInOrder == Spec => [](InOrder /\ Accounted)
  <1>1. IInv => InOrder /\ Accounted
    BY DEF IInv
  <1> QED BY <1>1, Invariance, PTL

\* Every step of the three selects and of the consumer is a step of the lossy FIFO, or
\* leaves it as it is.
LEMMA StepSimulation == ASSUME IInv, [Next]_vars PROVE [Abstract!Next]_(Abstract!vars)
  <1> USE DEF IInv, TypeOK
  <1>a. next \in Nat /\ ch \in Seq(Nat) /\ Len(ch) \in Nat
    OBVIOUS
  <1>1. CASE Undecodable
    <2>1. Abstract!Skip
      BY <1>1 DEF Undecodable, Abstract!Skip
    <2> QED BY <2>1 DEF Abstract!Next
  <1>2. CASE Send
    <2>1. CASE Len(ch) < Cap
      <3>1. Abstract!Offer
        BY <1>2, <2>1 DEF Send, Abstract!Offer
      <3> QED BY <3>1 DEF Abstract!Next
    <2>2. CASE ~(Len(ch) < Cap)
      <3>1. Abstract!FindFull
        BY <1>2, <2>2, <1>a DEF Send, Abstract!FindFull
      <3> QED BY <3>1 DEF Abstract!Next
    <2> QED BY <2>1, <2>2
  <1>3. CASE DropOldest
    <2>1. Abstract!Replace
      <3>1. next - 1 + 1 = next /\ step = "full" /\ step' = "retry" /\ next' = next
            /\ received' = received
        BY <1>3, <1>a DEF DropOldest
      <3>2. CASE ch = <<>>
        <4>1. Append(ch, next) = <<next>> /\ ch' = ch /\ dropped' = dropped
          BY <1>3, <3>2 DEF DropOldest
        <4> QED BY <3>1, <3>2, <4>1 DEF Abstract!Replace
      <3>3. CASE ch # <<>>
        <4>1. ch' = Tail(ch) /\ dropped' = dropped \cup {Head(ch)}
          BY <1>3, <3>3 DEF DropOldest
        <4> QED BY <3>1, <3>3, <4>1 DEF Abstract!Replace
      <3> QED BY <3>2, <3>3
    <2> QED BY <2>1 DEF Abstract!Next
  <1>4. CASE SendAgain
    BY <1>4 DEF SendAgain, Abstract!vars
  <1>5. CASE Recv
    <2>1. CASE step = "retry"
      <3>1. /\ Append(ch, next) # <<>> /\ Head(Append(ch, next)) = Head(ch)
            /\ Tail(Append(ch, next)) = Append(Tail(ch), next)
        <4>1. ch # <<>>
          BY <1>5 DEF Recv
        <4> HIDE DEF IInv, TypeOK
        <4>2. Append(ch, next) \in Seq(Nat) /\ Append(ch, next) # <<>>
          BY <1>a
        <4>3. Head(Append(ch, next)) = IF ch = <<>> THEN next ELSE Head(ch)
          BY <1>a, HeadTailAppend
        <4>4. Tail(Append(ch, next)) = IF ch = <<>> THEN <<>> ELSE Append(Tail(ch), next)
          BY <1>a, HeadTailAppend
        <4> QED BY <4>1, <4>2, <4>3, <4>4
      <3>2. Abstract!Take
        BY <1>5, <2>1, <3>1 DEF Recv, Abstract!Take
      <3> QED BY <3>2 DEF Abstract!Next
    <2>2. CASE step # "retry"
      <3>1. Abstract!Take
        BY <1>5, <2>2 DEF Recv, Abstract!Take
      <3> QED BY <3>1 DEF Abstract!Next
    <2> QED BY <2>1, <2>2
  <1>6. CASE UNCHANGED vars
    BY <1>6 DEF vars, Abstract!vars
  <1> QED BY <1>1, <1>2, <1>3, <1>4, <1>5, <1>6 DEF Next, Dispatch

\* sendOrDropOldest and its consumer implement the lossy FIFO, for every capacity and
\* every number of notifications (its progress is left to the model checker).
THEOREM RefinesLossyFifo == Spec => Abstract!Init /\ [][Abstract!Next]_(Abstract!vars)
  <1>1. Init => Abstract!Init
    BY DEF Init, Abstract!Init
  <1>2. IInv /\ [Next]_vars => [Abstract!Next]_(Abstract!vars)
    BY StepSimulation
  <1> QED BY <1>1, <1>2, Invariance, PTL DEF Spec
================================================================================
