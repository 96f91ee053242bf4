---------------------------- MODULE EventBusProofs ----------------------------
(***************************************************************************)
(* For any publishers, subscriptions, filters and buffer sizes: the bus    *)
(* implements the abstract log of EventLog, and what a subscription hands  *)
(* out is wanted, comes once and, in memory, in order, with everything     *)
(* that is missing counted.                                                *)
(***************************************************************************)
EXTENDS EventBus, FiniteSetTheorems, TLAPS

\* A publisher delivers an event of the journal that no other will deliver.
AppendedOnce ==
  /\ \A p \in Publishers : appended[p] <= Len(journal)
  /\ \A p, q \in Publishers : appended[p] = appended[q] /\ appended[p] # 0 => p = q

\* What is not subscribed has nothing.
AbsentHasNothing ==
  \A s \in Subscribers : status[s] = "absent" =>
    queue[s] = <<>> /\ received[s] = <<>> /\ dropped[s] = 0 /\ consumer[s] = "idle"

IInv == TypeOK /\ AppendedOnce /\ AbsentHasNothing

-----------------------------------------------------------------------------
LEMMA InvInit == ASSUME Init PROVE IInv
<1>1. <<>> \in Seq(Kinds) /\ <<>> \in Seq(Nat) /\ Len(<<>>) = 0
  OBVIOUS
<1>2. TypeOK
  BY <1>1 DEF Init, TypeOK
<1>3. AppendedOnce /\ AbsentHasNothing
  BY <1>1 DEF Init, AppendedOnce, AbsentHasNothing
<1>. QED
  BY <1>2, <1>3 DEF IInv

\* A delivery changes buffers and counts of open subscriptions, by one event.
LEMMA DeliverStep ==
  ASSUME TypeOK, NEW n \in Nat, NEW kind \in Kinds, Deliver(n, kind)
  PROVE  /\ queue' \in [Subscribers -> Seq(Nat)] /\ dropped' \in [Subscribers -> Nat]
         /\ UNCHANGED <<status, since, consumer, received>>
         /\ \A s \in Reached(kind) : Len(queue'[s]) + dropped'[s] = Len(queue[s]) + dropped[s] + 1
         /\ \A s \in Subscribers \ Reached(kind) : queue'[s] = queue[s] /\ dropped'[s] = dropped[s]
<1>. DEFINE kept(s) == IF Full(s) THEN Tail(queue[s]) ELSE queue[s]
<1>1. ASSUME NEW s \in Subscribers
      PROVE  /\ kept(s) \in Seq(Nat)
             /\ Append(kept(s), n) \in Seq(Nat)
             /\ Len(Append(kept(s), n)) = IF Full(s) THEN Len(queue[s]) ELSE Len(queue[s]) + 1
  <2>1. queue[s] \in Seq(Nat) /\ Len(queue[s]) \in Nat
    BY DEF TypeOK
  <2>2. CASE Full(s)
    <3>1. queue[s] # <<>> /\ Len(queue[s]) > 0
      BY <2>1, <2>2, BusAssumption DEF Full
    <3>2. Tail(queue[s]) \in Seq(Nat) /\ Len(Tail(queue[s])) = Len(queue[s]) - 1
      BY <2>1, <3>1
    <3>. QED
      BY <2>1, <2>2, <3>2
  <2>3. CASE ~Full(s)
    BY <2>1, <2>3
  <2>. QED
    BY <2>2, <2>3
<1>2. queue' = [s \in Subscribers |-> IF s \notin Reached(kind) THEN queue[s] ELSE Append(kept(s), n)]
  BY DEF Deliver
<1>3. dropped' = [s \in Subscribers |-> IF s \in Reached(kind) /\ Full(s) THEN dropped[s] + 1 ELSE dropped[s]]
  BY DEF Deliver
<1>4. queue' \in [Subscribers -> Seq(Nat)]
  BY <1>1, <1>2 DEF TypeOK
<1>5. dropped' \in [Subscribers -> Nat]
  BY <1>3 DEF TypeOK
<1>6. \A s \in Reached(kind) : Len(queue'[s]) + dropped'[s] = Len(queue[s]) + dropped[s] + 1
  BY <1>1, <1>2, <1>3 DEF TypeOK, Reached
<1>. QED
  BY <1>2, <1>3, <1>4, <1>5, <1>6 DEF Deliver

\* The consumer's step from the buffer to what it has received.
LEMMA TakeStep ==
  ASSUME TypeOK, NEW s \in Subscribers, Take(s)
  PROVE  /\ queue' \in [Subscribers -> Seq(Nat)] /\ received' \in [Subscribers -> Seq(Nat)]
         /\ Len(received'[s]) + Len(queue'[s]) = Len(received[s]) + Len(queue[s])
         /\ \A t \in Subscribers \ {s} : queue'[t] = queue[t] /\ received'[t] = received[t]
<1>1. queue[s] \in Seq(Nat) /\ received[s] \in Seq(Nat) /\ queue[s] # <<>>
  BY DEF TypeOK, Take
<1>2. /\ Head(queue[s]) \in Nat /\ Tail(queue[s]) \in Seq(Nat)
      /\ Len(Tail(queue[s])) = Len(queue[s]) - 1
      /\ Append(received[s], Head(queue[s])) \in Seq(Nat)
      /\ Len(Append(received[s], Head(queue[s]))) = Len(received[s]) + 1
  BY <1>1
<1>3. /\ queue' = [queue EXCEPT ![s] = Tail(queue[s])]
      /\ received' = [received EXCEPT ![s] = Append(received[s], Head(queue[s]))]
  BY DEF Take
<1>4. Len(queue[s]) \in Nat /\ Len(received[s]) \in Nat
  BY <1>1
<1>. QED
  BY <1>2, <1>3, <1>4 DEF TypeOK

LEMMA InvStep == ASSUME IInv, [Next]_vars PROVE IInv'
<1>. USE DEF IInv
<1>0. Len(journal) \in Nat
  BY DEF TypeOK
<1>1. ASSUME NEW kind \in Kinds, PublishInMemory(kind)
      PROVE  IInv'
  <2>1. journal' = Append(journal, kind) /\ Deliver(Len(journal) + 1, kind) /\ UNCHANGED <<durable, appended>>
    BY <1>1 DEF PublishInMemory
  <2>2. journal' \in Seq(Kinds) /\ Len(journal') = Len(journal) + 1
    BY <2>1 DEF TypeOK
  <2>3. /\ queue' \in [Subscribers -> Seq(Nat)] /\ dropped' \in [Subscribers -> Nat]
        /\ UNCHANGED <<status, since, consumer, received>>
        /\ \A s \in Subscribers \ Reached(kind) : queue'[s] = queue[s] /\ dropped'[s] = dropped[s]
    BY <1>0, <2>1, DeliverStep
  <2>4. TypeOK'
    BY <2>1, <2>2, <2>3 DEF TypeOK
  <2>5. AppendedOnce'
    BY <1>0, <2>1, <2>2 DEF AppendedOnce, TypeOK
  <2>6. AbsentHasNothing'
    BY <2>3 DEF AbsentHasNothing, Reached
  <2>. QED
    BY <2>4, <2>5, <2>6
<1>2. ASSUME NEW p \in Publishers, NEW kind \in Kinds, AppendDurably(p, kind)
      PROVE  IInv'
  <2>1. /\ journal' = Append(journal, kind) /\ appended' = [appended EXCEPT ![p] = Len(journal) + 1]
        /\ UNCHANGED <<durable, subscription>>
    BY <1>2 DEF AppendDurably
  <2>2. journal' \in Seq(Kinds) /\ Len(journal') = Len(journal) + 1
    BY <2>1 DEF TypeOK
  <2>3. TypeOK' /\ AbsentHasNothing'
    BY <1>0, <2>1, <2>2 DEF TypeOK, AbsentHasNothing, subscription
  <2>4. AppendedOnce'
    BY <1>0, <2>1, <2>2 DEF AppendedOnce, TypeOK
  <2>. QED
    BY <2>3, <2>4
<1>3. ASSUME NEW p \in Publishers, DeliverAppended(p)
      PROVE  IInv'
  <2>1. /\ appended[p] # 0 /\ Deliver(appended[p], journal[appended[p]])
        /\ appended' = [appended EXCEPT ![p] = 0] /\ UNCHANGED <<durable, journal>>
    BY <1>3 DEF DeliverAppended
  <2>2. appended[p] \in Nat /\ appended[p] \in 1 .. Len(journal) /\ journal[appended[p]] \in Kinds
    BY <1>0, <2>1 DEF TypeOK, AppendedOnce
  <2>3. /\ queue' \in [Subscribers -> Seq(Nat)] /\ dropped' \in [Subscribers -> Nat]
        /\ UNCHANGED <<status, since, consumer, received>>
        /\ \A s \in Subscribers \ Reached(journal[appended[p]]) : queue'[s] = queue[s] /\ dropped'[s] = dropped[s]
    BY <2>1, <2>2, DeliverStep
  <2>4. TypeOK'
    BY <2>1, <2>3 DEF TypeOK
  <2>5. AppendedOnce'
    BY <1>0, <2>1 DEF AppendedOnce, TypeOK
  <2>6. AbsentHasNothing'
    BY <2>3 DEF AbsentHasNothing, Reached
  <2>. QED
    BY <2>4, <2>5, <2>6
<1>4. ASSUME NEW p \in Publishers, Abandon(p)
      PROVE  IInv'
  BY <1>0, <1>4 DEF Abandon, TypeOK, AppendedOnce, AbsentHasNothing, subscription
<1>5. ASSUME NEW s \in Subscribers, Subscribe(s) \/ Close(s) \/ GetEnds(s) \/ GetWaits(s)
      PROVE  IInv'
  <2>1. CASE Subscribe(s)
    BY <1>0, <2>1 DEF Subscribe, TypeOK, AppendedOnce, AbsentHasNothing
  <2>2. CASE Close(s)
    BY <2>2 DEF Close, TypeOK, AppendedOnce, AbsentHasNothing
  <2>3. CASE GetEnds(s)
    BY <2>3 DEF GetEnds, TypeOK, AppendedOnce, AbsentHasNothing
  <2>4. CASE GetWaits(s)
    BY <2>4 DEF GetWaits, TypeOK, AppendedOnce, AbsentHasNothing
  <2>. QED
    BY <1>5, <2>1, <2>2, <2>3, <2>4
<1>6. ASSUME NEW s \in Subscribers, GetTakes(s) \/ Wake(s)
      PROVE  IInv'
  <2>1. /\ Take(s) /\ UNCHANGED <<durable, journal, appended, status, since, dropped>>
        /\ consumer' \in {consumer, [consumer EXCEPT ![s] = "idle"]}
    BY <1>6 DEF GetTakes, Wake
  <2>2. /\ queue' \in [Subscribers -> Seq(Nat)] /\ received' \in [Subscribers -> Seq(Nat)]
        /\ \A t \in Subscribers \ {s} : queue'[t] = queue[t] /\ received'[t] = received[t]
    BY <2>1, TakeStep
  <2>3. status[s] # "absent"
    BY <2>1 DEF Take, AbsentHasNothing
  <2>4. TypeOK'
    BY <2>1, <2>2 DEF TypeOK
  <2>5. AbsentHasNothing' /\ AppendedOnce'
    BY <2>1, <2>2, <2>3 DEF AbsentHasNothing, AppendedOnce, TypeOK
  <2>. QED
    BY <2>4, <2>5
<1>7. CASE Restart
  <2>1. <<>> \in Seq(Nat)
    OBVIOUS
  <2>. QED
    BY <1>0, <1>7, <2>1 DEF Restart, TypeOK, AppendedOnce, AbsentHasNothing
<1>8. CASE UNCHANGED vars
  BY <1>8 DEF vars, subscription, TypeOK, AppendedOnce, AbsentHasNothing
<1>. QED
  BY <1>1, <1>2, <1>3, <1>4, <1>5, <1>6, <1>7, <1>8 DEF Next

(***************************************************************************)
(* The types of the bus's state.                                           *)
(***************************************************************************)
THEOREM Typing == Spec => []IInv
<1>1. Init => IInv
  BY InvInit
<1>2. IInv /\ [Next]_vars => IInv'
  BY InvStep
<1>. QED
  BY <1>1, <1>2, PTL DEF Spec

-----------------------------------------------------------------------------
(* The refinement.                                                         *)

Offered == [s \in Subscribers |-> Len(received[s]) + Len(queue[s]) + dropped[s]]
Opened == {s \in Subscribers : status[s] = "open"}
Pending == {appended[p] : p \in Publishers} \ {0}

\* Nothing is offered, open or pending at first.
LEMMA LogInit == ASSUME Init PROVE Log!Init
<1>1. Len(<<>>) = 0
  OBVIOUS
<1>. QED
  BY <1>1 DEF Init, Log!Init

\* A delivery is what the log calls offering an event.
LEMMA DeliverOffers ==
  ASSUME TypeOK, NEW n \in Nat, NEW kind \in Kinds, Deliver(n, kind)
  PROVE  Log!Offers(kind) /\ Opened' = Opened
<1>1. /\ UNCHANGED <<status, received>>
      /\ \A s \in Reached(kind) : Len(queue'[s]) + dropped'[s] = Len(queue[s]) + dropped[s] + 1
      /\ \A s \in Subscribers \ Reached(kind) : queue'[s] = queue[s] /\ dropped'[s] = dropped[s]
      /\ queue' \in [Subscribers -> Seq(Nat)] /\ dropped' \in [Subscribers -> Nat]
  BY DeliverStep
<1>2. ASSUME NEW s \in Subscribers
      PROVE  Len(received'[s]) + Len(queue'[s]) + dropped'[s] =
               IF s \in Opened /\ kind \in Wanted[s] THEN Offered[s] + 1 ELSE Offered[s]
  <2>1. /\ Len(received[s]) \in Nat /\ Len(queue[s]) \in Nat /\ dropped[s] \in Nat
        /\ Len(queue'[s]) \in Nat /\ dropped'[s] \in Nat
    BY <1>1 DEF TypeOK
  <2>2. s \in Reached(kind) <=> s \in Opened /\ kind \in Wanted[s]
    BY DEF Reached, Opened
  <2>3. Offered[s] = Len(received[s]) + Len(queue[s]) + dropped[s]
    BY DEF Offered
  <2>4. received'[s] = received[s]
    BY <1>1
  <2>5. CASE s \in Reached(kind)
    <3>1. Len(queue'[s]) + dropped'[s] = Len(queue[s]) + dropped[s] + 1
      BY <1>1, <2>5
    <3>2. Len(received'[s]) = Len(received[s]) /\ s \in Opened /\ kind \in Wanted[s]
      BY <2>2, <2>4, <2>5
    <3>3. Len(received[s]) + Len(queue'[s]) + dropped'[s] = (Len(received[s]) + Len(queue[s]) + dropped[s]) + 1
      <4>. DEFINE a == Len(received[s])  b == Len(queue'[s])  c == dropped'[s]
                  d == Len(queue[s])  e == dropped[s]
      <4>1. a \in Nat /\ b \in Nat /\ c \in Nat /\ d \in Nat /\ e \in Nat /\ b + c = d + e + 1
        BY <2>1, <3>1
      <4>. HIDE DEF a, b, c, d, e
      <4>2. a + b + c = (a + d + e) + 1
        BY <4>1
      <4>. QED
        BY <4>2, Zenon DEF a, b, c, d, e
    <3>4. Len(received'[s]) + Len(queue'[s]) + dropped'[s] = Offered[s] + 1
      BY <2>3, <3>2, <3>3, Zenon
    <3>. QED
      BY <3>2, <3>4
  <2>6. CASE s \notin Reached(kind)
    <3>1. queue'[s] = queue[s] /\ dropped'[s] = dropped[s]
      BY <1>1, <2>6
    <3>. QED
      BY <2>1, <2>2, <2>3, <2>4, <2>6, <3>1
  <2>. QED
    BY <2>5, <2>6
<1>. QED
  BY <1>1, <1>2 DEF Log!Offers, Opened, Offered

\* Taking an event does not change how many were offered.
LEMMA TakeOffersNothing == ASSUME TypeOK, NEW s \in Subscribers, Take(s), UNCHANGED dropped PROVE Offered' = Offered
<1>1. /\ Len(received'[s]) + Len(queue'[s]) = Len(received[s]) + Len(queue[s])
      /\ \A t \in Subscribers \ {s} : queue'[t] = queue[t] /\ received'[t] = received[t]
  BY TakeStep
<1>. QED
  BY <1>1 DEF Offered

\* Each step of the bus is one of the log or changes nothing of it.
LEMMA LogStep == ASSUME IInv, [Next]_vars PROVE [Log!Next]_(Log!vars)
<1>. USE DEF IInv
<1>0. Len(journal) \in Nat
  BY DEF TypeOK
<1>1. ASSUME NEW kind \in Kinds, PublishInMemory(kind)
      PROVE  Log!AppendAndOffer(kind)
  <2>1. Log!Offers(kind) /\ Opened' = Opened
    BY <1>0, <1>1, DeliverOffers DEF PublishInMemory
  <2>. QED
    BY <1>1, <2>1 DEF PublishInMemory, Log!AppendAndOffer, Opened
<1>2. ASSUME NEW p \in Publishers, NEW kind \in Kinds, AppendDurably(p, kind)
      PROVE  Log!Record(kind)
  <2>1. appended[p] = 0 /\ appended' = [appended EXCEPT ![p] = Len(journal) + 1]
    BY <1>2 DEF AppendDurably
  <2>2. Pending' = Pending \cup {Len(journal) + 1}
    BY <1>0, <2>1 DEF Pending, TypeOK
  <2>. QED
    BY <1>2, <2>2 DEF AppendDurably, subscription, Log!Record, Pending
<1>3. ASSUME NEW p \in Publishers, appended[p] # 0, appended' = [appended EXCEPT ![p] = 0]
      PROVE  appended[p] \in Pending /\ Pending' = Pending \ {appended[p]}
  BY <1>3 DEF Pending, TypeOK, AppendedOnce
<1>4. ASSUME NEW p \in Publishers, DeliverAppended(p)
      PROVE  \E n \in Pending : Log!Offer(n)
  <2>1. /\ appended[p] # 0 /\ appended' = [appended EXCEPT ![p] = 0]
        /\ Deliver(appended[p], journal[appended[p]]) /\ journal' = journal
    BY <1>4 DEF DeliverAppended
  <2>2. appended[p] \in Nat /\ journal[appended[p]] \in Kinds
    BY <1>0, <2>1 DEF TypeOK, AppendedOnce
  <2>3. PICK n \in Nat, kind \in Kinds : n = appended[p] /\ kind = journal[n]
    BY <2>2
  <2>4. Deliver(n, kind)
    BY <2>1, <2>3
  <2>5. Log!Offers(kind) /\ Opened' = Opened
    BY <2>4, DeliverOffers
  <2>6. n \in Pending /\ Pending' = Pending \ {n}
    BY <1>3, <2>1, <2>3
  <2>7. Log!Offer(n)
    <3>1. Log!Offers(journal[n])
      BY <2>3, <2>5 DEF Log!Offers
    <3>. QED
      BY <2>1, <2>5, <2>6, <3>1 DEF Log!Offer, Pending, Opened
  <2>. QED
    BY <2>6, <2>7
<1>5. ASSUME NEW p \in Publishers, Abandon(p)
      PROVE  \E n \in Pending : Log!Withdraw(n)
  <2>1. appended[p] # 0 /\ appended' = [appended EXCEPT ![p] = 0] /\ UNCHANGED <<journal, subscription>>
    BY <1>5 DEF Abandon
  <2>2. PICK n \in Nat : n = appended[p]
    BY DEF TypeOK
  <2>3. n \in Pending /\ Pending' = Pending \ {n}
    BY <1>3, <2>1, <2>2
  <2>4. Log!Withdraw(n)
    BY <2>1, <2>3 DEF subscription, Log!Withdraw, Pending
  <2>. QED
    BY <2>3, <2>4
<1>6. ASSUME NEW s \in Subscribers, Subscribe(s)
      PROVE  Log!Open(s)
  <2>1. Opened' = Opened \cup {s} /\ s \notin Opened
    BY <1>6 DEF Subscribe, Opened, TypeOK
  <2>2. Offered[s] = 0
    <3>1. queue[s] = <<>> /\ received[s] = <<>> /\ dropped[s] = 0 /\ Len(<<>>) = 0
      BY <1>6 DEF Subscribe, AbsentHasNothing
    <3>2. Offered[s] = Len(received[s]) + Len(queue[s]) + dropped[s]
      BY DEF Offered
    <3>. QED
      BY <3>1, <3>2
  <2>3. Offered' = [Offered EXCEPT ![s] = 0]
    BY <1>6, <2>2 DEF Subscribe, Offered
  <2>. QED
    BY <1>6, <2>1, <2>3 DEF Subscribe, Log!Open, Opened, Offered
<1>7. ASSUME NEW s \in Subscribers, Close(s)
      PROVE  Log!Close(s)
  <2>1. Opened' = Opened \ {s}
    BY <1>7 DEF Close, Opened, TypeOK
  <2>. QED
    BY <1>7, <2>1 DEF Close, Log!Close, Opened
<1>8. ASSUME NEW s \in Subscribers, GetEnds(s) \/ GetWaits(s)
      PROVE  UNCHANGED Log!vars
  BY <1>8 DEF GetEnds, GetWaits, Log!vars
<1>9. ASSUME NEW s \in Subscribers, GetTakes(s) \/ Wake(s)
      PROVE  UNCHANGED Log!vars
  <2>1. Offered' = Offered
    BY <1>9, TakeOffersNothing DEF GetTakes, Wake
  <2>. QED
    BY <1>9, <2>1 DEF GetTakes, Wake, Log!vars, Offered
<1>10. CASE Restart
  <2>1. Len(<<>>) = 0
    OBVIOUS
  <2>2. Pending' = {} /\ Opened' = {} /\ Offered' = [s \in Subscribers |-> 0]
    BY <1>10, <2>1 DEF Restart, Pending, Opened, Offered
  <2>. QED
    BY <1>10, <2>2 DEF Restart, Log!Next, Log!Restart, Pending, Opened, Offered
<1>11. CASE UNCHANGED vars
  BY <1>11 DEF vars, subscription, Log!vars
<1>12. CASE Next
  <2>1. ASSUME NEW kind \in Kinds, PublishInMemory(kind) \/ \E p \in Publishers : AppendDurably(p, kind)
        PROVE  Log!Next
    BY <1>1, <1>2, <2>1 DEF Log!Next
  <2>2. ASSUME NEW p \in Publishers, DeliverAppended(p) \/ Abandon(p)
        PROVE  Log!Next
    BY <1>4, <1>5, <2>2 DEF Log!Next, Pending
  <2>3. ASSUME NEW s \in Subscribers, Subscribe(s) \/ Close(s)
        PROVE  Log!Next
    BY <1>6, <1>7, <2>3 DEF Log!Next
  <2>. QED
    BY <1>8, <1>9, <1>10, <1>12, <2>1, <2>2, <2>3 DEF Next
<1>. QED
  BY <1>11, <1>12

(***************************************************************************)
(* The bus implements the log: for each event one step, at most, in which  *)
(* all the open subscriptions that want it are offered it, and none of     *)
(* them misses in its count of received, buffered and dropped events.      *)
(***************************************************************************)
THEOREM Refinement == Spec => BusImplementsLog
<1>1. Init => Log!Init
  BY LogInit
<1>2. IInv /\ [Next]_vars => [Log!Next]_(Log!vars)
  BY LogStep
<1>. QED
  BY <1>1, <1>2, Typing, PTL DEF Spec, Log!Spec, BusImplementsLog

-----------------------------------------------------------------------------
(* What a subscription hands out.                                          *)

\* An event that is yet to be delivered has not been seen by anybody.
PendingIsUnseen ==
  \A s \in Subscribers, p \in Publishers : appended[p] # 0 =>
    \A i \in 1..Len(Seen(s)) : Seen(s)[i] # appended[p]

SInv == IInv /\ ReceivedOnce /\ PendingIsUnseen

-----------------------------------------------------------------------------
(* What happens to a sequence that is a buffer behind what was received.   *)

\* Appending to the buffer appends to the whole.
LEMMA SeenAppended ==
  ASSUME NEW A \in Seq(Nat), NEW B \in Seq(Nat), NEW n \in Nat
  PROVE  LET T == A \o Append(B, n)
             S == A \o B
         IN  /\ Len(T) = Len(S) + 1
             /\ T[Len(T)] = n
             /\ \A i \in 1..Len(S) : T[i] = S[i]
<1>. DEFINE T == A \o Append(B, n)
            S == A \o B
<1>1. Append(B, n) \in Seq(Nat) /\ Len(Append(B, n)) = Len(B) + 1
  OBVIOUS
<1>2. Len(S) = Len(A) + Len(B) /\ Len(T) = Len(A) + Len(B) + 1
  BY <1>1
<1>3. T[Len(T)] = n
  BY <1>1, <1>2
<1>4. ASSUME NEW i \in 1..Len(S)
      PROVE  T[i] = S[i]
  <2>1. CASE i <= Len(A)
    BY <1>1, <1>2, <2>1
  <2>2. CASE i > Len(A)
    BY <1>1, <1>2, <2>2
  <2>. QED
    BY <1>2, <2>1, <2>2
<1>. QED
  BY <1>2, <1>3, <1>4

\* If the oldest of the buffer goes, what was behind it moves up by one.
LEMMA SeenShifted ==
  ASSUME NEW A \in Seq(Nat), NEW B \in Seq(Nat), B # <<>>, NEW n \in Nat
  PROVE  LET T == A \o Append(Tail(B), n)
             S == A \o B
         IN  /\ Len(T) = Len(S)
             /\ Len(S) > 0
             /\ T[Len(T)] = n
             /\ \A i \in 1..Len(S) - 1 : T[i] = S[IF i <= Len(A) THEN i ELSE i + 1]
<1>. DEFINE T == A \o Append(Tail(B), n)
            S == A \o B
<1>1. /\ Tail(B) \in Seq(Nat) /\ Len(Tail(B)) = Len(B) - 1 /\ Len(B) > 0
      /\ \A k \in 1..Len(B) - 1 : Tail(B)[k] = B[k + 1]
  OBVIOUS
<1>2. Append(Tail(B), n) \in Seq(Nat) /\ Len(Append(Tail(B), n)) = Len(B)
  BY <1>1
<1>3. Len(S) = Len(A) + Len(B) /\ Len(T) = Len(A) + Len(B) /\ Len(S) > 0
  BY <1>1, <1>2
<1>4. T[Len(T)] = n
  BY <1>1, <1>2, <1>3
<1>5. ASSUME NEW i \in 1..Len(S) - 1
      PROVE  T[i] = S[IF i <= Len(A) THEN i ELSE i + 1]
  <2>1. CASE i <= Len(A)
    BY <1>2, <1>3, <2>1
  <2>2. CASE i > Len(A)
    <3>1. i - Len(A) \in 1..Len(B) - 1
      BY <1>3, <2>2
    <3>2. T[i] = Append(Tail(B), n)[i - Len(A)]
      BY <1>2, <1>3, <2>2
    <3>3. Append(Tail(B), n)[i - Len(A)] = B[i - Len(A) + 1]
      BY <1>1, <3>1
    <3>4. S[i + 1] = B[i + 1 - Len(A)]
      BY <1>3, <2>2
    <3>5. i - Len(A) + 1 = i + 1 - Len(A)
      BY <2>2
    <3>. QED
      BY <2>2, <3>2, <3>3, <3>4, <3>5
  <2>. QED
    BY <1>3, <2>1, <2>2
<1>. QED
  BY <1>3, <1>4, <1>5

\* Taking an event moves it from the buffer to what was received: nothing changes of the whole.
LEMMA SeenTaken ==
  ASSUME NEW A \in Seq(Nat), NEW B \in Seq(Nat), B # <<>>
  PROVE  Append(A, Head(B)) \o Tail(B) = A \o B
<1>. DEFINE T == Append(A, Head(B)) \o Tail(B)
            S == A \o B
<1>1. /\ Append(A, Head(B)) \in Seq(Nat) /\ Len(Append(A, Head(B))) = Len(A) + 1
      /\ Tail(B) \in Seq(Nat) /\ Len(Tail(B)) = Len(B) - 1 /\ Len(B) > 0
      /\ \A k \in 1..Len(B) - 1 : Tail(B)[k] = B[k + 1]
  OBVIOUS
<1>2. T \in Seq(Nat) /\ S \in Seq(Nat) /\ Len(T) = Len(S) /\ Len(S) = Len(A) + Len(B)
  BY <1>1
<1>3. ASSUME NEW i \in 1..Len(S)
      PROVE  T[i] = S[i]
  <2>1. CASE i <= Len(A)
    BY <1>1, <1>2, <2>1
  <2>2. CASE i = Len(A) + 1
    BY <1>1, <1>2, <2>2
  <2>3. CASE i > Len(A) + 1
    <3>1. i - (Len(A) + 1) \in 1..Len(B) - 1 /\ i - (Len(A) + 1) + 1 = i - Len(A)
      BY <1>1, <1>2, <2>3
    <3>2. T[i] = Tail(B)[i - (Len(A) + 1)]
      BY <1>1, <1>2, <2>3
    <3>3. S[i] = B[i - Len(A)]
      BY <1>2, <2>3
    <3>. QED
      BY <1>1, <3>1, <3>2, <3>3
  <2>. QED
    BY <1>1, <1>2, <2>1, <2>2, <2>3
<1>. QED
  BY <1>2, <1>3

\* Where an event of the whole stood before the one behind position c went.
Before(i, c) == IF i <= c THEN i ELSE i + 1

\* Before its last, T is S but for at most one that is missing.
Shifts(S, T) ==
  \E c \in Nat : \A i \in 1..Len(T) - 1 : Before(i, c) \in 1..Len(S) /\ T[i] = S[Before(i, c)]

\* T is S with one more event at the end, and of those before it at most one missing.
OneMore(S, T, n, full) ==
  /\ S \in Seq(Nat) /\ T \in Seq(Nat)
  /\ Len(T) = IF full THEN Len(S) ELSE Len(S) + 1
  /\ Len(T) > 0 /\ T[Len(T)] = n
  /\ Shifts(S, T)

\* The whole is longer by one, or as long, if the oldest of a full buffer went.
LEMMA OneMoreInRoom ==
  ASSUME NEW A \in Seq(Nat), NEW B \in Seq(Nat), NEW n \in Nat
  PROVE  OneMore(A \o B, A \o Append(B, n), n, FALSE)
<1>. DEFINE T == A \o Append(B, n)
            S == A \o B
<1>1. Append(B, n) \in Seq(Nat)
  OBVIOUS
<1>2. S \in Seq(Nat) /\ T \in Seq(Nat)
  BY <1>1
<1>3. Len(T) = Len(S) + 1 /\ T[Len(T)] = n /\ \A i \in 1..Len(S) : T[i] = S[i]
  BY SeenAppended
<1>. HIDE DEF S, T
<1>4. PICK l \in Nat : l = Len(S)
  BY <1>2
<1>5. ASSUME NEW i \in 1..Len(T) - 1
      PROVE  Before(i, l) \in 1..Len(S) /\ T[i] = S[Before(i, l)]
  <2>1. i \in 1..l /\ Before(i, l) = i
    BY <1>3, <1>4 DEF Before
  <2>. QED
    BY <1>3, <1>4, <2>1
<1>6. Shifts(S, T)
  BY <1>5, Zenon DEF Shifts
<1>7. OneMore(S, T, n, FALSE)
  BY <1>2, <1>3, <1>4, <1>6 DEF OneMore
<1>. QED
  BY <1>7 DEF S, T

LEMMA OneMoreInFull ==
  ASSUME NEW A \in Seq(Nat), NEW B \in Seq(Nat), NEW n \in Nat, B # <<>>
  PROVE  OneMore(A \o B, A \o Append(Tail(B), n), n, TRUE)
<1>. DEFINE T == A \o Append(Tail(B), n)
            S == A \o B
<1>1. Append(Tail(B), n) \in Seq(Nat)
  OBVIOUS
<1>2. S \in Seq(Nat) /\ T \in Seq(Nat)
  BY <1>1
<1>3. PICK l \in Nat : l = Len(A)
  OBVIOUS
<1>4. /\ Len(T) = Len(S) /\ Len(S) > 0 /\ T[Len(T)] = n
      /\ \A i \in 1..Len(S) - 1 : T[i] = S[IF i <= Len(A) THEN i ELSE i + 1]
  BY SeenShifted
<1>. HIDE DEF S, T
<1>5. \A i \in 1..Len(S) - 1 : T[i] = S[Before(i, l)]
  BY <1>3, <1>4, Zenon DEF Before
<1>6. ASSUME NEW i \in 1..Len(T) - 1
      PROVE  Before(i, l) \in 1..Len(S) /\ T[i] = S[Before(i, l)]
  BY <1>2, <1>4, <1>5 DEF Before
<1>7. Shifts(S, T)
  BY <1>6, Zenon DEF Shifts
<1>8. OneMore(S, T, n, TRUE)
  BY <1>2, <1>4, <1>7 DEF OneMore
<1>. QED
  BY <1>8 DEF S, T

LEMMA DeliveredAtTheEnd ==
  ASSUME NEW A \in Seq(Nat), NEW B \in Seq(Nat), NEW n \in Nat, NEW full \in BOOLEAN,
         full => B # <<>>
  PROVE  OneMore(A \o B, A \o Append(IF full THEN Tail(B) ELSE B, n), n, full)
<1>1. CASE ~full
  <2>1. (IF full THEN Tail(B) ELSE B) = B /\ full = FALSE
    BY <1>1
  <2>. QED
    BY <2>1, OneMoreInRoom, Zenon
<1>2. CASE full
  <2>1. (IF full THEN Tail(B) ELSE B) = Tail(B) /\ full = TRUE /\ B # <<>>
    BY <1>2
  <2>. QED
    BY <2>1, OneMoreInFull, Zenon
<1>. QED
  BY <1>1, <1>2

\* What a delivery does to a subscription.
LEMMA SeenAfterDelivery ==
  ASSUME TypeOK, NEW n \in Nat, NEW kind \in Kinds, Deliver(n, kind), NEW s \in Subscribers
  PROVE  /\ Seen(s) \in Seq(Nat) /\ Seen(s)' \in Seq(Nat)
         /\ s \notin Reached(kind) => Seen(s)' = Seen(s) /\ dropped'[s] = dropped[s]
         /\ s \in Reached(kind) =>
              /\ Len(Seen(s)') > 0 /\ Seen(s)'[Len(Seen(s)')] = n
              /\ Len(Seen(s)') + dropped'[s] = Len(Seen(s)) + dropped[s] + 1
              /\ Shifts(Seen(s), Seen(s)')
<1>1. PICK A \in Seq(Nat), B \in Seq(Nat) : A = received[s] /\ B = queue[s]
  BY DEF TypeOK
<1>2. PICK d \in Nat : d = dropped[s]
  BY DEF TypeOK
<1>3. PICK full \in BOOLEAN : full <=> Full(s)
  OBVIOUS
<1>4. full => B # <<>>
  BY <1>1, <1>3, BusAssumption DEF Full
<1>5. Seen(s) = A \o B
  BY <1>1 DEF Seen
<1>6. CASE s \notin Reached(kind)
  <2>1. received'[s] = A /\ queue'[s] = B /\ dropped'[s] = dropped[s]
    BY <1>1, <1>6 DEF Deliver
  <2>2. Seen(s)' = A \o B
    BY <2>1 DEF Seen
  <2>. QED
    BY <1>5, <1>6, <2>1, <2>2
<1>7. CASE s \in Reached(kind)
  <2>1. /\ received'[s] = A /\ queue'[s] = Append(IF full THEN Tail(B) ELSE B, n)
        /\ dropped'[s] = IF full THEN d + 1 ELSE d
    BY <1>1, <1>2, <1>3, <1>7 DEF Deliver
  <2>2. Seen(s)' = A \o Append(IF full THEN Tail(B) ELSE B, n)
    BY <2>1 DEF Seen
  <2>3. OneMore(Seen(s), Seen(s)', n, full)
    BY <1>4, <1>5, <2>2, DeliveredAtTheEnd, Zenon
  <2>4. PICK S, T : S = Seen(s) /\ T = Seen(s)'
    OBVIOUS
  <2>5. OneMore(S, T, n, full)
    BY <2>3, <2>4, Zenon
  <2>6. Len(T) + dropped'[s] = Len(S) + d + 1
    BY <2>1, <2>5 DEF OneMore
  <2>. QED
    BY <1>2, <1>7, <2>4, <2>5, <2>6, Zenon DEF OneMore
<1>. QED
  BY <1>6, <1>7

\* A new event at the end keeps the events wanted and different.
LEMMA DeliverOnce ==
  ASSUME TypeOK, ReceivedOnce, NEW n \in Nat, NEW kind \in Kinds, Deliver(n, kind),
         n \in 1..Len(journal'), journal'[n] = kind,
         \A k \in 1..Len(journal) : k \in 1..Len(journal') /\ journal'[k] = journal[k],
         \A s \in Subscribers : \A i \in 1..Len(Seen(s)) : Seen(s)[i] # n
  PROVE  /\ ReceivedOnce'
         /\ \A s \in Subscribers : \A i \in 1..Len(Seen(s)') :
              \/ Seen(s)'[i] = n
              \/ \E k \in 1..Len(Seen(s)) : Seen(s)'[i] = Seen(s)[k]
<1>0. ASSUME NEW m \in 1..Len(journal), NEW s \in Subscribers, m \in Replay(0, Wanted[s])
      PROVE  m \in Replay(0, Wanted[s])'
  BY <1>0 DEF Replay
<1>1. ASSUME NEW s \in Subscribers
      PROVE  /\ \A i \in 1..Len(Seen(s)') : Seen(s)'[i] \in Replay(0, Wanted[s])'
             /\ \A i, j \in 1..Len(Seen(s)') : i < j => Seen(s)'[i] # Seen(s)'[j]
             /\ \A i \in 1..Len(Seen(s)') :
                  \/ Seen(s)'[i] = n
                  \/ \E k \in 1..Len(Seen(s)) : Seen(s)'[i] = Seen(s)[k]
  <2>. DEFINE S == Seen(s)
              T == Seen(s)'
  <2>1. /\ \A i \in 1..Len(S) : S[i] \in Replay(0, Wanted[s]) /\ S[i] # n
        /\ \A i, j \in 1..Len(S) : i < j => S[i] # S[j]
    BY DEF ReceivedOnce
  <2>2. \A i \in 1..Len(S) : S[i] \in Replay(0, Wanted[s])'
    BY <1>0, <2>1 DEF Replay
  <2>3. /\ S \in Seq(Nat) /\ T \in Seq(Nat)
        /\ s \notin Reached(kind) => T = S
        /\ s \in Reached(kind) =>
             /\ Len(T) > 0 /\ T[Len(T)] = n
             /\ Shifts(S, T)
    BY SeenAfterDelivery
  <2>4. Len(S) \in Nat /\ Len(T) \in Nat
    BY <2>3
  <2>5. CASE s \notin Reached(kind)
    BY <2>1, <2>2, <2>3, <2>5
  <2>6. CASE s \in Reached(kind)
    <3>1. PICK c \in Nat : \A i \in 1..Len(T) - 1 : Before(i, c) \in 1..Len(S) /\ T[i] = S[Before(i, c)]
      BY <2>3, <2>6 DEF Shifts
    <3>2. Len(T) > 0 /\ T[Len(T)] = n
      BY <2>3, <2>6
    <3>. HIDE DEF S, T
    <3>3. n \in Replay(0, Wanted[s])'
      BY <2>6 DEF Replay, Reached
    <3>4. ASSUME NEW i \in 1..Len(T)
          PROVE  T[i] \in Replay(0, Wanted[s])' /\ (T[i] = n \/ \E k \in 1..Len(S) : T[i] = S[k])
      <4>1. CASE i = Len(T)
        BY <3>2, <3>3, <4>1
      <4>2. CASE i # Len(T)
        <5>1. i \in 1..Len(T) - 1
          BY <2>4, <4>2
        <5>. QED
          BY <2>2, <3>1, <5>1
      <4>. QED
        BY <4>1, <4>2
    <3>5. ASSUME NEW i \in 1..Len(T), NEW j \in 1..Len(T), i < j
          PROVE  T[i] # T[j]
      <4>1. i \in 1..Len(T) - 1 /\ Before(i, c) \in 1..Len(S) /\ T[i] = S[Before(i, c)]
        BY <2>4, <3>1, <3>5
      <4>2. CASE j = Len(T)
        BY <2>1, <3>2, <4>1, <4>2
      <4>3. CASE j # Len(T)
        <5>1. Before(j, c) \in 1..Len(S) /\ T[j] = S[Before(j, c)]
          BY <2>4, <3>1, <4>3
        <5>2. Before(i, c) < Before(j, c)
          BY <3>5 DEF Before
        <5>. QED
          BY <2>1, <4>1, <5>1, <5>2
      <4>. QED
        BY <4>2, <4>3
    <3>. QED
      BY <3>4, <3>5 DEF S, T
  <2>. QED
    BY <2>5, <2>6
<1>. QED
  BY <1>1 DEF ReceivedOnce

-----------------------------------------------------------------------------
(* Once.                                                                   *)

\* Taking an event changes nothing of what was seen.
LEMMA TakeKeepsSeen ==
  ASSUME TypeOK, NEW s \in Subscribers, Take(s), NEW t \in Subscribers
  PROVE  Seen(t)' = Seen(t)
<1>1. PICK A \in Seq(Nat), B \in Seq(Nat) : A = received[t] /\ B = queue[t]
  BY DEF TypeOK
<1>2. CASE t = s
  <2>1. B # <<>> /\ received'[t] = Append(A, Head(B)) /\ queue'[t] = Tail(B)
    BY <1>1, <1>2 DEF Take, TypeOK
  <2>. QED
    BY <1>1, <2>1, SeenTaken DEF Seen
<1>3. CASE t # s
  BY <1>3 DEF Take, TypeOK, Seen
<1>. QED
  BY <1>2, <1>3

\* As long as the journal only grows and the rest stands still, what was received stays so.
LEMMA SeenOnce ==
  ASSUME ReceivedOnce, NEW s \in Subscribers, Seen(s)' = Seen(s) \/ Seen(s)' = <<>>,
         \A k \in 1..Len(journal) : k \in 1..Len(journal') /\ journal'[k] = journal[k]
  PROVE  /\ \A i \in 1..Len(Seen(s)') : Seen(s)'[i] \in Replay(0, Wanted[s])'
         /\ \A i, j \in 1..Len(Seen(s)') : i < j => Seen(s)'[i] # Seen(s)'[j]
<1>1. CASE Seen(s)' = Seen(s)
  <2>1. /\ \A i \in 1..Len(Seen(s)) : Seen(s)[i] \in Replay(0, Wanted[s])
        /\ \A i, j \in 1..Len(Seen(s)) : i < j => Seen(s)[i] # Seen(s)[j]
    BY DEF ReceivedOnce
  <2>2. \A m \in Replay(0, Wanted[s]) : m \in Replay(0, Wanted[s])'
    BY DEF Replay
  <2>. QED
    BY <1>1, <2>1, <2>2
<1>2. CASE Seen(s)' = <<>>
  <2>1. Len(<<>>) = 0
    OBVIOUS
  <2>. QED
    BY <1>2, <2>1
<1>. QED
  BY <1>1, <1>2

LEMMA SInvStep == ASSUME SInv, [Next]_vars PROVE SInv'
<1>0. TypeOK /\ AppendedOnce /\ Len(journal) \in Nat /\ IInv'
  BY InvStep DEF SInv, IInv, TypeOK
<1>. USE DEF SInv
<1>1. ASSUME NEW kind \in Kinds, PublishInMemory(kind)
      PROVE  ReceivedOnce' /\ PendingIsUnseen'
  <2>1. /\ journal' = Append(journal, kind) /\ Deliver(Len(journal) + 1, kind) /\ appended' = appended
        /\ Len(journal) + 1 \in Nat
    BY <1>0, <1>1 DEF PublishInMemory
  <2>2. /\ Len(journal') = Len(journal) + 1
        /\ Len(journal) + 1 \in 1..Len(journal') /\ journal'[Len(journal) + 1] = kind
        /\ \A k \in 1..Len(journal) : k \in 1..Len(journal') /\ journal'[k] = journal[k]
    BY <1>0, <2>1 DEF TypeOK
  <2>3. \A s \in Subscribers : \A i \in 1..Len(Seen(s)) : Seen(s)[i] # Len(journal) + 1
    BY <1>0 DEF ReceivedOnce, Replay
  <2>4. /\ ReceivedOnce'
        /\ \A s \in Subscribers : \A i \in 1..Len(Seen(s)') :
             \/ Seen(s)'[i] = Len(journal) + 1
             \/ \E k \in 1..Len(Seen(s)) : Seen(s)'[i] = Seen(s)[k]
    BY <1>0, <2>1, <2>2, <2>3, DeliverOnce
  <2>5. \A p \in Publishers : appended[p] # Len(journal) + 1
    BY <1>0 DEF AppendedOnce, TypeOK
  <2>6. PendingIsUnseen'
    BY <2>1, <2>4, <2>5 DEF PendingIsUnseen
  <2>. QED
    BY <2>4, <2>6
<1>2. ASSUME NEW p \in Publishers, NEW kind \in Kinds, AppendDurably(p, kind)
      PROVE  ReceivedOnce' /\ PendingIsUnseen'
  <2>1. /\ journal' = Append(journal, kind) /\ appended' = [appended EXCEPT ![p] = Len(journal) + 1]
        /\ UNCHANGED <<received, queue>>
    BY <1>2 DEF AppendDurably, subscription
  <2>2. \A k \in 1..Len(journal) : k \in 1..Len(journal') /\ journal'[k] = journal[k]
    BY <1>0, <2>1 DEF TypeOK
  <2>3. \A s \in Subscribers : Seen(s)' = Seen(s)
    BY <2>1 DEF Seen
  <2>4. ReceivedOnce'
    BY <2>2, <2>3, SeenOnce DEF ReceivedOnce
  <2>5. \A s \in Subscribers : \A i \in 1..Len(Seen(s)) : Seen(s)[i] # Len(journal) + 1
    BY <1>0 DEF ReceivedOnce, Replay
  <2>6. PendingIsUnseen'
    BY <1>0, <2>1, <2>3, <2>5 DEF PendingIsUnseen, TypeOK
  <2>. QED
    BY <2>4, <2>6
<1>3. ASSUME NEW p \in Publishers, DeliverAppended(p)
      PROVE  ReceivedOnce' /\ PendingIsUnseen'
  <2>1. /\ appended[p] # 0 /\ Deliver(appended[p], journal[appended[p]])
        /\ appended' = [appended EXCEPT ![p] = 0] /\ journal' = journal
    BY <1>3 DEF DeliverAppended
  <2>2. PICK n \in Nat, kind \in Kinds : n = appended[p] /\ kind = journal[n] /\ n \in 1..Len(journal)
    <3>1. appended[p] \in Nat /\ appended[p] <= Len(journal)
      BY <1>0 DEF TypeOK, AppendedOnce
    <3>2. appended[p] \in 1..Len(journal)
      BY <1>0, <2>1, <3>1
    <3>3. journal[appended[p]] \in Kinds
      BY <1>0, <3>2 DEF TypeOK
    <3>. QED
      BY <3>1, <3>2, <3>3
  <2>3. Deliver(n, kind)
    BY <2>1, <2>2
  <2>4. \A s \in Subscribers : \A i \in 1..Len(Seen(s)) : Seen(s)[i] # n
    BY <2>1, <2>2 DEF PendingIsUnseen
  <2>5. /\ ReceivedOnce'
        /\ \A s \in Subscribers : \A i \in 1..Len(Seen(s)') :
             \/ Seen(s)'[i] = n
             \/ \E k \in 1..Len(Seen(s)) : Seen(s)'[i] = Seen(s)[k]
    <3>1. /\ n \in 1..Len(journal') /\ journal'[n] = kind
          /\ \A k \in 1..Len(journal) : k \in 1..Len(journal') /\ journal'[k] = journal[k]
      BY <2>1, <2>2
    <3>. QED
      BY <1>0, <2>3, <2>4, <3>1, DeliverOnce
  <2>6. \A q \in Publishers : appended'[q] # 0 => appended'[q] = appended[q] /\ appended[q] # n
    BY <1>0, <2>1, <2>2 DEF AppendedOnce, TypeOK
  <2>7. PendingIsUnseen'
    BY <2>5, <2>6 DEF PendingIsUnseen
  <2>. QED
    BY <2>5, <2>7
<1>4. ASSUME journal' = journal, appended' = appended \/ \A p \in Publishers : appended'[p] \in {0, appended[p]},
             \A s \in Subscribers : Seen(s)' = Seen(s) \/ Seen(s)' = <<>>
      PROVE  ReceivedOnce' /\ PendingIsUnseen'
  <2>1. ReceivedOnce'
    BY <1>4, SeenOnce DEF ReceivedOnce
  <2>2. Len(<<>>) = 0
    OBVIOUS
  <2>3. ASSUME NEW s \in Subscribers, NEW p \in Publishers, appended'[p] # 0, NEW i \in 1..Len(Seen(s)')
        PROVE  Seen(s)'[i] # appended'[p]
    <3>1. appended'[p] = appended[p] /\ Seen(s)' = Seen(s)
      BY <1>4, <2>2, <2>3
    <3>. QED
      BY <2>3, <3>1 DEF PendingIsUnseen
  <2>. QED
    BY <2>1, <2>3 DEF PendingIsUnseen
<1>5. ASSUME NEW p \in Publishers, Abandon(p)
      PROVE  ReceivedOnce' /\ PendingIsUnseen'
  <2>1. /\ journal' = journal /\ UNCHANGED <<received, queue>>
        /\ \A q \in Publishers : appended'[q] \in {0, appended[q]}
    BY <1>0, <1>5 DEF Abandon, subscription, TypeOK
  <2>. QED
    BY <1>4, <2>1 DEF Seen
<1>6. ASSUME NEW s \in Subscribers, Subscribe(s) \/ Close(s) \/ GetEnds(s) \/ GetWaits(s)
      PROVE  ReceivedOnce' /\ PendingIsUnseen'
  <2>1. UNCHANGED <<journal, appended, received, queue>>
    BY <1>6 DEF Subscribe, Close, GetEnds, GetWaits
  <2>. QED
    BY <1>4, <2>1 DEF Seen
<1>7. ASSUME NEW s \in Subscribers, GetTakes(s) \/ Wake(s)
      PROVE  ReceivedOnce' /\ PendingIsUnseen'
  <2>1. UNCHANGED <<journal, appended>> /\ Take(s)
    BY <1>7 DEF GetTakes, Wake
  <2>2. \A t \in Subscribers : Seen(t)' = Seen(t)
    BY <1>0, <2>1, TakeKeepsSeen
  <2>. QED
    BY <1>4, <2>1, <2>2
<1>8. CASE Restart
  <2>1. <<>> \o <<>> = <<>>
    OBVIOUS
  <2>2. \A s \in Subscribers : Seen(s)' = <<>>
    BY <1>8, <2>1 DEF Restart, Seen
  <2>3. journal' = journal /\ \A p \in Publishers : appended'[p] \in {0, appended[p]}
    BY <1>8 DEF Restart
  <2>. QED
    BY <1>0, <1>4, <2>2, <2>3
<1>9. CASE UNCHANGED vars
  <2>1. UNCHANGED <<journal, appended, received, queue>>
    BY <1>9 DEF vars, subscription
  <2>. QED
    BY <1>0, <1>4, <2>1 DEF Seen
<1>. QED
  BY <1>0, <1>1, <1>2, <1>3, <1>5, <1>6, <1>7, <1>8, <1>9 DEF Next

(***************************************************************************)
(* Whatever publishers overtake each other and whatever is lost from full  *)
(* buffers: a subscription gets only events it asked for, each once.       *)
(***************************************************************************)
THEOREM EventsAreReceivedOnce == Spec => []ReceivedOnce
<1>1. Init => SInv
  <2>1. <<>> \o <<>> = <<>> /\ Len(<<>>) = 0
    OBVIOUS
  <2>2. Init => \A s \in Subscribers : Seen(s) = <<>>
    BY <2>1 DEF Init, Seen
  <2>. QED
    BY <2>1, <2>2, InvInit DEF SInv, ReceivedOnce, PendingIsUnseen
<1>2. SInv /\ [Next]_vars => SInv'
  BY SInvStep
<1>3. SInv => ReceivedOnce
  BY DEF SInv
<1>. QED
  BY <1>1, <1>2, <1>3, PTL DEF Spec

-----------------------------------------------------------------------------
(* In order, and counted: with the journal in memory.                      *)

MemoryDeliversAtOnce == ~durable => \A p \in Publishers : appended[p] = 0

SinceIsPast == \A s \in Subscribers : since[s] <= Len(journal)

InOrder ==
  ~durable => \A s \in Subscribers : \A i, j \in 1..Len(Seen(s)) : i < j => Seen(s)[i] < Seen(s)[j]

\* What a subscription should have been offered up to the last event it has seen.
Due(s) ==
  IF Seen(s) = <<>> THEN {}
  ELSE {n \in Replay(since[s], Wanted[s]) : n <= Seen(s)[Len(Seen(s))]}

\* An open subscription has seen the last event it should, so there is nothing behind it.
MissingIsCounted ==
  ~durable => \A s \in Subscribers :
    /\ Cardinality(Due(s)) = Len(Seen(s)) + dropped[s]
    /\ status[s] = "open" => Due(s) = Replay(since[s], Wanted[s])

OInv == SInv /\ MemoryDeliversAtOnce /\ SinceIsPast /\ InOrder /\ MissingIsCounted

LEMMA DueIsFinite ==
  ASSUME TypeOK, NEW s \in Subscribers
  PROVE  IsFiniteSet(Due(s)) /\ Due(s) \subseteq 1..Len(journal)
<1>1. Due(s) \subseteq 1..Len(journal)
  BY DEF Due, Replay
<1>2. Len(journal) \in Nat
  BY DEF TypeOK
<1>3. IsFiniteSet(1..Len(journal))
  BY <1>2, FS_Interval
<1>. QED
  BY <1>1, <1>3, FS_Subset

\* The sequence of what was seen, and its bounds.
LEMMA SeenBounds ==
  ASSUME SInv, NEW s \in Subscribers
  PROVE  /\ Seen(s) \in Seq(Nat) /\ Len(Seen(s)) \in Nat /\ Len(journal) \in Nat
         /\ \A i \in 1..Len(Seen(s)) : Seen(s)[i] \in 1..Len(journal)
         /\ Seen(s) # <<>> => Seen(s)[Len(Seen(s))] \in 1..Len(journal)
<1>1. PICK A \in Seq(Nat), B \in Seq(Nat) : A = received[s] /\ B = queue[s]
  BY DEF SInv, IInv, TypeOK
<1>2. A \o B \in Seq(Nat) /\ Len(A \o B) \in Nat /\ (A \o B # <<>> => Len(A \o B) \in 1..Len(A \o B))
  OBVIOUS
<1>3. Seen(s) = A \o B
  BY <1>1 DEF Seen
<1>4. \A i \in 1..Len(Seen(s)) : Seen(s)[i] \in 1..Len(journal)
  BY DEF SInv, ReceivedOnce, Replay
<1>5. Len(journal) \in Nat
  BY DEF SInv, IInv, TypeOK
<1>. QED
  BY <1>2, <1>3, <1>4, <1>5

\* A subscription that is not offered anything, though others may be.
LEMMA NothingOffered ==
  ASSUME SInv, NEW s \in Subscribers, Seen(s)' = Seen(s), since'[s] = since[s],
         \/ journal' = journal
         \/ /\ \E kind \in Kinds : journal' = Append(journal, kind) /\ (status[s] = "open" => kind \notin Wanted[s])
            /\ status[s] = "open" => Due(s) = Replay(since[s], Wanted[s])
  PROVE  /\ Due(s)' = Due(s)
         /\ status[s] = "open" /\ Due(s) = Replay(since[s], Wanted[s]) => Due(s)' = Replay(since[s], Wanted[s])'
<1>1. CASE journal' = journal
  BY <1>1 DEF Due, Replay
<1>2. CASE journal' # journal
  <2>1. PICK kind \in Kinds : journal' = Append(journal, kind) /\ (status[s] = "open" => kind \notin Wanted[s])
    BY <1>2
  <2>2. /\ Len(journal') = Len(journal) + 1 /\ journal'[Len(journal) + 1] = kind
        /\ \A k \in 1..Len(journal) : journal'[k] = journal[k]
        /\ Len(journal) \in Nat
    BY <2>1 DEF SInv, IInv, TypeOK
  <2>3. Due(s)' = Due(s)
    <3>1. CASE Seen(s) = <<>>
      BY <3>1 DEF Due
    <3>2. CASE Seen(s) # <<>>
      <4>1. PICK last \in 1..Len(journal) : last = Seen(s)[Len(Seen(s))]
        BY <3>2, SeenBounds
      <4>2. Due(s) = {n \in 1..Len(journal) : n > since[s] /\ journal[n] \in Wanted[s] /\ n <= last}
        BY <3>2, <4>1 DEF Due, Replay
      <4>3. Due(s)' = {n \in 1..Len(journal') : n > since[s] /\ journal'[n] \in Wanted[s] /\ n <= last}
        BY <3>2, <4>1 DEF Due, Replay
      <4>. QED
        BY <2>2, <4>2, <4>3
    <3>. QED
      BY <3>1, <3>2
  <2>4. ASSUME status[s] = "open"
        PROVE  Replay(since[s], Wanted[s])' = Replay(since[s], Wanted[s])
    BY <2>1, <2>2, <2>4 DEF Replay
  <2>. QED
    BY <2>3, <2>4
<1>. QED
  BY <1>1, <1>2

LEMMA OrderStep ==
  ASSUME OInv, ~durable, NEW kind \in Kinds, PublishInMemory(kind), NEW s \in Subscribers
  PROVE  /\ \A i, j \in 1..Len(Seen(s)') : i < j => Seen(s)'[i] < Seen(s)'[j]
         /\ Cardinality(Due(s)') = Len(Seen(s)') + dropped'[s]
         /\ status'[s] = "open" => Due(s)' = Replay(since[s], Wanted[s])'
<1>1. /\ SInv /\ TypeOK /\ Len(journal) \in Nat
      /\ Cardinality(Due(s)) = Len(Seen(s)) + dropped[s]
      /\ status[s] = "open" => Due(s) = Replay(since[s], Wanted[s])
      /\ since[s] \in Nat /\ since[s] <= Len(journal)
      /\ \A i, j \in 1..Len(Seen(s)) : i < j => Seen(s)[i] < Seen(s)[j]
  BY DEF OInv, SInv, IInv, TypeOK, MissingIsCounted, SinceIsPast, InOrder
<1>0. PICK m \in Nat : m = Len(journal) + 1
  BY <1>1
<1>2. /\ journal' = Append(journal, kind) /\ Deliver(m, kind)
      /\ status' = status /\ since' = since
  BY <1>1, <1>0 DEF PublishInMemory, Deliver
<1>3. /\ Len(journal') = m /\ journal'[m] = kind
      /\ \A k \in 1..Len(journal) : journal'[k] = journal[k]
  BY <1>1, <1>0, <1>2 DEF TypeOK
<1>. DEFINE Goal ==
       /\ \A i, j \in 1..Len(Seen(s)') : i < j => Seen(s)'[i] < Seen(s)'[j]
       /\ Cardinality(Due(s)') = Len(Seen(s)') + dropped'[s]
       /\ status'[s] = "open" => Due(s)' = Replay(since[s], Wanted[s])'
<1>4. ASSUME s \notin Reached(kind)
      PROVE  Goal
  <2>1. Seen(s)' = Seen(s) /\ dropped'[s] = dropped[s]
    BY <1>1, <1>2, <1>4, SeenAfterDelivery
  <2>2. status[s] = "open" => kind \notin Wanted[s]
    BY <1>4 DEF Reached
  <2>3. /\ Due(s)' = Due(s)
        /\ status[s] = "open" /\ Due(s) = Replay(since[s], Wanted[s]) => Due(s)' = Replay(since[s], Wanted[s])'
    BY <1>1, <1>2, <2>1, <2>2, NothingOffered
  <2>. QED
    BY <1>1, <1>2, <2>1, <2>3
<1>5. ASSUME s \in Reached(kind)
      PROVE  Goal
  <2>1. status[s] = "open" /\ kind \in Wanted[s]
    BY <1>5 DEF Reached
  <2>2. PICK S, T : S = Seen(s) /\ T = Seen(s)'
    OBVIOUS
  <2>3. /\ S \in Seq(Nat) /\ T \in Seq(Nat) /\ Len(T) > 0 /\ T[Len(T)] = m
        /\ Len(T) + dropped'[s] = Len(S) + dropped[s] + 1
        /\ Shifts(S, T)
    <3>1. TypeOK /\ Deliver(m, kind)
      BY <1>1, <1>2
    <3>2. Seen(s) \in Seq(Nat) /\ Seen(s)' \in Seq(Nat) /\ Len(Seen(s)') > 0 /\ Seen(s)'[Len(Seen(s)')] = m
      BY <1>5, <3>1, SeenAfterDelivery
    <3>3. Len(Seen(s)') + dropped'[s] = Len(Seen(s)) + dropped[s] + 1
      BY <1>5, <3>1, SeenAfterDelivery
    <3>4. Shifts(Seen(s), Seen(s)')
      BY <1>5, <3>1, SeenAfterDelivery
    <3>. QED
      BY <2>2, <3>2, <3>3, <3>4, Zenon
  <2>4. Len(T) \in Nat /\ Len(S) \in Nat
    BY <2>3
  <2>5. PICK c \in Nat : \A i \in 1..Len(T) - 1 : Before(i, c) \in 1..Len(S) /\ T[i] = S[Before(i, c)]
    BY <2>3 DEF Shifts
  <2>6. \A i \in 1..Len(S) : S[i] \in 1..Len(journal)
    BY <1>1, <2>2, SeenBounds
  <2>7. ASSUME NEW i \in 1..Len(T), NEW j \in 1..Len(T), i < j
        PROVE  T[i] < T[j]
    <3>1. i \in 1..Len(T) - 1 /\ Before(i, c) \in 1..Len(S) /\ T[i] = S[Before(i, c)]
      BY <2>4, <2>5, <2>7
    <3>2. CASE j = Len(T)
      BY <1>1, <1>0, <2>3, <2>6, <3>1, <3>2
    <3>3. CASE j # Len(T)
      <4>1. Before(j, c) \in 1..Len(S) /\ T[j] = S[Before(j, c)]
        BY <2>4, <2>5, <3>3
      <4>2. Before(i, c) < Before(j, c)
        BY <2>7 DEF Before
      <4>. QED
        BY <1>1, <2>2, <3>1, <4>1, <4>2
    <3>. QED
      BY <3>2, <3>3
  <2>8. T # <<>>
    BY <2>3
  <2>9. Due(s)' = Due(s) \cup {m} /\ Due(s)' = Replay(since[s], Wanted[s])'
    <3>1. Due(s) = {n \in 1..Len(journal) : n > since[s] /\ journal[n] \in Wanted[s]}
      BY <1>1, <2>1 DEF Replay
    <3>2. Replay(since[s], Wanted[s])' = {n \in 1..m : n > since[s] /\ journal'[n] \in Wanted[s]}
      BY <1>2, <1>3 DEF Replay
    <3>3. Due(s)' = {n \in Replay(since[s], Wanted[s])' : n <= m}
      BY <2>2, <2>3, <2>8 DEF Due
    <3>4. Due(s)' = Replay(since[s], Wanted[s])'
      BY <1>1, <1>0, <3>2, <3>3
    <3>5. Replay(since[s], Wanted[s])' = Due(s) \cup {m}
      BY <1>1, <1>0, <1>3, <2>1, <3>1, <3>2
    <3>. QED
      BY <3>4, <3>5
  <2>10. Cardinality(Due(s) \cup {m}) = Cardinality(Due(s)) + 1
    <3>1. IsFiniteSet(Due(s)) /\ m \notin Due(s)
      BY <1>1, <1>0, DueIsFinite
    <3>. QED
      BY <3>1, FS_AddElement
  <2>11. Cardinality(Due(s)') = Len(T) + dropped'[s]
    BY <1>1, <2>2, <2>3, <2>9, <2>10
  <2>. QED
    BY <2>2, <2>7, <2>9, <2>11, Zenon
<1>. HIDE DEF Goal
<1>6. Goal
  BY <1>4, <1>5
<1>. QED
  BY <1>6 DEF Goal

LEMMA OInvStep == ASSUME OInv, [Next]_vars PROVE OInv'
<1>0. /\ SInv /\ SInv' /\ TypeOK /\ Len(journal) \in Nat
      /\ MemoryDeliversAtOnce /\ SinceIsPast /\ InOrder /\ MissingIsCounted
  <2>1. SInv /\ TypeOK /\ MemoryDeliversAtOnce /\ SinceIsPast /\ InOrder /\ MissingIsCounted
    BY DEF OInv, SInv, IInv
  <2>2. SInv'
    BY <2>1, SInvStep
  <2>3. Len(journal) \in Nat
    BY <2>1 DEF TypeOK
  <2>. QED
    BY <2>1, <2>2, <2>3
<1>1. ASSUME NEW kind \in Kinds, PublishInMemory(kind)
      PROVE  OInv'
  <2>1. /\ ~durable /\ durable' = durable /\ journal' = Append(journal, kind)
        /\ appended' = appended /\ since' = since
    BY <1>1 DEF PublishInMemory, Deliver
  <2>2. Len(journal') = Len(journal) + 1
    BY <1>0, <2>1 DEF TypeOK
  <2>3. MemoryDeliversAtOnce' /\ SinceIsPast'
    BY <1>0, <2>1, <2>2 DEF MemoryDeliversAtOnce, SinceIsPast, TypeOK
  <2>4. \A s \in Subscribers :
          /\ \A i, j \in 1..Len(Seen(s)') : i < j => Seen(s)'[i] < Seen(s)'[j]
          /\ Cardinality(Due(s)') = Len(Seen(s)') + dropped'[s]
          /\ status'[s] = "open" => Due(s)' = Replay(since[s], Wanted[s])'
    BY <1>1, <2>1, OrderStep
  <2>5. InOrder' /\ MissingIsCounted'
    BY <2>4 DEF InOrder, MissingIsCounted
  <2>. QED
    BY <1>0, <2>3, <2>5 DEF OInv
<1>2. ASSUME durable, durable' = durable, SinceIsPast'
      PROVE  OInv'
  BY <1>0, <1>2 DEF OInv, MemoryDeliversAtOnce, InOrder, MissingIsCounted
<1>3. ASSUME NEW p \in Publishers, NEW kind \in Kinds, AppendDurably(p, kind)
      PROVE  OInv'
  <2>1. durable /\ durable' = durable /\ journal' = Append(journal, kind) /\ since' = since
    BY <1>3 DEF AppendDurably, subscription
  <2>2. Len(journal') = Len(journal) + 1
    BY <1>0, <2>1 DEF TypeOK
  <2>3. SinceIsPast'
    BY <1>0, <2>1, <2>2 DEF SinceIsPast, TypeOK
  <2>. QED
    BY <1>2, <2>1, <2>3
<1>4. ASSUME NEW p \in Publishers, DeliverAppended(p) \/ Abandon(p)
      PROVE  OInv'
  <2>1. appended[p] # 0 /\ durable' = durable /\ journal' = journal /\ since' = since
    BY <1>4 DEF DeliverAppended, Abandon, Deliver, subscription
  <2>2. durable
    BY <1>0, <2>1 DEF MemoryDeliversAtOnce
  <2>3. SinceIsPast'
    BY <1>0, <2>1 DEF SinceIsPast
  <2>. QED
    BY <1>2, <2>1, <2>2, <2>3
<1>5. CASE Restart
  <2>1. durable /\ durable' = durable /\ SinceIsPast'
    BY <1>0, <1>5 DEF Restart, SinceIsPast
  <2>. QED
    BY <1>2, <2>1
<1>6. ASSUME NEW s \in Subscribers, Subscribe(s)
      PROVE  OInv'
  <2>1. /\ UNCHANGED <<durable, journal, appended, queue, dropped, received>>
        /\ since' = [since EXCEPT ![s] = Len(journal)] /\ status' = [status EXCEPT ![s] = "open"]
        /\ status[s] = "absent"
    BY <1>6 DEF Subscribe
  <2>2. MemoryDeliversAtOnce' /\ SinceIsPast'
    BY <1>0, <2>1 DEF MemoryDeliversAtOnce, SinceIsPast, TypeOK
  <2>3. \A t \in Subscribers : Seen(t)' = Seen(t)
    BY <2>1 DEF Seen
  <2>4. InOrder'
    BY <1>0, <2>1, <2>3 DEF InOrder
  <2>5. ASSUME ~durable, NEW t \in Subscribers
        PROVE  /\ Cardinality(Due(t)') = Len(Seen(t)') + dropped'[t]
               /\ status'[t] = "open" => Due(t)' = Replay(since[t], Wanted[t])'
    <3>1. CASE t = s
      <4>1. <<>> \o <<>> = <<>>
        OBVIOUS
      <4>2. Seen(s) = <<>>
        BY <1>0, <2>1, <4>1 DEF SInv, IInv, AbsentHasNothing, Seen
      <4>3. Due(s) = {} /\ Due(s)' = {}
        BY <2>3, <4>2 DEF Due
      <4>4. Replay(since[s], Wanted[s])' = {}
        BY <1>0, <2>1 DEF Replay, TypeOK
      <4>5. Cardinality(Due(s)) = Len(Seen(s)) + dropped[s]
        BY <1>0, <2>5 DEF MissingIsCounted
      <4>. QED
        BY <2>1, <2>3, <3>1, <4>3, <4>4, <4>5
    <3>2. CASE t # s
      <4>1. since'[t] = since[t] /\ status'[t] = status[t]
        BY <1>0, <2>1, <3>2 DEF TypeOK
      <4>2. /\ Due(t)' = Due(t)
            /\ status[t] = "open" /\ Due(t) = Replay(since[t], Wanted[t]) => Due(t)' = Replay(since[t], Wanted[t])'
        BY <1>0, <2>1, <2>3, <4>1, NothingOffered
      <4>3. /\ Cardinality(Due(t)) = Len(Seen(t)) + dropped[t]
            /\ status[t] = "open" => Due(t) = Replay(since[t], Wanted[t])
        BY <1>0, <2>5 DEF MissingIsCounted
      <4>. QED
        BY <2>1, <2>3, <4>1, <4>2, <4>3
    <3>. QED
      BY <3>1, <3>2
  <2>6. MissingIsCounted'
    BY <2>1, <2>5 DEF MissingIsCounted
  <2>. QED
    BY <1>0, <2>2, <2>4, <2>6 DEF OInv
<1>7. ASSUME UNCHANGED <<durable, journal, appended, since, dropped>>,
             \A t \in Subscribers : Seen(t)' = Seen(t),
             \A t \in Subscribers : status'[t] = "open" => status[t] = "open"
      PROVE  OInv'
  <2>1. MemoryDeliversAtOnce' /\ SinceIsPast' /\ InOrder'
    BY <1>0, <1>7 DEF MemoryDeliversAtOnce, SinceIsPast, InOrder
  <2>2. ASSUME NEW t \in Subscribers
        PROVE  /\ Due(t)' = Due(t)
               /\ status[t] = "open" /\ Due(t) = Replay(since[t], Wanted[t]) => Due(t)' = Replay(since[t], Wanted[t])'
    BY <1>0, <1>7, NothingOffered
  <2>3. MissingIsCounted'
    BY <1>0, <1>7, <2>2 DEF MissingIsCounted
  <2>. QED
    BY <1>0, <2>1, <2>3 DEF OInv
<1>8. ASSUME NEW s \in Subscribers, Close(s) \/ GetEnds(s) \/ GetWaits(s)
      PROVE  OInv'
  <2>1. /\ UNCHANGED <<durable, journal, appended, since, dropped, received, queue>>
        /\ \A t \in Subscribers : status'[t] = "open" => status[t] = "open"
    BY <1>0, <1>8 DEF Close, GetEnds, GetWaits, TypeOK
  <2>2. \A t \in Subscribers : Seen(t)' = Seen(t)
    BY <2>1 DEF Seen
  <2>. QED
    BY <1>7, <2>1, <2>2
<1>9. ASSUME NEW s \in Subscribers, GetTakes(s) \/ Wake(s)
      PROVE  OInv'
  <2>1. UNCHANGED <<durable, journal, appended, status, since, dropped>> /\ Take(s)
    BY <1>9 DEF GetTakes, Wake
  <2>2. \A t \in Subscribers : Seen(t)' = Seen(t)
    BY <1>0, <2>1, TakeKeepsSeen
  <2>. QED
    BY <1>7, <2>1, <2>2
<1>10. CASE UNCHANGED vars
  <2>1. UNCHANGED <<durable, journal, appended, status, since, dropped, received, queue>>
    BY <1>10 DEF vars, subscription
  <2>2. \A t \in Subscribers : Seen(t)' = Seen(t)
    BY <2>1 DEF Seen
  <2>. QED
    BY <1>7, <2>1, <2>2
<1>. QED
  BY <1>1, <1>3, <1>4, <1>5, <1>6, <1>8, <1>9, <1>10 DEF Next

\* What is due up to the last event seen, as the property counts it.
LEMMA ResumeFromOrder == ASSUME OInv PROVE ResumeLosesNothing
<1>1. SUFFICES ASSUME NEW s \in Subscribers, ~durable, Seen(s) # <<>>
               PROVE  /\ \A i \in 2..Len(Seen(s)) : Seen(s)[i - 1] < Seen(s)[i]
                      /\ Cardinality(Replay(since[s], Wanted[s]) \ Replay(Seen(s)[Len(Seen(s))], Wanted[s]))
                           = Len(Seen(s)) + dropped[s]
  BY DEF ResumeLosesNothing
<1>2. Len(Seen(s)) \in Nat /\ Len(journal) \in Nat /\ Seen(s)[Len(Seen(s))] \in 1..Len(journal)
  BY <1>1, SeenBounds DEF OInv
<1>3. \A i, j \in 1..Len(Seen(s)) : i < j => Seen(s)[i] < Seen(s)[j]
  BY <1>1 DEF OInv, InOrder
<1>4. \A i \in 2..Len(Seen(s)) : Seen(s)[i - 1] < Seen(s)[i]
  <2>1. TAKE i \in 2..Len(Seen(s))
  <2>2. i - 1 \in 1..Len(Seen(s)) /\ i \in 1..Len(Seen(s)) /\ i - 1 < i
    BY <1>2
  <2>. QED
    BY <1>3, <2>2
<1>5. Due(s) = Replay(since[s], Wanted[s]) \ Replay(Seen(s)[Len(Seen(s))], Wanted[s])
  BY <1>1, <1>2 DEF Due, Replay
<1>6. Cardinality(Due(s)) = Len(Seen(s)) + dropped[s]
  BY <1>1 DEF OInv, MissingIsCounted
<1>. QED
  BY <1>4, <1>5, <1>6

(***************************************************************************)
(* With the journal in memory a client sees events in the order of the     *)
(* journal, and dropped_events says how many it has missed up to the last. *)
(***************************************************************************)
THEOREM ResumingIsSafe == Spec => []ResumeLosesNothing
<1>1. Init => OInv
  <2>1. <<>> \o <<>> = <<>> /\ Len(<<>>) = 0 /\ Cardinality({}) = 0
    BY FS_EmptySet
  <2>2. Init => \A s \in Subscribers : Seen(s) = <<>> /\ Due(s) = {}
    BY <2>1 DEF Init, Seen, Due
  <2>3. Init => SInv
    BY <2>1, <2>2, InvInit DEF SInv, ReceivedOnce, PendingIsUnseen
  <2>4. Init => MemoryDeliversAtOnce /\ SinceIsPast /\ InOrder
    BY <2>1, <2>2 DEF Init, MemoryDeliversAtOnce, SinceIsPast, InOrder
  <2>5. ASSUME Init
        PROVE  MissingIsCounted
    <3>1. \A s \in Subscribers : Cardinality(Due(s)) = 0 /\ Len(Seen(s)) = 0
      BY <2>1, <2>2, <2>5
    <3>2. \A s \in Subscribers : dropped[s] = 0 /\ status[s] = "absent"
      BY <2>5 DEF Init
    <3>. QED
      BY <3>1, <3>2 DEF MissingIsCounted
  <2>. QED
    BY <2>3, <2>4, <2>5 DEF OInv
<1>2. OInv /\ [Next]_vars => OInv'
  BY OInvStep
<1>3. OInv => ResumeLosesNothing
  BY ResumeFromOrder
<1>. QED
  BY <1>1, <1>2, <1>3, PTL DEF Spec

=============================================================================
