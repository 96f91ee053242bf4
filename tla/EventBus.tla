------------------------------- MODULE EventBus -------------------------------
(***************************************************************************)
(* The event bus and its journals (src/comfyng/events/bus.py, journal.py). *)
(*                                                                         *)
(* publish() appends to the journal and then delivers to the subscriptions *)
(* there are.  With the journal in memory nothing in between suspends the  *)
(* coroutine.  With the SQLite journal the event is committed by the       *)
(* connection's thread, and the coroutine goes on when the connection is   *)
(* closed: publishers overtake each other, subscriptions come and go, and  *)
(* a publisher can be cancelled there.  Delivery itself does not suspend.  *)
(*                                                                         *)
(* An event is its position in the journal; its job and type are its kind. *)
(***************************************************************************)
EXTENDS Naturals, Sequences, FiniteSets

CONSTANTS
  Publishers,     \* coroutines that publish
  Subscribers,    \* subscriptions, each with one consumer
  Kinds,          \* events' jobs and types
  SystemKinds,    \* those without a job
  Wanted,         \* the kinds each subscription's filter matches
  Buffer,         \* max_buffer of the subscriptions
  MaxEvents       \* bound: events in the journal

ASSUME BusAssumption ==
  /\ SystemKinds \subseteq Kinds
  /\ Wanted \in [Subscribers -> SUBSET Kinds]
  /\ Buffer \in Nat \ {0} /\ MaxEvents \in Nat

VARIABLES
  durable,     \* whether the journal is the SQLite one
  journal,     \* kinds of the events appended
  appended,    \* per publisher the event it has yet to deliver, or 0
  status,      \* of each subscription
  since,       \* the journal's length when it subscribed
  queue,       \* its buffered events
  dropped,     \* dropped_events
  consumer,    \* what its consumer does
  received     \* the events its consumer has got, in order

subscription == <<status, since, queue, dropped, consumer, received>>
vars == <<durable, journal, appended, subscription>>

TypeOK ==
  /\ durable \in BOOLEAN
  /\ journal \in Seq(Kinds)
  /\ appended \in [Publishers -> Nat]
  /\ status \in [Subscribers -> {"absent", "open", "closed"}]
  /\ since \in [Subscribers -> Nat]
  /\ queue \in [Subscribers -> Seq(Nat)]
  /\ dropped \in [Subscribers -> Nat]
  /\ consumer \in [Subscribers -> {"idle", "waiting", "ended"}]
  /\ received \in [Subscribers -> Seq(Nat)]

Init ==
  /\ durable \in BOOLEAN
  /\ journal = <<>>
  /\ appended = [p \in Publishers |-> 0]
  /\ status = [s \in Subscribers |-> "absent"]
  /\ since = [s \in Subscribers |-> 0]
  /\ queue = [s \in Subscribers |-> <<>>]
  /\ dropped = [s \in Subscribers |-> 0]
  /\ consumer = [s \in Subscribers |-> "idle"]
  /\ received = [s \in Subscribers |-> <<>>]

-----------------------------------------------------------------------------
(* publish()                                                               *)

Reached(kind) == {s \in Subscribers : status[s] = "open" /\ kind \in Wanted[s]}
Full(s) == Len(queue[s]) >= Buffer

\* Mutant: the oldest event makes room without being counted.
DeliverUncounted(n, kind) ==
  /\ queue' = [s \in Subscribers |->
       IF s \notin Reached(kind) THEN queue[s]
       ELSE Append(IF Full(s) THEN Tail(queue[s]) ELSE queue[s], n)]
  /\ UNCHANGED <<dropped, status, since, consumer, received>>

\* Mutant: a full buffer refuses the new event.
DeliverUnlessFull(n, kind) ==
  /\ queue' = [s \in Subscribers |->
       IF s \in Reached(kind) /\ ~Full(s) THEN Append(queue[s], n) ELSE queue[s]]
  /\ dropped' = [s \in Subscribers |-> IF s \in Reached(kind) /\ Full(s) THEN dropped[s] + 1 ELSE dropped[s]]
  /\ UNCHANGED <<status, since, consumer, received>>

Deliver(n, kind) ==
  /\ queue' = [s \in Subscribers |->
       IF s \notin Reached(kind) THEN queue[s]
       ELSE Append(IF Full(s) THEN Tail(queue[s]) ELSE queue[s], n)]
  /\ dropped' = [s \in Subscribers |-> IF s \in Reached(kind) /\ Full(s) THEN dropped[s] + 1 ELSE dropped[s]]
  /\ UNCHANGED <<status, since, consumer, received>>

PublishInMemory(kind) ==
  /\ ~durable /\ Len(journal) < MaxEvents
  /\ journal' = Append(journal, kind)
  /\ Deliver(Len(journal) + 1, kind)
  /\ UNCHANGED <<durable, appended>>

(* The transaction commits; the SQLite journal takes events of jobs only.  *)
AppendDurably(p, kind) ==
  /\ durable /\ Len(journal) < MaxEvents
  /\ appended[p] = 0 /\ kind \notin SystemKinds
  /\ journal' = Append(journal, kind)
  /\ appended' = [appended EXCEPT ![p] = Len(journal) + 1]
  /\ UNCHANGED <<durable, subscription>>

\* Mutant: the publisher delivers again.
DeliverAgain(p) ==
  /\ appended[p] # 0
  /\ Deliver(appended[p], journal[appended[p]])
  /\ appended' \in {appended, [appended EXCEPT ![p] = 0]}
  /\ UNCHANGED <<durable, journal>>

DeliverAppended(p) ==
  /\ appended[p] # 0
  /\ Deliver(appended[p], journal[appended[p]])
  /\ appended' = [appended EXCEPT ![p] = 0]
  /\ UNCHANGED <<durable, journal>>

(* Cancelled while the connection closes: the event is in the journal only. *)
Abandon(p) ==
  /\ appended[p] # 0
  /\ appended' = [appended EXCEPT ![p] = 0]
  /\ UNCHANGED <<durable, journal, subscription>>

-----------------------------------------------------------------------------
(* Subscriptions and their consumers.                                      *)

Subscribe(s) ==
  /\ status[s] = "absent"
  /\ status' = [status EXCEPT ![s] = "open"]
  /\ since' = [since EXCEPT ![s] = Len(journal)]
  /\ UNCHANGED <<durable, journal, appended, queue, dropped, consumer, received>>

Take(s) ==
  /\ queue[s] # <<>>
  /\ received' = [received EXCEPT ![s] = Append(@, Head(queue[s]))]
  /\ queue' = [queue EXCEPT ![s] = Tail(@)]

(* get(): an event at once, the end of a closed subscription, or a wait    *)
(* that close() does not interrupt.                                        *)
GetTakes(s) ==
  /\ status[s] # "absent" /\ consumer[s] = "idle"
  /\ Take(s)
  /\ UNCHANGED <<durable, journal, appended, status, since, dropped, consumer>>

GetEnds(s) ==
  /\ status[s] = "closed" /\ consumer[s] = "idle" /\ queue[s] = <<>>
  /\ consumer' = [consumer EXCEPT ![s] = "ended"]
  /\ UNCHANGED <<durable, journal, appended, status, since, queue, dropped, received>>

GetWaits(s) ==
  /\ status[s] = "open" /\ consumer[s] = "idle" /\ queue[s] = <<>>
  /\ consumer' = [consumer EXCEPT ![s] = "waiting"]
  /\ UNCHANGED <<durable, journal, appended, status, since, queue, dropped, received>>

Wake(s) ==
  /\ consumer[s] = "waiting"
  /\ Take(s)
  /\ consumer' = [consumer EXCEPT ![s] = "idle"]
  /\ UNCHANGED <<durable, journal, appended, status, since, dropped>>

Close(s) ==
  /\ status[s] = "open"
  /\ status' = [status EXCEPT ![s] = "closed"]
  /\ UNCHANGED <<durable, journal, appended, since, queue, dropped, consumer, received>>

(* The process ends and another opens the same database.                   *)
Restart ==
  /\ durable
  /\ appended' = [p \in Publishers |-> 0]
  /\ status' = [s \in Subscribers |-> "absent"]
  /\ since' = [s \in Subscribers |-> 0]
  /\ queue' = [s \in Subscribers |-> <<>>]
  /\ dropped' = [s \in Subscribers |-> 0]
  /\ consumer' = [s \in Subscribers |-> "idle"]
  /\ received' = [s \in Subscribers |-> <<>>]
  /\ UNCHANGED <<durable, journal>>

Next ==
  \/ \E kind \in Kinds : PublishInMemory(kind)
  \/ \E p \in Publishers, kind \in Kinds : AppendDurably(p, kind)
  \/ \E p \in Publishers : DeliverAppended(p) \/ Abandon(p)
  \/ \E s \in Subscribers :
       \/ Subscribe(s) \/ Close(s)
       \/ GetTakes(s) \/ GetEnds(s) \/ GetWaits(s) \/ Wake(s)
  \/ Restart

Spec == Init /\ [][Next]_vars

(* replay(): what a client reads back from the journal.                    *)
Replay(after, kinds) == {n \in 1..Len(journal) : n > after /\ journal[n] \in kinds}

-----------------------------------------------------------------------------
(* Properties.                                                             *)

Seen(s) == received[s] \o queue[s]

(***************************************************************************)
(* With either journal, what a subscription hands out or holds are events  *)
(* of the journal that its filter matches, and none of them twice: neither *)
(* overtaken deliveries nor a wait that ends late repeat one.              *)
(***************************************************************************)
ReceivedOnce ==
  \A s \in Subscribers :
    /\ \A i \in 1..Len(Seen(s)) : Seen(s)[i] \in Replay(0, Wanted[s])
    /\ \A i, j \in 1..Len(Seen(s)) : i < j => Seen(s)[i] # Seen(s)[j]

(***************************************************************************)
(* In memory, events are seen in the order of the journal, and up to the   *)
(* last one seen the only ones missing are counted by dropped_events: a    *)
(* client that comes back with replay(after_sequence=...) loses no others. *)
(* With the SQLite journal neither is so.                                  *)
(***************************************************************************)
ResumeLosesNothing ==
  \A s \in Subscribers : ~durable /\ Seen(s) # <<>> =>
    LET last == Seen(s)[Len(Seen(s))] IN
    /\ \A i \in 2..Len(Seen(s)) : Seen(s)[i - 1] < Seen(s)[i]
    /\ Cardinality(Replay(since[s], Wanted[s]) \ Replay(last, Wanted[s])) = Len(Seen(s)) + dropped[s]

(***************************************************************************)
(* The bus implements the abstract log: each event is offered once, in one *)
(* step, to all the open subscriptions that want it, whether it is then    *)
(* received, still buffered or counted as dropped.                         *)
(***************************************************************************)
Log == INSTANCE EventLog WITH
  Readers <- Subscribers,
  log <- journal,
  pending <- {appended[p] : p \in Publishers} \ {0},
  open <- {s \in Subscribers : status[s] = "open"},
  offered <- [s \in Subscribers |-> Len(received[s]) + Len(queue[s]) + dropped[s]]

BusImplementsLog == Log!Spec

=============================================================================
