------------------------------- MODULE EventLog -------------------------------
(***************************************************************************)
(* What an event bus promises (src/comfyng/events): a log that only grows, *)
(* and for each of its events one moment, at most, at which every reader   *)
(* that is open and wants it is offered it.  How many of the events a      *)
(* reader was offered it then drops or keeps is not said, only that they   *)
(* are counted.                                                            *)
(***************************************************************************)
EXTENDS Naturals, Sequences

CONSTANTS
  Kinds,     \* what an event may be: its job and its type
  Readers,
  Wanted     \* the kinds each reader asks for

VARIABLES
  log,       \* every event, oldest first
  pending,   \* positions of events not offered yet
  open,      \* readers that are offered events
  offered    \* how many events each reader was offered since it opened

vars == <<log, pending, open, offered>>

Init ==
  /\ log = <<>>
  /\ pending = {}
  /\ open = {}
  /\ offered = [r \in Readers |-> 0]

Offers(kind) ==
  offered' = [r \in Readers |-> IF r \in open /\ kind \in Wanted[r] THEN offered[r] + 1 ELSE offered[r]]

Record(kind) ==
  /\ log' = Append(log, kind)
  /\ pending' = pending \cup {Len(log) + 1}
  /\ UNCHANGED <<open, offered>>

Offer(n) ==
  /\ n \in pending
  /\ pending' = pending \ {n}
  /\ Offers(log[n])
  /\ UNCHANGED <<log, open>>

(* An event may be offered in the step that appends it ...                 *)
AppendAndOffer(kind) ==
  /\ log' = Append(log, kind)
  /\ Offers(kind)
  /\ UNCHANGED <<pending, open>>

(* ... or never, when whoever appended it is interrupted.                  *)
Withdraw(n) ==
  /\ n \in pending
  /\ pending' = pending \ {n}
  /\ UNCHANGED <<log, open, offered>>

Open(r) ==
  /\ r \notin open
  /\ open' = open \cup {r}
  /\ offered' = [offered EXCEPT ![r] = 0]
  /\ UNCHANGED <<log, pending>>

Close(r) ==
  /\ open' = open \ {r}
  /\ UNCHANGED <<log, pending, offered>>

(* A restart forgets the readers, never the log.                           *)
Restart ==
  /\ pending' = {}
  /\ open' = {}
  /\ offered' = [r \in Readers |-> 0]
  /\ UNCHANGED log

Next ==
  \/ \E kind \in Kinds : Record(kind) \/ AppendAndOffer(kind)
  \/ \E n \in pending : Offer(n) \/ Withdraw(n)
  \/ \E r \in Readers : Open(r) \/ Close(r)
  \/ Restart

Spec == Init /\ [][Next]_vars

=============================================================================
