----------------------------- MODULE ContentStore -----------------------------
(***************************************************************************)
(* Publication of artifacts in the content-addressed store against its     *)
(* garbage collector (src/comfyng/storage/cas.py, locks.py, gc.py and      *)
(* artifacts.py), over several processes.                                  *)
(*                                                                         *)
(* Every section under a digest lock is one action once the lock is held,  *)
(* but for the collector's, which reads manifests that others, under other *)
(* locks, may be removing.  A publication stores its blobs, then in one    *)
(* database transaction inserts its row, adds its reference and writes its *)
(* manifest.  Publications are crashed, fail and are rolled back at any    *)
(* step.  An artifact has one blob; a reference may have several, as those *)
(* of models do.                                                           *)
(***************************************************************************)
EXTENDS Integers, FiniteSets, FiniteSetsExt

CONSTANTS
  Publishers,     \* one publication each, with its reference, row and manifest
  Collectors,     \* processes that run collect()
  Digests,        \* numbers, as acquire_many() sorts them
  Content,        \* the digests of each publication
  MaxRuns,        \* bound: runs of each collector
  Interruptible,  \* publications cancelled, if at all, even while they commit
  Nobody

ASSUME StoreAssumption ==
  /\ Digests \subseteq Nat
  /\ Content \in [Publishers -> SUBSET Digests \ {{}}]
  /\ MaxRuns \in Nat
  /\ Interruptible \subseteq Publishers
  /\ Publishers \cap Collectors = {}
  /\ Nobody \notin Publishers \cup Collectors

VARIABLES
  blobs,      \* digests whose blob is there
  refs,       \* publications whose reference manifest is there
  manifests,  \* publications whose artifact manifest is there
  rows,       \* publications whose row is committed
  version,    \* the version a publication was given, 0 for none
  database,   \* the writer inside a transaction
  locks,      \* who holds the lock of each digest
  pc,         \* where a publication stands
  stored,     \* the blobs it has put
  todo,       \* what a run of the collector has still to look at
  subject,    \* the digest a collector has locked, or Nobody
  listing,    \* the references it has listed
  runs        \* runs started

store == <<blobs, refs, manifests, rows, version>>
publication == <<pc, stored>>
collection == <<todo, subject, listing, runs>>
vars == <<blobs, refs, manifests, rows, version, database, locks, pc, stored, todo, subject, listing, runs>>

Ended == {"done", "failed", "crashed"}

TypeOK ==
  /\ blobs \subseteq Digests
  /\ refs \subseteq Publishers /\ manifests \subseteq Publishers /\ rows \subseteq Publishers
  /\ version \in [Publishers -> Nat]
  /\ database \in Publishers \cup {Nobody}
  /\ locks \in [Digests -> Publishers \cup Collectors \cup {Nobody}]
  /\ pc \in [Publishers -> {"storing", "inserted", "referenced", "manifested", "undo", "removing"} \cup Ended]
  /\ stored \in [Publishers -> SUBSET Digests]
  /\ todo \in [Collectors -> SUBSET Digests]
  /\ subject \in [Collectors -> Digests \cup {Nobody}]
  /\ listing \in [Collectors -> SUBSET Publishers]
  /\ runs \in [Collectors -> 0 .. MaxRuns]

Init ==
  /\ blobs = {}
  /\ refs = {}
  /\ manifests = {}
  /\ rows = {}
  /\ version = [p \in Publishers |-> 0]
  /\ database = Nobody
  /\ locks = [d \in Digests |-> Nobody]
  /\ pc = [p \in Publishers |-> "storing"]
  /\ stored = [p \in Publishers |-> {}]
  /\ todo = [k \in Collectors |-> {}]
  /\ subject = [k \in Collectors |-> Nobody]
  /\ listing = [k \in Collectors |-> {}]
  /\ runs = [k \in Collectors |-> 0]

-----------------------------------------------------------------------------
(* Digest locks.                                                           *)

Held(p) == {d \in Content[p] : locks[d] = p}
HoldsAll(p) == Held(p) = Content[p]
Release(x) == locks' = [d \in Digests |-> IF locks[d] = x THEN Nobody ELSE locks[d]]

\* Fault: acquire_many() does not sort.
AcquireAnyOrder(p) ==
  /\ pc[p] \in {"inserted", "removing"}
  /\ \E d \in Content[p] \ Held(p) :
       locks[d] = Nobody /\ locks' = [locks EXCEPT ![d] = p]
  /\ UNCHANGED <<store, database, publication, collection>>

\* acquire_many(), one digest at a time and in order.
Acquire(p) ==
  /\ pc[p] \in {"inserted", "removing"}
  /\ \E d \in Content[p] \ Held(p) :
       /\ \A e \in Content[p] \ Held(p) : d <= e
       /\ locks[d] = Nobody
       /\ locks' = [locks EXCEPT ![d] = p]
  /\ UNCHANGED <<store, database, publication, collection>>

-----------------------------------------------------------------------------
(* Publication.                                                            *)

\* put(): a blob that is there already is kept.
Put(p, d) ==
  /\ pc[p] = "storing"
  /\ d \in Content[p] \ stored[p]
  /\ locks[d] = Nobody
  /\ blobs' = blobs \cup {d}
  /\ stored' = [stored EXCEPT ![p] = @ \cup {d}]
  /\ UNCHANGED <<refs, manifests, rows, version, database, locks, pc, collection>>

NextVersion == 1 + Max({0} \cup {version[p] : p \in rows})

\* Fault: the row is committed by itself.
InsertAutocommit(p) ==
  /\ pc[p] = "storing" /\ stored[p] = Content[p]
  /\ database = Nobody
  /\ database' = p
  /\ pc' = [pc EXCEPT ![p] = "inserted"]
  /\ version' = [version EXCEPT ![p] = NextVersion]
  /\ rows' = rows \cup {p}
  /\ UNCHANGED <<blobs, refs, manifests, locks, stored, collection>>

\* BEGIN IMMEDIATE and create_version().
Insert(p) ==
  /\ pc[p] = "storing" /\ stored[p] = Content[p]
  /\ database = Nobody
  /\ database' = p
  /\ pc' = [pc EXCEPT ![p] = "inserted"]
  /\ version' = [version EXCEPT ![p] = NextVersion]
  /\ UNCHANGED <<blobs, refs, manifests, rows, locks, stored, collection>>

\* Fault: add_reference() takes no lock.
AddReferenceUnlocked(p) ==
  /\ pc[p] = "inserted"
  /\ Content[p] \subseteq blobs
  /\ refs' = refs \cup {p}
  /\ pc' = [pc EXCEPT ![p] = "referenced"]
  /\ Release(p)
  /\ UNCHANGED <<blobs, manifests, rows, version, database, stored, collection>>

\* add_reference() under the locks of all its digests.
AddReference(p) ==
  /\ pc[p] = "inserted" /\ HoldsAll(p)
  /\ Content[p] \subseteq blobs
  /\ refs' = refs \cup {p}
  /\ pc' = [pc EXCEPT ![p] = "referenced"]
  /\ Release(p)
  /\ UNCHANGED <<blobs, manifests, rows, version, database, stored, collection>>

WriteManifest(p) ==
  /\ pc[p] = "referenced"
  /\ manifests' = manifests \cup {p}
  /\ pc' = [pc EXCEPT ![p] = "manifested"]
  /\ UNCHANGED <<blobs, refs, rows, version, database, locks, stored, collection>>

Commit(p) ==
  /\ pc[p] = "manifested"
  /\ rows' = rows \cup {p}
  /\ database' = Nobody
  /\ pc' = [pc EXCEPT ![p] = "done"]
  /\ UNCHANGED <<blobs, refs, manifests, version, locks, stored, collection>>

\* An exception, which rolls the transaction back if there is one: a blob is
\* missing, a write or the database fails, or the task is cancelled.
Rollback(p) ==
  /\ pc[p] \in {"storing", "inserted", "referenced", "manifested"}
  /\ database' = IF database = p THEN Nobody ELSE database
  /\ version' = [version EXCEPT ![p] = 0]
  /\ pc' = [pc EXCEPT ![p] = "undo"]
  /\ Release(p)
  /\ UNCHANGED <<blobs, refs, manifests, rows, stored, collection>>

\* The task is cancelled while the database thread commits.
CommitInterrupted(p) ==
  /\ p \in Interruptible
  /\ pc[p] = "manifested"
  /\ rows' = rows \cup {p}
  /\ database' = Nobody
  /\ pc' = [pc EXCEPT ![p] = "undo"]
  /\ UNCHANGED <<blobs, refs, manifests, version, locks, stored, collection>>

\* Fault: the reference of a failed publication is left.
UndoManifestOnly(p) ==
  /\ pc[p] = "undo"
  /\ manifests' = manifests \ {p}
  /\ pc' = [pc EXCEPT ![p] = "failed"]
  /\ UNCHANGED <<blobs, refs, rows, version, database, locks, stored, collection>>

\* Mutant: the row of an interrupted commit is deleted with the rest.
UndoRow(p) ==
  /\ pc[p] = "undo"
  /\ manifests' = manifests \ {p}
  /\ rows' = rows \ {p}
  /\ pc' = [pc EXCEPT ![p] = IF p \in refs THEN "removing" ELSE "failed"]
  /\ UNCHANGED <<blobs, refs, version, database, locks, stored, collection>>

\* The exception handler: the manifest, then the reference.
Undo(p) ==
  /\ pc[p] = "undo"
  /\ manifests' = manifests \ {p}
  /\ pc' = [pc EXCEPT ![p] = IF p \in refs THEN "removing" ELSE "failed"]
  /\ UNCHANGED <<blobs, refs, rows, version, database, locks, stored, collection>>

RemoveReference(p) ==
  /\ pc[p] = "removing" /\ HoldsAll(p)
  /\ refs' = refs \ {p}
  /\ pc' = [pc EXCEPT ![p] = "failed"]
  /\ Release(p)
  /\ UNCHANGED <<blobs, manifests, rows, version, database, stored, collection>>

\* The process dies; its locks and its open transaction go with it.
Crash(p) ==
  /\ pc[p] \notin Ended
  /\ pc' = [pc EXCEPT ![p] = "crashed"]
  /\ version' = [version EXCEPT ![p] = IF p \in rows THEN @ ELSE 0]
  /\ database' = IF database = p THEN Nobody ELSE database
  /\ Release(p)
  /\ UNCHANGED <<blobs, refs, manifests, rows, stored, collection>>

-----------------------------------------------------------------------------
(* Collection.                                                             *)

\* collect() lists the blobs after reading every reference, which fails if
\* one is removed meanwhile: then there is no run.
Collect(k) ==
  /\ runs[k] < MaxRuns /\ todo[k] = {} /\ subject[k] = Nobody
  /\ runs' = [runs EXCEPT ![k] = @ + 1]
  /\ todo' = [todo EXCEPT ![k] = blobs]
  /\ UNCHANGED <<store, database, locks, publication, subject, listing>>

\* The next blob old enough is locked and the references are listed.
CollectLock(k) ==
  /\ subject[k] = Nobody
  /\ \E d \in todo[k] :
       /\ locks[d] = Nobody
       /\ todo' = [todo EXCEPT ![k] = {e \in @ : e > d}]
       /\ IF d \in blobs
          THEN /\ locks' = [locks EXCEPT ![d] = k]
               /\ subject' = [subject EXCEPT ![k] = d]
               /\ listing' = [listing EXCEPT ![k] = refs]
          ELSE UNCHANGED <<locks, subject, listing>>
  /\ UNCHANGED <<store, database, publication, runs>>

CollectUnlock(k) ==
  /\ Release(k)
  /\ subject' = [subject EXCEPT ![k] = Nobody]
  /\ listing' = [listing EXCEPT ![k] = {}]
  /\ UNCHANGED <<refs, manifests, rows, version, database, publication, runs>>

\* All references listed have been read and decide.
CollectDecide(k) ==
  /\ subject[k] # Nobody
  /\ blobs' = IF \E p \in listing[k] : subject[k] \in Content[p] THEN blobs ELSE blobs \ {subject[k]}
  /\ CollectUnlock(k)
  /\ UNCHANGED todo

\* A reference was removed before it was read: the run fails.
CollectFails(k) ==
  /\ subject[k] # Nobody
  /\ ~(listing[k] \subseteq refs)
  /\ todo' = [todo EXCEPT ![k] = {}]
  /\ CollectUnlock(k)
  /\ UNCHANGED blobs

-----------------------------------------------------------------------------
PublisherStep(p) ==
  \/ Acquire(p) \/ \E d \in Digests : Put(p, d)
  \/ Insert(p) \/ AddReference(p) \/ WriteManifest(p) \/ Commit(p) \/ Rollback(p)
  \/ CommitInterrupted(p) \/ Undo(p) \/ RemoveReference(p)

CollectorStep(k) == CollectLock(k) \/ CollectDecide(k) \/ CollectFails(k)

Next ==
  \/ \E p \in Publishers : PublisherStep(p) \/ Crash(p)
  \/ \E k \in Collectors : Collect(k) \/ CollectorStep(k)

Spec == Init /\ [][Next]_vars

\* Waiting for the lock of a digest, which no timeout ends.
AwaitsDigest(p) ==
  \/ pc[p] = "storing" /\ stored[p] # Content[p]
  \/ pc[p] \in {"inserted", "removing"} /\ ~HoldsAll(p)

\* Processes run until they crash; the runs of the collectors are finite.  A
\* publication may fail anywhere but does not owe a failure to those who wait
\* for a digest; the wait for the database is ended by its busy timeout.
Fairness ==
  /\ \A p \in Publishers :
       WF_vars(PublisherStep(p) /\ (AwaitsDigest(p) => pc'[p] # "undo"))
  /\ \A k \in Collectors : WF_vars(CollectorStep(k))

FairSpec == Spec /\ Fairness

-----------------------------------------------------------------------------
(* Safety.                                                                 *)

(* No reference dangles: the collector deletes no blob that is referenced  *)
(* or about to be, whatever publications, rollbacks and crashes race it.   *)
ReferencesResolve == \A p \in refs : Content[p] \subseteq blobs

(* A committed row always has its reference and its manifest, and so its   *)
(* blobs: the order of the three writes survives every failure and crash,  *)
(* unless the commit itself is interrupted.                                *)
RowsAreComplete == rows \ Interruptible \subseteq refs \cap manifests

(* The versions of the committed rows are 1 to n, without holes or         *)
(* duplicates, though publications are rolled back and crash.              *)
VersionsAreDense == {version[p] : p \in rows} = 1 .. Cardinality(rows)

(* Every committed row is complete and has the version that was next.      *)
RowsAreSound == RowsAreComplete /\ VersionsAreDense

LeftNothing(p) == p \notin rows \cup refs \cup manifests

(* What publish() has reported as failed left nothing but blobs.           *)
FailureLeavesNothing == \A p \in Publishers : pc[p] = "failed" => LeftNothing(p)

(* So it is, unless the commit was interrupted.                            *)
FailuresAreUndone == \A p \in Publishers \ Interruptible : pc[p] = "failed" => LeftNothing(p)

-----------------------------------------------------------------------------
(* Implementation.                                                         *)

Outcome(p) ==
  IF pc[p] = "done" THEN "published" ELSE IF pc[p] \in Ended THEN pc[p] ELSE "pending"

Readable == {p \in rows : p \in refs \cap manifests /\ Content[p] \subseteq blobs}

Registry == INSTANCE ArtifactRegistry WITH
  Artifacts <- Publishers,
  version <- [p \in Publishers |-> IF p \in rows THEN version[p] ELSE 0],
  readable <- Readable,
  outcome <- [p \in Publishers |-> Outcome(p)]

(* Blob by blob, write by write, and whatever a collector deletes, an      *)
(* artifact is published in one step, with all of its content and the next *)
(* version, and that version is its own for ever (ArtifactStore.publish).  *)
PublicationIsAtomic == Registry!Spec

(* Liveness.                                                               *)

(* Publications end, though they lock several digests each and the         *)
(* collectors lock them too.                                               *)
PublicationsEnd == \A p \in Publishers : <>(pc[p] \in Ended)

=============================================================================
