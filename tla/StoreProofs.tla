----------------------------- MODULE StoreProofs -----------------------------
(***************************************************************************)
(* What holds of the content-addressed store for every set of              *)
(* publications, collectors and digests: references never dangle, a row is *)
(* complete whatever fails or crashes, and versions have no gaps.          *)
(***************************************************************************)
EXTENDS ContentStore, FiniteSetTheorems, TLAPS

\* What a collector that has locked a digest knows: every reference to the
\* digest is on its list, and stays there as long as it holds the lock.
CollectorSeesReferences ==
  \A k \in Collectors : subject[k] # Nobody =>
    /\ subject[k] \in Digests /\ locks[subject[k]] = k
    /\ \A p \in refs : subject[k] \in Content[p] => p \in listing[k]

CInv ==
  /\ refs \subseteq Publishers
  /\ locks \in [Digests -> Publishers \cup Collectors \cup {Nobody}]
  /\ subject \in [Collectors -> Digests \cup {Nobody}]
  /\ listing \in [Collectors -> SUBSET Publishers]
  /\ todo \in [Collectors -> SUBSET Digests]
  /\ blobs \subseteq Digests
  /\ CollectorSeesReferences
  /\ ReferencesResolve

\* Nothing is stored at first.
LEMMA CInvInit == ASSUME Init PROVE CInv
<1>. QED
  BY DEF Init, CInv, CollectorSeesReferences, ReferencesResolve

\* The collector deletes a blob under its lock, and nobody refers to it
\* without that lock.
LEMMA CInvStep == ASSUME CInv, [Next]_vars PROVE CInv'
<1>. USE StoreAssumption
     DEF CInv, CollectorSeesReferences, ReferencesResolve, Release, Held, HoldsAll, CollectUnlock,
         store, publication, collection, vars
<1>1. ASSUME NEW p \in Publishers, Acquire(p)
       PROVE CInv'
  BY <1>1 DEF Acquire
<1>2. ASSUME NEW p \in Publishers, NEW d \in Digests, Put(p, d)
       PROVE CInv'
  BY <1>2 DEF Put
<1>3. ASSUME NEW p \in Publishers, Insert(p)
       PROVE CInv'
  BY <1>3 DEF Insert
<1>4. ASSUME NEW p \in Publishers, AddReference(p)
       PROVE CInv'
  BY <1>4 DEF AddReference
<1>5. ASSUME NEW p \in Publishers, WriteManifest(p)
       PROVE CInv'
  BY <1>5 DEF WriteManifest
<1>6. ASSUME NEW p \in Publishers, Commit(p)
       PROVE CInv'
  BY <1>6 DEF Commit
<1>7. ASSUME NEW p \in Publishers, Rollback(p)
       PROVE CInv'
  BY <1>7 DEF Rollback
<1>8. ASSUME NEW p \in Publishers, CommitInterrupted(p)
       PROVE CInv'
  BY <1>8 DEF CommitInterrupted
<1>9. ASSUME NEW p \in Publishers, Undo(p)
       PROVE CInv'
  BY <1>9 DEF Undo
<1>10. ASSUME NEW p \in Publishers, RemoveReference(p)
       PROVE CInv'
  BY <1>10 DEF RemoveReference
<1>11. ASSUME NEW p \in Publishers, Crash(p)
       PROVE CInv'
  BY <1>11 DEF Crash
<1>12. ASSUME NEW k \in Collectors, Collect(k)
       PROVE CInv'
  BY <1>12 DEF Collect
<1>13. ASSUME NEW k \in Collectors, CollectLock(k)
       PROVE CInv'
  <2>1. PICK d \in todo[k] :
          /\ locks[d] = Nobody
          /\ todo' = [todo EXCEPT ![k] = {e \in @ : e > d}]
          /\ IF d \in blobs
             THEN /\ locks' = [locks EXCEPT ![d] = k]
                  /\ subject' = [subject EXCEPT ![k] = d]
                  /\ listing' = [listing EXCEPT ![k] = refs]
             ELSE UNCHANGED <<locks, subject, listing>>
    BY <1>13 DEF CollectLock
  <2>2. d \in Digests /\ UNCHANGED <<refs, blobs>>
    BY <1>13 DEF CollectLock
  <2>3. todo' \in [Collectors -> SUBSET Digests]
    BY <2>1
  <2>4. CASE d \in blobs
    <3>0. /\ locks' = [locks EXCEPT ![d] = k]
          /\ subject' = [subject EXCEPT ![k] = d]
          /\ listing' = [listing EXCEPT ![k] = refs]
      BY <2>1, <2>4
    <3>1. ASSUME NEW h \in Collectors, subject'[h] # Nobody
          PROVE  /\ subject'[h] \in Digests /\ locks'[subject'[h]] = h
                 /\ \A p \in refs : subject'[h] \in Content[p] => p \in listing'[h]
      <4>1. CASE h = k
        BY <2>2, <3>0, <4>1
      <4>2. CASE h # k
        <5>1. subject'[h] = subject[h] /\ listing'[h] = listing[h]
          BY <3>0, <4>2
        <5>2. subject[h] \in Digests /\ locks[subject[h]] = h /\ subject[h] # d
          BY <2>1, <3>1, <5>1
        <5>3. locks'[subject[h]] = locks[subject[h]]
          BY <3>0, <5>2
        <5>. QED
          BY <3>1, <5>1, <5>2, <5>3
      <4>. QED
        BY <4>1, <4>2
    <3>. QED
      BY <2>2, <2>3, <3>0, <3>1
  <2>5. CASE d \notin blobs
    <3>1. UNCHANGED <<locks, subject, listing>>
      BY <2>1, <2>5
    <3>. QED
      BY <2>2, <2>3, <3>1
  <2>. QED
    BY <2>4, <2>5
<1>14. ASSUME NEW k \in Collectors, CollectDecide(k)
       PROVE CInv'
  <2>1. UNCHANGED <<refs, todo>> /\ blobs' \subseteq blobs /\ blobs \ blobs' \subseteq {subject[k]}
    BY <1>14 DEF CollectDecide
  <2>2. ASSUME NEW p \in refs PROVE Content[p] \subseteq blobs'
    <3>1. CASE subject[k] \in Content[p]
      <4>1. p \in listing[k]
        BY <1>14, <3>1 DEF CollectDecide
      <4>2. blobs' = blobs
        BY <1>14, <3>1, <4>1 DEF CollectDecide
      <4>. QED
        BY <4>2
    <3>2. CASE subject[k] \notin Content[p]
      BY <2>1, <3>2
    <3>. QED
      BY <3>1, <3>2
  <2>3. /\ locks' = [d \in Digests |-> IF locks[d] = k THEN Nobody ELSE locks[d]]
        /\ subject' = [subject EXCEPT ![k] = Nobody]
        /\ listing' = [listing EXCEPT ![k] = {}]
    BY <1>14 DEF CollectDecide
  <2>4. CollectorSeesReferences'
    BY <2>1, <2>3
  <2>. QED
    BY <2>1, <2>2, <2>3, <2>4
<1>15. ASSUME NEW k \in Collectors, CollectFails(k)
       PROVE CInv'
  BY <1>15 DEF CollectFails
<1>16. CASE UNCHANGED vars
  BY <1>16
<1>. QED
  BY <1>1, <1>2, <1>3, <1>4, <1>5, <1>6, <1>7, <1>8, <1>9, <1>10, <1>11, <1>12, <1>13, <1>14,
     <1>15, <1>16
  DEF Next, PublisherStep, CollectorStep

\* No reference ever dangles.
THEOREM ReferencesAlwaysResolve == Spec => []ReferencesResolve
<1>1. CInv => ReferencesResolve
  BY DEF CInv
<1>. QED
  BY CInvInit, CInvStep, <1>1, PTL DEF Spec

-----------------------------------------------------------------------------
\* How far a publication has come, by where it stands.
Progress ==
  \A p \in Publishers \ Interruptible :
    /\ p \in rows => pc[p] = "done"
    /\ pc[p] \in {"referenced", "manifested", "done"} => p \in refs
    /\ pc[p] \in {"manifested", "done"} => p \in manifests
    /\ pc[p] \in {"removing", "failed"} => p \notin manifests
    /\ pc[p] = "failed" => p \notin refs

\* And those whose commit may be interrupted: what is undone, and in which order.
Standing ==
  \A p \in Publishers :
    /\ p \in rows => pc[p] \in {"done", "undo", "removing", "failed", "crashed"}
    /\ pc[p] \in {"referenced", "manifested"} => p \in refs
    /\ pc[p] = "manifested" => p \in manifests
    /\ pc[p] = "undo" /\ p \in rows => p \in refs
    /\ pc[p] = "removing" => p \notin manifests

PInv ==
  /\ rows \subseteq Publishers
  /\ pc \in [Publishers -> {"storing", "inserted", "referenced", "manifested", "undo", "removing"} \cup Ended]
  /\ Progress
  /\ Standing

\* No publication has begun at first.
LEMMA PInvInit == ASSUME Init PROVE PInv
<1>. QED
  BY DEF Init, PInv, Progress, Standing

\* The row is committed last, and what precedes it is undone in reverse.
LEMMA PInvStep == ASSUME PInv, [Next]_vars PROVE PInv'
<1>. USE StoreAssumption
     DEF PInv, Progress, Standing, Ended, CollectUnlock, store, publication, collection, vars
<1>1. ASSUME NEW p \in Publishers, Acquire(p)
       PROVE PInv'
  BY <1>1 DEF Acquire
<1>2. ASSUME NEW p \in Publishers, NEW d \in Digests, Put(p, d)
       PROVE PInv'
  BY <1>2 DEF Put
<1>3. ASSUME NEW p \in Publishers, Insert(p)
       PROVE PInv'
  BY <1>3 DEF Insert
<1>4. ASSUME NEW p \in Publishers, AddReference(p)
       PROVE PInv'
  BY <1>4 DEF AddReference
<1>5. ASSUME NEW p \in Publishers, WriteManifest(p)
       PROVE PInv'
  BY <1>5 DEF WriteManifest
<1>6. ASSUME NEW p \in Publishers, Commit(p)
       PROVE PInv'
  BY <1>6 DEF Commit
<1>7. ASSUME NEW p \in Publishers, Rollback(p)
       PROVE PInv'
  BY <1>7 DEF Rollback
<1>8. ASSUME NEW p \in Publishers, CommitInterrupted(p)
       PROVE PInv'
  BY <1>8 DEF CommitInterrupted
<1>9. ASSUME NEW p \in Publishers, Undo(p)
       PROVE PInv'
  BY <1>9 DEF Undo
<1>10. ASSUME NEW p \in Publishers, RemoveReference(p)
       PROVE PInv'
  BY <1>10 DEF RemoveReference
<1>11. ASSUME NEW p \in Publishers, Crash(p)
       PROVE PInv'
  BY <1>11 DEF Crash
<1>12. ASSUME NEW k \in Collectors, Collect(k)
       PROVE PInv'
  BY <1>12 DEF Collect
<1>13. ASSUME NEW k \in Collectors, CollectLock(k)
       PROVE PInv'
  BY <1>13 DEF CollectLock
<1>14. ASSUME NEW k \in Collectors, CollectDecide(k)
       PROVE PInv'
  BY <1>14 DEF CollectDecide
<1>15. ASSUME NEW k \in Collectors, CollectFails(k)
       PROVE PInv'
  BY <1>15 DEF CollectFails
<1>16. CASE UNCHANGED vars
  BY <1>16
<1>. QED
  BY <1>1, <1>2, <1>3, <1>4, <1>5, <1>6, <1>7, <1>8, <1>9, <1>10, <1>11, <1>12, <1>13, <1>14,
     <1>15, <1>16
  DEF Next, PublisherStep, CollectorStep

\* A committed row has its reference and its manifest after every failure
\* and crash.
THEOREM RowsStayComplete == Spec => []RowsAreComplete
<1>1. PInv => RowsAreComplete
  BY StoreAssumption DEF PInv, Progress, RowsAreComplete
<1>. QED
  BY PInvInit, PInvStep, <1>1, PTL DEF Spec

\* A publication reported as failed has left neither row, reference nor
\* manifest.
THEOREM FailuresAreAlwaysUndone == Spec => []FailuresAreUndone
<1>1. PInv => FailuresAreUndone
  BY DEF PInv, Progress, FailuresAreUndone, LeftNothing
<1>. QED
  BY PInvInit, PInvStep, <1>1, PTL DEF Spec

-----------------------------------------------------------------------------
\* The versions of the rows are an initial segment of the numbers.
Dense == {version[p] : p \in rows} = 1 .. Cardinality(rows)

\* Where a publication has its transaction open.
Writing == {"inserted", "referenced", "manifested"}

\* The one writer has the next version, which nobody else can take.
WriterHasNext ==
  \A p \in Publishers :
    /\ pc[p] \in Writing => database = p /\ version[p] = 1 + Cardinality(rows)
    /\ p \in rows => pc[p] \notin Writing \cup {"storing"}

VInv ==
  /\ rows \subseteq Publishers /\ IsFiniteSet(rows)
  /\ version \in [Publishers -> Nat]
  /\ pc \in [Publishers -> {"storing", "undo", "removing"} \cup Writing \cup Ended]
  /\ WriterHasNext
  /\ Dense

\* MAX(version) + 1 is the number of rows and one.
LEMMA NextVersionIsFree == ASSUME VInv PROVE NextVersion = 1 + Cardinality(rows)
<1>. DEFINE S == {0} \cup {version[p] : p \in rows}
            n == Cardinality(rows)
<1>1. n \in Nat
  BY FS_CardinalityType DEF VInv
<1>2. S = 0 .. n
  BY <1>1 DEF VInv, Dense
<1>3. n \in S /\ \A y \in S : n >= y
  BY <1>1, <1>2
<1>4. \A x \in S : (\A y \in S : x >= y) => x = n
  BY <1>1, <1>2
<1>. HIDE DEF S, n
<1>5. Max(S) = n
  BY <1>3, <1>4, Zenon DEF Max
<1>. QED
  BY <1>5 DEF S, n, NextVersion

\* A row with the next version leaves no hole.
LEMMA RowAdded ==
  ASSUME VInv, NEW p \in Publishers, rows' = rows \cup {p}, version' = version,
         version[p] = 1 + Cardinality(rows), Cardinality(rows') = Cardinality(rows) + 1
  PROVE  Dense'
<1>1. PICK n \in Nat : n = Cardinality(rows)
  BY FS_CardinalityType DEF VInv
<1>2. {version[q] : q \in rows} = 1 .. n
  BY <1>1 DEF VInv, Dense
<1>3. {version'[q] : q \in rows'} = {version[q] : q \in rows} \cup {version[p]}
  OBVIOUS
<1>4. 1 .. n + 1 = (1 .. n) \cup {1 + n}
  BY <1>1
<1>. QED
  BY <1>1, <1>2, <1>3, <1>4 DEF Dense

\* No version is given at first.
LEMMA VInvInit == ASSUME Init PROVE VInv
<1>1. rows = {} /\ IsFiniteSet(rows) /\ Cardinality(rows) = 0 /\ 1 .. 0 = {}
  BY FS_EmptySet DEF Init
<1>. QED
  BY <1>1 DEF Init, VInv, WriterHasNext, Dense, Writing, Ended

\* Versions are given in a transaction that excludes every other writer, and
\* only what it commits counts.
LEMMA VInvStep == ASSUME VInv, [Next]_vars PROVE VInv'
<1>0. VInv /\ Cardinality(rows) \in Nat
  BY FS_CardinalityType DEF VInv
<1>. USE <1>0, StoreAssumption
     DEF VInv, WriterHasNext, Writing, Ended, CollectUnlock, store, publication, collection, vars
<1>1. ASSUME NEW p \in Publishers, Acquire(p)
       PROVE VInv'
  BY <1>1 DEF Acquire, Dense
<1>2. ASSUME NEW p \in Publishers, NEW d \in Digests, Put(p, d)
       PROVE VInv'
  BY <1>2 DEF Put, Dense
<1>3. ASSUME NEW p \in Publishers, Insert(p)
       PROVE VInv'
  <2>1. NextVersion = 1 + Cardinality(rows)
    BY NextVersionIsFree
  <2>2. UNCHANGED rows /\ database = Nobody /\ database' = p
        /\ pc' = [pc EXCEPT ![p] = "inserted"] /\ version' = [version EXCEPT ![p] = 1 + Cardinality(rows)]
    BY <1>3, <2>1 DEF Insert
  <2>3. p \notin rows /\ \A q \in Publishers : pc[q] \notin Writing
    BY <1>3, <2>2 DEF Insert
  <2>4. \A q \in rows : version'[q] = version[q]
    BY <2>2, <2>3
  <2>5. {version'[q] : q \in rows} = {version[q] : q \in rows}
    BY <2>4, Zenon
  <2>6. {version'[q] : q \in rows'} = 1 .. Cardinality(rows')
    <3>1. rows' = rows /\ {version[q] : q \in rows} = 1 .. Cardinality(rows)
      BY <2>2 DEF Dense
    <3>. HIDE DEF VInv, WriterHasNext
    <3>. QED
      BY <2>5, <3>1, Zenon
  <2>7. Dense'
    BY <2>6, Zenon DEF Dense
  <2>. QED
    BY <2>2, <2>3, <2>7
<1>4. ASSUME NEW p \in Publishers, AddReference(p)
       PROVE VInv'
  BY <1>4 DEF AddReference, Dense
<1>5. ASSUME NEW p \in Publishers, WriteManifest(p)
       PROVE VInv'
  BY <1>5 DEF WriteManifest, Dense
<1>6. ASSUME NEW p \in Publishers, Commit(p)
       PROVE VInv'
  <2>1. /\ pc[p] = "manifested" /\ pc' = [pc EXCEPT ![p] = "done"]
        /\ rows' = rows \cup {p} /\ database' = Nobody /\ version' = version
    BY <1>6 DEF Commit
  <2>2. p \notin rows /\ version[p] = 1 + Cardinality(rows) /\ database = p
    BY <2>1
  <2>3. IsFiniteSet(rows') /\ Cardinality(rows') = Cardinality(rows) + 1
    BY <2>1, <2>2, FS_AddElement
  <2>4. Dense'
    BY <2>1, <2>2, <2>3, RowAdded
  <2>. QED
    BY <2>1, <2>2, <2>3, <2>4
<1>7. ASSUME NEW p \in Publishers, Rollback(p)
       PROVE VInv'
  BY <1>7 DEF Rollback, Dense
<1>8. ASSUME NEW p \in Publishers, CommitInterrupted(p)
       PROVE VInv'
  <2>1. /\ pc[p] = "manifested" /\ pc' = [pc EXCEPT ![p] = "undo"]
        /\ rows' = rows \cup {p} /\ database' = Nobody /\ version' = version
    BY <1>8 DEF CommitInterrupted
  <2>2. p \notin rows /\ version[p] = 1 + Cardinality(rows) /\ database = p
    BY <2>1
  <2>3. IsFiniteSet(rows') /\ Cardinality(rows') = Cardinality(rows) + 1
    BY <2>1, <2>2, FS_AddElement
  <2>4. Dense'
    BY <2>1, <2>2, <2>3, RowAdded
  <2>. QED
    BY <2>1, <2>2, <2>3, <2>4
<1>9. ASSUME NEW p \in Publishers, Undo(p)
       PROVE VInv'
  BY <1>9 DEF Undo, Dense
<1>10. ASSUME NEW p \in Publishers, RemoveReference(p)
       PROVE VInv'
  BY <1>10 DEF RemoveReference, Dense
<1>11. ASSUME NEW p \in Publishers, Crash(p)
       PROVE VInv'
  BY <1>11 DEF Crash, Dense
<1>12. ASSUME NEW k \in Collectors, Collect(k)
       PROVE VInv'
  BY <1>12 DEF Collect, Dense
<1>13. ASSUME NEW k \in Collectors, CollectLock(k)
       PROVE VInv'
  BY <1>13 DEF CollectLock, Dense
<1>14. ASSUME NEW k \in Collectors, CollectDecide(k)
       PROVE VInv'
  BY <1>14 DEF CollectDecide, Dense
<1>15. ASSUME NEW k \in Collectors, CollectFails(k)
       PROVE VInv'
  BY <1>15 DEF CollectFails, Dense
<1>16. CASE UNCHANGED vars
  BY <1>16 DEF Dense
<1>. QED
  BY <1>1, <1>2, <1>3, <1>4, <1>5, <1>6, <1>7, <1>8, <1>9, <1>10, <1>11, <1>12, <1>13, <1>14,
     <1>15, <1>16
  DEF Next, PublisherStep, CollectorStep

\* The committed rows are versions 1 to n, whatever is rolled back or crashes.
THEOREM VersionsStayDense == Spec => []VersionsAreDense
<1>1. VInv => VersionsAreDense
  BY DEF VInv, Dense, VersionsAreDense
<1>. QED
  BY VInvInit, VInvStep, <1>1, PTL DEF Spec

\* Both together, as the rows are read: each complete, under the version that was next
\* (ArtifactsRepository.create_version, ArtifactStore.publish).
THEOREM RowsStaySound == Spec => []RowsAreSound
  BY RowsStayComplete, VersionsStayDense, PTL DEF RowsAreSound

-----------------------------------------------------------------------------
(* Implementation of the registry. *)

\* What can be read is what has its reference and manifest: the blobs are there.
LEMMA ReadableHasReference == ASSUME CInv PROVE Readable = rows \cap refs \cap manifests
BY DEF CInv, ReferencesResolve, Readable

\* The rows are what the registry has published.
LEMMA PublishedAreRows == ASSUME VInv PROVE Registry!Published = rows
<1>1. \A p \in rows : version[p] \in 1 .. Cardinality(rows)
  BY DEF VInv, Dense
<1>2. \A p \in rows : p \in Publishers /\ version[p] \in Nat /\ version[p] > 0
  BY <1>1, FS_CardinalityType DEF VInv
<1>. QED
  BY <1>2 DEF Registry!Published

\* Each step publishes, ends or takes away one artifact, or nothing that can be seen.
LEMMA RegistryStep ==
  ASSUME CInv, CInv', PInv, VInv, [Next]_vars
  PROVE  [Registry!Next]_(Registry!vars)
<1>. DEFINE given == [p \in Publishers |-> IF p \in rows THEN version[p] ELSE 0]
            said == [p \in Publishers |-> Outcome(p)]
            whole == rows \cap refs \cap manifests
<1>1. Readable = whole /\ Readable' = whole'
  <2>1. Readable = whole
    BY ReadableHasReference
  <2>2. Readable' = whole'
    BY DEF CInv, ReferencesResolve, Readable
  <2>. QED
    BY <2>1, <2>2
<1>2. SUFFICES ASSUME ~UNCHANGED <<given, whole, said>>
               PROVE  Registry!Next
  BY <1>1 DEF Registry!vars
<1>3. /\ rows \subseteq Publishers
      /\ pc \in [Publishers -> {"storing", "undo", "removing"} \cup Writing \cup Ended]
      /\ version \in [Publishers -> Nat]
      /\ Progress /\ Standing /\ WriterHasNext
  BY DEF VInv, PInv
<1>4. ASSUME NEW p \in Publishers, pc' = [pc EXCEPT ![p] = pc'[p]]
      PROVE  \A q \in Publishers \ {p} : Outcome(q)' = Outcome(q)
  BY <1>3, <1>4 DEF Outcome
<1>5. ASSUME NEW p \in Publishers, pc[p] \in Writing \cup {"storing"}
      PROVE  p \notin rows
  BY <1>3, <1>5 DEF WriterHasNext
<1>6. /\ given' = given /\ whole' = whole /\ said' = said => FALSE
  BY <1>2
<1>. HIDE DEF given, said, whole
<1>7. ASSUME UNCHANGED <<rows, refs, manifests, version, pc>>
      PROVE  FALSE
  BY <1>6, <1>7 DEF given, said, whole, Outcome
<1>8. ASSUME NEW p \in Publishers, Insert(p)
      PROVE  FALSE
  <2>1. p \notin rows /\ rows' = rows /\ \A q \in rows : version'[q] = version[q]
    BY <1>3, <1>5, <1>8 DEF Insert
  <2>2. given' = given /\ whole' = whole
    BY <2>1, <1>8 DEF Insert, given, whole
  <2>3. Outcome(p)' = Outcome(p) /\ pc' = [pc EXCEPT ![p] = pc'[p]]
    BY <1>3, <1>8 DEF Insert, Outcome, Ended
  <2>4. said' = said
    BY <2>3, <1>4 DEF said
  <2>. QED
    BY <1>6, <2>2, <2>4
<1>9. ASSUME NEW p \in Publishers, AddReference(p) \/ WriteManifest(p)
      PROVE  FALSE
  <2>1. p \notin rows /\ rows' = rows /\ version' = version
    BY <1>5, <1>9 DEF AddReference, WriteManifest, Writing
  <2>2. given' = given /\ whole' = whole
    BY <2>1, <1>9 DEF AddReference, WriteManifest, given, whole
  <2>3. Outcome(p)' = Outcome(p) /\ pc' = [pc EXCEPT ![p] = pc'[p]]
    BY <1>3, <1>9 DEF AddReference, WriteManifest, Outcome, Ended
  <2>4. said' = said
    BY <2>3, <1>4 DEF said
  <2>. QED
    BY <1>6, <2>2, <2>4
<1>10. ASSUME NEW p \in Publishers, Rollback(p)
       PROVE  FALSE
  <2>1. p \notin rows /\ rows' = rows /\ \A q \in rows : version'[q] = version[q]
    BY <1>3, <1>5, <1>10 DEF Rollback, Writing
  <2>2. given' = given /\ whole' = whole
    BY <2>1, <1>10 DEF Rollback, given, whole
  <2>3. Outcome(p)' = Outcome(p) /\ pc' = [pc EXCEPT ![p] = pc'[p]]
    BY <1>3, <1>10 DEF Rollback, Outcome, Ended
  <2>4. said' = said
    BY <2>3, <1>4 DEF said
  <2>. QED
    BY <1>6, <2>2, <2>4
\* A row is added, with the version its transaction was given and all that was written before.
<1>11. ASSUME NEW p \in Publishers, pc[p] = "manifested", rows' = rows \cup {p},
              UNCHANGED <<refs, manifests, version>>
       PROVE  Registry!Appear(p)
  <2>1. p \notin rows /\ p \in refs \cap manifests /\ version[p] = 1 + Cardinality(rows)
    BY <1>3, <1>5, <1>11 DEF Standing, WriterHasNext, Writing
  <2>2. given' = [given EXCEPT ![p] = 1 + Cardinality(rows)]
    BY <2>1, <1>11, <1>3 DEF given
  <2>3. whole' = whole \cup {p}
    BY <2>1, <1>11 DEF whole
  <2>4. said[p] = "pending"
    BY <1>11 DEF said, Outcome, Ended
  <2>5. Registry!Published = rows
    BY PublishedAreRows
  <2>6. Readable' = Readable \cup {p}
    BY <2>3, <1>1
  <2>7. Registry!Cardinality(rows) = Cardinality(rows)
    BY DEF Registry!Cardinality, Cardinality
  <2>. QED
    BY <2>1, <2>2, <2>4, <2>5, <2>6, <2>7 DEF Registry!Appear, given, said
<1>12. ASSUME NEW p \in Publishers, Commit(p)
       PROVE  Registry!Publish(p)
  <2>1. Registry!Appear(p)
    BY <1>11, <1>12 DEF Commit
  <2>2. Outcome(p)' = "published" /\ pc' = [pc EXCEPT ![p] = pc'[p]]
    BY <1>3, <1>12 DEF Commit, Outcome
  <2>3. said' = [said EXCEPT ![p] = "published"]
    BY <2>2, <1>4 DEF said
  <2>. QED
    BY <2>1, <2>3 DEF Registry!Publish, said
<1>13. ASSUME NEW p \in Publishers, CommitInterrupted(p)
       PROVE  Registry!PublishSilently(p)
  <2>1. Registry!Appear(p)
    BY <1>11, <1>13 DEF CommitInterrupted
  <2>2. Outcome(p)' = Outcome(p) /\ pc' = [pc EXCEPT ![p] = pc'[p]]
    BY <1>3, <1>13 DEF CommitInterrupted, Outcome, Ended
  <2>3. said' = said
    BY <2>2, <1>4 DEF said
  <2>. QED
    BY <1>13, <2>1, <2>3 DEF Registry!PublishSilently, CommitInterrupted, said
\* What ends has no row, or its commit was interrupted.
<1>14. ASSUME NEW p \in Publishers, pc[p] \notin Ended,
              pc'[p] \in {"failed", "crashed"}, pc' = [pc EXCEPT ![p] = pc'[p]],
              given' = given, whole' = whole
       PROVE  Registry!End(p)
  <2>1. p \in rows => p \in Interruptible
    BY <1>3, <1>14 DEF Progress, Ended
  <2>2. Outcome(p) = "pending" /\ Outcome(p)' = pc'[p]
    BY <1>14 DEF Outcome, Ended
  <2>3. said' = [said EXCEPT ![p] = pc'[p]]
    BY <2>2, <1>4, <1>14 DEF said
  <2>4. said[p] = "pending"
    BY <2>2 DEF said
  <2>. QED
    BY <2>1, <2>3, <2>4, <1>1, <1>14, PublishedAreRows DEF Registry!End, said, given
<1>15. ASSUME NEW p \in Publishers, Undo(p), p \in rows
       PROVE  Registry!Lose(p)
  <2>1. p \in refs /\ p \in Interruptible /\ pc' = [pc EXCEPT ![p] = "removing"]
    BY <1>3, <1>15 DEF Undo, Standing, Progress
  <2>2. given' = given /\ whole' = whole \ {p}
    BY <1>15 DEF Undo, given, whole
  <2>3. Outcome(p) = "pending" /\ Outcome(p)' = "pending" /\ pc' = [pc EXCEPT ![p] = pc'[p]]
    BY <1>3, <1>15, <2>1 DEF Undo, Outcome, Ended
  <2>4. said' = said /\ said[p] = "pending"
    BY <2>3, <1>4 DEF said
  <2>. QED
    BY <1>1, <1>15, <2>1, <2>2, <2>4, PublishedAreRows DEF Registry!Lose, said, given
<1>16. ASSUME NEW p \in Publishers, Undo(p), p \notin rows
       PROVE  Registry!End(p)
  <2>1. given' = given /\ whole' = whole
    BY <1>16 DEF Undo, given, whole
  <2>2. pc[p] = "undo" /\ pc' = [pc EXCEPT ![p] = pc'[p]]
    BY <1>3, <1>16 DEF Undo
  <2>3. CASE p \in refs
    <3>1. Outcome(p)' = Outcome(p)
      BY <1>3, <1>16, <2>3 DEF Undo, Outcome, Ended
    <3>2. said' = said
      BY <3>1, <2>2, <1>4 DEF said
    <3>. QED
      BY <1>6, <2>1, <3>2
  <2>4. CASE p \notin refs
    <3>1. pc'[p] = "failed"
      BY <1>3, <1>16, <2>4 DEF Undo
    <3>. QED
      BY <1>14, <2>1, <2>2, <3>1 DEF Ended
  <2>. QED
    BY <2>3, <2>4
<1>17. ASSUME NEW p \in Publishers, RemoveReference(p)
       PROVE  Registry!End(p)
  <2>1. given' = given /\ whole' = whole
    BY <1>3, <1>17 DEF RemoveReference, given, whole, Standing
  <2>2. pc[p] = "removing" /\ pc'[p] = "failed" /\ pc' = [pc EXCEPT ![p] = pc'[p]]
    BY <1>3, <1>17 DEF RemoveReference
  <2>. QED
    BY <1>14, <2>1, <2>2 DEF Ended
<1>18. ASSUME NEW p \in Publishers, Crash(p)
       PROVE  Registry!End(p)
  <2>1. given' = given /\ whole' = whole
    BY <1>3, <1>18 DEF Crash, given, whole
  <2>2. pc[p] \notin Ended /\ pc'[p] = "crashed" /\ pc' = [pc EXCEPT ![p] = pc'[p]]
    BY <1>3, <1>18 DEF Crash
  <2>. QED
    BY <1>14, <2>1, <2>2
<1>19. ASSUME NEW k \in Collectors, Collect(k) \/ CollectLock(k) \/ CollectDecide(k) \/ CollectFails(k)
       PROVE  FALSE
  <2>1. UNCHANGED <<rows, refs, manifests, version, pc>>
    BY <1>19 DEF Collect, CollectLock, CollectDecide, CollectFails, CollectUnlock, store, publication
  <2>. QED
    BY <1>7, <2>1
<1>20. ASSUME NEW p \in Publishers, Acquire(p) \/ \E d \in Digests : Put(p, d)
       PROVE  FALSE
  <2>1. UNCHANGED <<rows, refs, manifests, version, pc>>
    BY <1>20 DEF Acquire, Put, store, publication
  <2>. QED
    BY <1>7, <2>1
<1>21. CASE UNCHANGED vars
  BY <1>7, <1>21 DEF vars
<1>. QED
  BY <1>8, <1>9, <1>10, <1>12, <1>13, <1>15, <1>16, <1>17, <1>18, <1>19, <1>20, <1>21
  DEF Next, PublisherStep, CollectorStep, Registry!Next

\* Nothing is published at first.
LEMMA RegistryInit == ASSUME Init PROVE Registry!Init
BY DEF Init, Registry!Init, Outcome, Readable, Ended

\* Whatever is stored, collected, rolled back or interrupted in between, an artifact is published
\* in one step, complete and under the next version, which stays its own
\* (ArtifactStore.publish).
THEOREM StoreImplementsRegistry == Spec => PublicationIsAtomic
<1>1. Init => Registry!Init
  BY RegistryInit
<1>2. CInv /\ CInv' /\ PInv /\ VInv /\ [Next]_vars => [Registry!Next]_(Registry!vars)
  BY RegistryStep
<1>3. Spec => []CInv
  BY CInvInit, CInvStep, PTL DEF Spec
<1>4. Spec => []PInv
  BY PInvInit, PInvStep, PTL DEF Spec
<1>5. Spec => []VInv
  BY VInvInit, VInvStep, PTL DEF Spec
<1>. QED
  BY <1>1, <1>2, <1>3, <1>4, <1>5, PTL DEF Spec, Registry!Spec, PublicationIsAtomic

=============================================================================
