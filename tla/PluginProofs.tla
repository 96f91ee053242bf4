---------------------------- MODULE PluginProofs ----------------------------
(***************************************************************************)
(* For any plugins, isolation groups, policies, calls and failures: what   *)
(* the locks of the plugin manager protect.  The locks' queues say which   *)
(* call has which record in its hands (LocksInv); a record in a passing    *)
(* state is in the hands of a call that will bring it to rest              *)
(* (RecordsInv); and a group object holds plugins with its permissions     *)
(* (GroupsInv).                                                            *)
(***************************************************************************)
EXTENDS PluginLifecycle, SequenceTheorems, FiniteSetTheorems, TLAPS

-----------------------------------------------------------------------------
(* What a call holds and waits for.                                        *)

Waiting == {"load", "execute", "unload"}
Loading == {"acquire", "starting", "load_lock", "loading"}
Executing == {"execute_lock", "executing"}
Unloading == {"unload_lock", "unloading"}
Stopping == {"stop", "stopping"}
Places == {"idle"} \cup Waiting \cup Loading \cup Executing \cup Unloading \cup Stopping
States == Settled \cup {"PRELOADING", "BUSY", "EVICTING"}

Unloads(r) == r.at \in Unloading \/ (r.at \in Stopping /\ r.why = "unload")

\* Whether a call is somewhere between lock and release of its group.
InGroup(r) == r.at \in {"load_lock", "loading"} \cup Executing \/ Unloads(r)

\* The locks in whose queues a call stands.
Wants(r) ==
  (IF r.at = "idle" THEN {} ELSE {r.plugin})
    \cup (IF r.at \in {"acquire", "starting"} THEN {Manager} ELSE {})
    \cup (IF InGroup(r) THEN {r.group} \ {None} ELSE {})

\* The one it may have to wait for; the others are its own.
Awaits(r) ==
  IF r.at \in Waiting THEN r.plugin
  ELSE IF r.at = "acquire" THEN Manager
  ELSE IF r.at \in {"load_lock", "execute_lock", "unload_lock"} THEN r.group
  ELSE None

-----------------------------------------------------------------------------
(* The inductive invariant.                                                *)

Members(s) == {s[i] : i \in DOMAIN s}
Distinct(s) == \A i, k \in DOMAIN s : s[i] = s[k] => i = k

CallRecord ==
  [at : Places, op : {None, "load", "execute", "unload"}, plugin : Plugins \cup {None},
   group : Objects \cup {None}, why : {None, "load", "fail", "unload"}, sends : BOOLEAN]

\* The calls that may be: each is about a plugin, and whoever is in a group
\* or stops one knows which.
FitCalls ==
  {r \in CallRecord :
     /\ r.at # "idle" => r.plugin \in Plugins
     /\ r.at \in {"load_lock", "loading"} \cup Executing \cup Stopping => r.group \in Objects}
CallsTyped == call \in [Calls -> FitCalls]

\* The queues hold exactly the calls that stand in them, each once, and what
\* a call does not wait for it has.
LocksBalance ==
  /\ lock \in [Locks -> Seq(Calls)]
  /\ \A x \in Locks : Distinct(lock[x])
  /\ \A x \in Locks, c \in Calls : c \in Members(lock[x]) <=> x \in Wants(call[c])
  /\ \A x \in Locks, c \in Calls : x \in Wants(call[c]) /\ x # Awaits(call[c]) => Head(lock[x]) = c

\* Whom the event loop resumes at a lock has got it.
ReadyHaveLocks ==
  /\ ready \in Seq(Calls)
  /\ Distinct(ready)
  /\ \A c \in Members(ready) :
       Awaits(call[c]) \in Locks \cap Wants(call[c]) /\ Head(lock[Awaits(call[c])]) = c

LocksInv == LocksBalance /\ ReadyHaveLocks

\* A record in a passing state is in the hands of a call that brings it on.
SomeoneHas(p, places) == \E c \in Calls : call[c].plugin = p /\ call[c].at \in places
PassingHaveCalls ==
  \A p \in Plugins :
    /\ state[p] = "PRELOADING" => SomeoneHas(p, Loading)
    /\ state[p] = "BUSY" => SomeoneHas(p, Executing)
    /\ state[p] = "EVICTING" => \E c \in Calls : call[c].plugin = p /\ Unloads(call[c])

\* The record a call unloads is its own, unless a failing group took it.
UnloadedAreEvicted == \A c \in Calls : Unloads(call[c]) => state[call[c].plugin] \in {"EVICTING", "FAILED"}

UsableAreAssigned == \A p \in Plugins : state[p] \in Usable \cup {"BUSY"} => p \in assigned

RecordsInv ==
  /\ state \in [Plugins -> States]
  /\ PassingHaveCalls
  /\ UnloadedAreEvicted
  /\ UsableAreAssigned

\* A call loads into a group with its plugin's permissions.
LoadersMatch ==
  \A c \in Calls : call[c].at \in {"load_lock", "loading"} =>
    heap[call[c].group].permissions = Permissions[call[c].plugin]

GroupsInv ==
  /\ groups \in [Groups -> Objects \cup {None}]
  /\ heap \in [Objects -> [packages : SUBSET Plugins, permissions : {Permissions[p] : p \in Plugins} \cup {None}]]
  /\ LoadersMatch
  /\ GroupMembersMatch

IInv == CallsTyped /\ LocksInv /\ RecordsInv /\ GroupsInv

-----------------------------------------------------------------------------
(* Queues.                                                                 *)

LEMMA MemberIsAt ==
  ASSUME NEW s, NEW x
  PROVE  x \in Members(s) <=> \E i \in DOMAIN s : s[i] = x
BY DEF Members

LEMMA Joined ==
  ASSUME NEW S, NEW s \in Seq(S), NEW t \in Seq(S)
  PROVE  /\ s \o t \in Seq(S)
         /\ Members(s \o t) = Members(s) \cup Members(t)
         /\ Distinct(s) /\ Distinct(t) /\ Members(s) \cap Members(t) = {} => Distinct(s \o t)
<1>1. /\ s \o t \in Seq(S) /\ Len(s \o t) = Len(s) + Len(t) /\ Len(s) \in Nat /\ Len(t) \in Nat
      /\ DOMAIN s = 1 .. Len(s) /\ DOMAIN t = 1 .. Len(t) /\ DOMAIN (s \o t) = 1 .. Len(s) + Len(t)
  OBVIOUS
<1>2. \A i \in 1 .. Len(s) + Len(t) : (s \o t)[i] = IF i <= Len(s) THEN s[i] ELSE t[i - Len(s)]
  OBVIOUS
<1>. DEFINE u == s \o t
<1>. HIDE DEF u
<1>3. ASSUME NEW x, x \in Members(u) PROVE x \in Members(s) \cup Members(t)
  <2>1. PICK i \in 1 .. Len(s) + Len(t) : u[i] = x
    BY <1>1, <1>3, MemberIsAt DEF u
  <2>2. CASE i <= Len(s)
    BY <1>1, <1>2, <2>1, <2>2, MemberIsAt DEF u
  <2>3. CASE i > Len(s)
    <3>1. i - Len(s) \in 1 .. Len(t) /\ t[i - Len(s)] = x
      BY <1>1, <1>2, <2>1, <2>3 DEF u
    <3>. QED
      BY <1>1, <3>1, MemberIsAt
  <2>. QED
    BY <1>1, <2>2, <2>3
<1>4. ASSUME NEW x, x \in Members(s) PROVE x \in Members(u)
  <2>1. PICK i \in 1 .. Len(s) : s[i] = x
    BY <1>1, <1>4, MemberIsAt
  <2>2. i \in 1 .. Len(s) + Len(t) /\ u[i] = x
    BY <1>1, <1>2, <2>1 DEF u
  <2>. QED
    BY <1>1, <2>2, MemberIsAt DEF u
<1>5. ASSUME NEW x, x \in Members(t) PROVE x \in Members(u)
  <2>1. PICK i \in 1 .. Len(t) : t[i] = x
    BY <1>1, <1>5, MemberIsAt
  <2>2. i + Len(s) \in 1 .. Len(s) + Len(t) /\ ~(i + Len(s) <= Len(s)) /\ (i + Len(s)) - Len(s) = i
    BY <1>1, <2>1
  <2>3. u[i + Len(s)] = x
    BY <1>2, <2>1, <2>2 DEF u
  <2>. QED
    BY <1>1, <2>2, <2>3, MemberIsAt DEF u
<1>6. ASSUME Distinct(s), Distinct(t), Members(s) \cap Members(t) = {},
             NEW i \in 1 .. Len(s) + Len(t), NEW k \in 1 .. Len(s) + Len(t), u[i] = u[k]
      PROVE  i = k
  <2>1. CASE i <= Len(s) /\ k <= Len(s)
    BY <1>1, <1>2, <1>6, <2>1 DEF Distinct, u
  <2>2. CASE i > Len(s) /\ k > Len(s)
    <3>1. i - Len(s) \in 1 .. Len(t) /\ k - Len(s) \in 1 .. Len(t) /\ t[i - Len(s)] = t[k - Len(s)]
      BY <1>1, <1>2, <1>6, <2>2 DEF u
    <3>2. i - Len(s) = k - Len(s)
      BY <1>1, <1>6, <3>1 DEF Distinct
    <3>. QED
      BY <1>1, <3>2
  <2>3. ASSUME NEW m \in 1 .. Len(s) + Len(t), NEW n \in 1 .. Len(s) + Len(t),
               m <= Len(s), n > Len(s), u[m] = u[n]
        PROVE  FALSE
    <3>1. m \in 1 .. Len(s) /\ n - Len(s) \in 1 .. Len(t) /\ s[m] = t[n - Len(s)]
      BY <1>1, <1>2, <2>3 DEF u
    <3>2. s[m] \in Members(s) /\ s[m] \in Members(t)
      BY <1>1, <3>1, MemberIsAt
    <3>. QED
      BY <1>6, <3>2
  <2>. QED
    BY <1>1, <1>6, <2>1, <2>2, <2>3
<1>7. Members(u) = Members(s) \cup Members(t)
  BY <1>3, <1>4, <1>5
<1>8. Distinct(s) /\ Distinct(t) /\ Members(s) \cap Members(t) = {} => Distinct(u)
  <2>1. DOMAIN u = 1 .. Len(s) + Len(t)
    BY <1>1 DEF u
  <2>. QED
    BY <1>6, <2>1 DEF Distinct
<1>. QED
  BY <1>1, <1>7, <1>8, Zenon DEF u

LEMMA Single ==
  ASSUME NEW S, NEW x \in S
  PROVE  <<x>> \in Seq(S) /\ Members(<<x>>) = {x} /\ Distinct(<<x>>)
<1>1. DOMAIN <<x>> = {1} /\ <<x>>[1] = x /\ <<x>> \in Seq(S)
  OBVIOUS
<1>. QED
  BY <1>1 DEF Members, Distinct

LEMMA NoMembers ==
  ASSUME NEW S
  PROVE  << >> \in Seq(S) /\ Members(<< >>) = {} /\ Distinct(<< >>)
<1>1. << >> \in Seq(S) /\ Len(<< >>) = 0
  BY EmptySeq
<1>2. PICK s \in Seq(S) : s = << >>
  BY <1>1
<1>3. Len(s) = 0
  BY <1>1, <1>2
<1>4. DOMAIN s = 1 .. 0
  BY <1>3, LenProperties
<1>5. \A i \in DOMAIN s : FALSE
  BY <1>4
<1>6. Members(s) = {} /\ Distinct(s)
  BY <1>5 DEF Members, Distinct
<1>. QED
  BY <1>2, <1>6, Zenon

LEMMA HeadIsMember ==
  ASSUME NEW S, NEW s \in Seq(S), s # << >>
  PROVE  Head(s) \in Members(s) /\ Members(s) \subseteq S
<1>1. 1 \in DOMAIN s /\ Head(s) = s[1] /\ DOMAIN s = 1 .. Len(s) /\ \A i \in 1 .. Len(s) : s[i] \in S
  BY HeadTailProperties, EmptySeq, ElementOfSeq
<1>. QED
  BY <1>1 DEF Members

LEMMA MembersTyped ==
  ASSUME NEW S, NEW s \in Seq(S)
  PROVE  Members(s) \subseteq S
BY ElementOfSeq DEF Members

LEMMA WithoutHead ==
  ASSUME NEW S, NEW s \in Seq(S), s # << >>, Distinct(s)
  PROVE  Tail(s) \in Seq(S) /\ Members(Tail(s)) = Members(s) \ {Head(s)} /\ Distinct(Tail(s))
<1>1. /\ Tail(s) \in Seq(S) /\ Len(s) \in Nat \ {0} /\ Len(Tail(s)) = Len(s) - 1
      /\ DOMAIN s = 1 .. Len(s) /\ DOMAIN Tail(s) = 1 .. Len(s) - 1 /\ Head(s) = s[1]
  BY HeadTailProperties, EmptySeq
<1>2. \A i \in 1 .. Len(s) - 1 : Tail(s)[i] = s[i + 1]
  BY <1>1, HeadTailProperties
<1>. DEFINE t == Tail(s)
<1>6. DOMAIN t = 1 .. Len(s) - 1
  BY <1>1
<1>. HIDE DEF t
<1>3. ASSUME NEW x, x \in Members(t) PROVE x \in Members(s) /\ x # s[1]
  <2>1. PICK i \in 1 .. Len(s) - 1 : t[i] = x
    BY <1>6, <1>3, MemberIsAt
  <2>2. i + 1 \in 1 .. Len(s) /\ s[i + 1] = x /\ i + 1 # 1 /\ 1 \in 1 .. Len(s)
    BY <1>1, <1>2, <2>1 DEF t
  <2>. QED
    BY <1>1, <2>2, MemberIsAt DEF Distinct
<1>4. ASSUME NEW x, x \in Members(s), x # s[1] PROVE x \in Members(t)
  <2>1. PICK i \in 1 .. Len(s) : s[i] = x
    BY <1>1, <1>4, MemberIsAt
  <2>2. i - 1 \in 1 .. Len(s) - 1 /\ (i - 1) + 1 = i
    BY <1>1, <1>4, <2>1
  <2>3. t[i - 1] = x
    BY <1>2, <2>1, <2>2 DEF t
  <2>. QED
    BY <1>6, <2>2, <2>3, MemberIsAt
<1>5. ASSUME NEW i \in 1 .. Len(s) - 1, NEW k \in 1 .. Len(s) - 1, t[i] = t[k] PROVE i = k
  <2>1. i + 1 \in 1 .. Len(s) /\ k + 1 \in 1 .. Len(s) /\ s[i + 1] = s[k + 1]
    BY <1>1, <1>2, <1>5 DEF t
  <2>2. i + 1 = k + 1
    BY <1>1, <2>1 DEF Distinct
  <2>. QED
    BY <2>2
<1>7. Members(t) = Members(s) \ {s[1]} /\ Distinct(t)
  BY <1>3, <1>4, <1>5, <1>6 DEF Distinct
<1>. QED
  BY <1>1, <1>7, Zenon DEF t

LEMMA AtTheEnd ==
  ASSUME NEW S, NEW s \in Seq(S), NEW x \in S
  PROVE  /\ Append(s, x) \in Seq(S)
         /\ Members(Append(s, x)) = Members(s) \cup {x}
         /\ Distinct(s) /\ x \notin Members(s) => Distinct(Append(s, x))
         /\ Append(s, x) # << >>
         /\ Head(Append(s, x)) = IF s = << >> THEN x ELSE Head(s)
<1>1. Append(s, x) = s \o <<x>>
  BY AppendIsConcat
<1>2. /\ Append(s, x) # << >>
      /\ Head(Append(s, x)) = IF s = << >> THEN x ELSE Head(s)
  BY HeadTailAppend, AppendProperties
<1>3. <<x>> \in Seq(S) /\ Members(<<x>>) = {x} /\ Distinct(<<x>>)
  BY Single
<1>. DEFINE t == <<x>>
<1>. HIDE DEF t
<1>4. t \in Seq(S) /\ Members(t) = {x} /\ Distinct(t)
  BY <1>3 DEF t
<1>5. /\ s \o t \in Seq(S)
      /\ Members(s \o t) = Members(s) \cup Members(t)
      /\ Distinct(s) /\ Distinct(t) /\ Members(s) \cap Members(t) = {} => Distinct(s \o t)
  BY <1>4, Joined, Zenon
<1>6. /\ s \o t \in Seq(S)
      /\ Members(s \o t) = Members(s) \cup {x}
      /\ Distinct(s) /\ x \notin Members(s) => Distinct(s \o t)
  <2>1. x \notin Members(s) => Members(s) \cap Members(t) = {}
    BY <1>4
  <2>. QED
    BY <1>4, <1>5, <2>1, Zenon
<1>. QED
  BY <1>1, <1>2, <1>6, Zenon DEF t

-----------------------------------------------------------------------------
(* What a step of a call does to the queues.                               *)

\* Whoever releases locks it has and joins at most one it does not have
\* leaves the queues balanced, and resumes only who has got a lock.
LEMMA RelockKeeps ==
  ASSUME LocksInv, NEW c \in Calls, ready = << >> \/ Resumed(c),
         NEW left \in Seq(Locks), Len(left) <= 2, Distinct(left),
         NEW joined \in SUBSET Locks, \A x, y \in joined : x = y,
         Relock(c, left, joined),
         \A d \in Calls \ {c} : call'[d] = call[d],
         \A x \in Locks \cap Wants(call[c]) : Head(lock[x]) = c,
         Members(left) \subseteq Wants(call[c]),
         Wants(call'[c]) = (Wants(call[c]) \ Members(left)) \cup joined,
         joined \cap (Wants(call[c]) \ Members(left)) = {},
         \A x \in joined : Awaits(call'[c]) = x
  PROVE  LocksInv'
<1>. DEFINE freed == Members(left)
            rest == [x \in Locks |-> IF x \in freed THEN Tail(lock[x]) ELSE lock[x]]
            Woken(i) == IF i \in DOMAIN left /\ rest[left[i]] # << >> THEN <<Head(rest[left[i]])>> ELSE << >>
            goesOn == IF \E x \in joined : rest[x] = << >> THEN <<c>> ELSE << >>
<1>1. /\ lock' = [x \in Locks |-> IF x \in joined THEN Append(rest[x], c) ELSE rest[x]]
      /\ ready' = goesOn \o Others(c) \o Woken(1) \o Woken(2)
  BY DEF Relock, Members
<1>2. ASSUME NEW x \in Locks
      PROVE  /\ rest[x] \in Seq(Calls) /\ Distinct(rest[x])
             /\ x \in freed => Head(lock[x]) = c /\ Members(rest[x]) = Members(lock[x]) \ {c}
             /\ x \notin freed => rest[x] = lock[x]
  <2>1. lock[x] \in Seq(Calls) /\ Distinct(lock[x])
    BY DEF LocksInv, LocksBalance
  <2>2. CASE x \in freed
    <3>1. x \in Wants(call[c]) /\ Head(lock[x]) = c /\ c \in Members(lock[x])
      BY <2>2 DEF LocksInv, LocksBalance
    <3>2. lock[x] # << >>
      BY <3>1, NoMembers
    <3>3. rest[x] = Tail(lock[x])
      BY <2>2
    <3>. QED
      BY <2>1, <2>2, <3>1, <3>2, <3>3, WithoutHead
  <2>3. CASE x \notin freed
    BY <2>1, <2>3
  <2>. QED
    BY <2>2, <2>3
<1>3. ASSUME NEW x \in Locks, NEW d \in Calls
      PROVE  d \in Members(rest[x]) <=> x \in Wants(call[d]) /\ (d = c => x \notin freed)
  <2>1. d \in Members(lock[x]) <=> x \in Wants(call[d])
    BY DEF LocksInv, LocksBalance
  <2>2. ASSUME x \in freed, d # c PROVE Members(rest[x]) = Members(lock[x]) \ {c}
    BY <1>2, <2>2
  <2>. QED
    BY <1>2, <2>1
<1>. HIDE DEF rest
<1>4. \A x \in Locks : lock'[x] = IF x \in joined THEN Append(rest[x], c) ELSE rest[x]
  BY <1>1
<1>5. ASSUME NEW x \in Locks
      PROVE  /\ lock'[x] \in Seq(Calls) /\ Distinct(lock'[x])
             /\ Members(lock'[x]) = Members(rest[x]) \cup (IF x \in joined THEN {c} ELSE {})
             /\ x \in joined => Head(lock'[x]) = IF rest[x] = << >> THEN c ELSE Head(rest[x])
             /\ x \notin joined => lock'[x] = rest[x]
  <2>1. CASE x \in joined
    <3>1. c \notin Members(rest[x])
      BY <1>3, <2>1
    <3>2. rest[x] \in Seq(Calls) /\ Distinct(rest[x]) /\ lock'[x] = Append(rest[x], c)
      BY <1>2, <1>4, <2>1
    <3>3. /\ Append(rest[x], c) \in Seq(Calls) /\ Distinct(Append(rest[x], c))
          /\ Members(Append(rest[x], c)) = Members(rest[x]) \cup {c}
          /\ Head(Append(rest[x], c)) = IF rest[x] = << >> THEN c ELSE Head(rest[x])
      <4>. DEFINE s == rest[x]
      <4>1. s \in Seq(Calls) /\ Distinct(s) /\ c \notin Members(s)
        BY <3>1, <3>2
      <4>. HIDE DEF s
      <4>2. /\ Append(s, c) \in Seq(Calls) /\ Distinct(Append(s, c))
            /\ Members(Append(s, c)) = Members(s) \cup {c}
            /\ Head(Append(s, c)) = IF s = << >> THEN c ELSE Head(s)
        BY <4>1, AtTheEnd
      <4>. QED
        BY <4>2, Zenon DEF s
    <3>. QED
      BY <2>1, <3>2, <3>3
  <2>2. CASE x \notin joined
    BY <1>2, <1>4, <2>2
  <2>. QED
    BY <2>1, <2>2
<1>6. ASSUME NEW x \in Locks, NEW d \in Calls
      PROVE  d \in Members(lock'[x]) <=> x \in Wants(call'[d])
  <2>1. d \in Members(lock'[x]) <=> d \in Members(rest[x]) \/ (d = c /\ x \in joined)
    BY <1>5
  <2>2. d \in Members(rest[x]) <=> x \in Wants(call[d]) /\ (d = c => x \notin freed)
    BY <1>3
  <2>3. CASE d = c
    <3>1. x \in Wants(call'[c]) <=> (x \in Wants(call[c]) /\ x \notin freed) \/ x \in joined
      OBVIOUS
    <3>. QED
      BY <2>1, <2>2, <2>3, <3>1
  <2>4. CASE d # c
    <3>1. call'[d] = call[d]
      BY <2>4
    <3>. QED
      BY <2>1, <2>2, <2>4, <3>1
  <2>. QED
    BY <2>3, <2>4
\* Who was first and has not left is still first.
<1>7. ASSUME NEW x \in Locks, NEW d \in Calls, x \in Wants(call[d]), Head(lock[x]) = d, d = c => x \notin freed
      PROVE  Head(lock'[x]) = d
  <2>1. x \notin freed
    BY <1>2, <1>7
  <2>2. rest[x] = lock[x] /\ d \in Members(rest[x])
    BY <1>2, <1>3, <1>7, <2>1
  <2>3. rest[x] # << >>
    BY <2>2, NoMembers
  <2>. QED
    BY <1>5, <1>7, <2>2, <2>3
<1>8. ASSUME NEW x \in Locks, NEW d \in Calls, x \in Wants(call'[d]), x # Awaits(call'[d])
      PROVE  Head(lock'[x]) = d
  <2>1. CASE d = c
    <3>1. x \notin joined
      BY <1>8, <2>1
    <3>2. x \in Wants(call[c]) /\ x \notin freed /\ Head(lock[x]) = c
      BY <1>8, <2>1, <3>1
    <3>. QED
      BY <1>7, <2>1, <3>2
  <2>2. CASE d # c
    <3>1. call'[d] = call[d]
      BY <2>2
    <3>2. Head(lock[x]) = d
      BY <1>8, <3>1 DEF LocksInv, LocksBalance
    <3>. QED
      BY <1>7, <1>8, <2>2, <3>1, <3>2
  <2>. QED
    BY <2>1, <2>2
<1>9. LocksBalance'
  <2>1. lock' \in [Locks -> Seq(Calls)]
    <3>1. lock' = [x \in Locks |-> lock'[x]]
      BY <1>1
    <3>. QED
      BY <1>5, <3>1
  <2>. QED
    BY <1>5, <1>6, <1>8, <2>1 DEF LocksBalance
<1>. DEFINE Ready(d) == /\ Awaits(call'[d]) \in Locks \cap Wants(call'[d])
                        /\ Head(lock'[Awaits(call'[d])]) = d
\* Those who were about to be resumed still are.
<1>10. /\ Others(c) \in Seq(Calls) /\ Distinct(Others(c))
       /\ Members(Others(c)) = Members(ready) \ {c}
  <2>1. ready \in Seq(Calls) /\ Distinct(ready)
    BY DEF LocksInv, ReadyHaveLocks
  <2>2. CASE Resumed(c)
    BY <2>1, <2>2, WithoutHead DEF Others, Resumed
  <2>3. CASE ~Resumed(c)
    BY <2>1, <2>3, NoMembers DEF Others
  <2>. QED
    BY <2>2, <2>3
<1>11. ASSUME NEW d \in Calls \ {c}, d \in Members(ready) PROVE Ready(d)
  <2>1. call'[d] = call[d]
    OBVIOUS
  <2>2. Awaits(call[d]) \in Locks \cap Wants(call[d]) /\ Head(lock[Awaits(call[d])]) = d
    BY <1>11 DEF LocksInv, ReadyHaveLocks
  <2>. QED
    BY <1>7, <2>1, <2>2
\* Each lock that is left goes to somebody who waited for it.
<1>12. ASSUME NEW i \in DOMAIN left, rest[left[i]] # << >>
       PROVE  /\ Head(rest[left[i]]) \in Calls \ {c}
              /\ Head(rest[left[i]]) \notin Members(ready)
              /\ Awaits(call[Head(rest[left[i]])]) = left[i]
              /\ Ready(Head(rest[left[i]]))
  <2>. DEFINE x == left[i]
              d == Head(rest[x])
  <2>1. x \in Locks /\ x \in freed
    BY DEF Members
  <2>. HIDE DEF x
  <2>2. d \in Members(rest[x]) /\ d \in Calls
    <3>1. rest[x] \in Seq(Calls) /\ rest[x] # << >>
      BY <1>2, <1>12, <2>1 DEF x
    <3>. QED
      BY <3>1, HeadIsMember
  <2>3. d # c /\ x \in Wants(call[d])
    BY <1>3, <2>1, <2>2
  <2>4. Head(lock[x]) = c
    BY <1>2, <2>1
  <2>5. x = Awaits(call[d])
    BY <2>1, <2>2, <2>3, <2>4 DEF LocksInv, LocksBalance
  <2>6. d \notin Members(ready)
    BY <2>3, <2>4, <2>5 DEF LocksInv, ReadyHaveLocks
  <2>7. call'[d] = call[d]
    BY <2>2, <2>3
  <2>8. Head(lock'[x]) = d
    <3>1. rest[x] # << >>
      BY <1>12 DEF x
    <3>. QED
      BY <1>5, <2>1, <3>1
  <2>9. Ready(d)
    BY <2>1, <2>3, <2>5, <2>7, <2>8
  <2>. HIDE DEF d, Ready
  <2>10. d \in Calls \ {c} /\ d \notin Members(ready) /\ Awaits(call[d]) = x /\ Ready(d)
    BY <2>2, <2>3, <2>5, <2>6, <2>9
  <2>. QED
    BY <2>10, Zenon DEF d, x
<1>13. ASSUME \E x \in joined : rest[x] = << >> PROVE Ready(c)
  <2>1. PICK x \in joined : rest[x] = << >>
    BY <1>13
  <2>. QED
    BY <1>5, <2>1
<1>. DEFINE Readies(s) == s \in Seq(Calls) /\ Distinct(s) /\ \A d \in Members(s) : Ready(d)
<1>14. Readies(goesOn) /\ Members(goesOn) \subseteq {c}
  <2>. HIDE DEF Ready
  <2>1. CASE \E x \in joined : rest[x] = << >>
    BY <1>13, <2>1, Single
  <2>2. CASE ~\E x \in joined : rest[x] = << >>
    BY <2>2, NoMembers
  <2>. QED
    BY <2>1, <2>2
<1>15. Readies(Others(c))
  <2>. HIDE DEF Ready
  <2>1. Members(ready) \subseteq Calls
    BY MembersTyped DEF LocksInv, ReadyHaveLocks
  <2>. QED
    BY <1>10, <1>11, <2>1
<1>16. ASSUME NEW i \in {1, 2}
       PROVE  /\ Readies(Woken(i))
              /\ \A d \in Members(Woken(i)) :
                   d # c /\ d \notin Members(ready) /\ i \in DOMAIN left /\ Awaits(call[d]) = left[i]
  <2>. HIDE DEF Ready
  <2>1. CASE i \in DOMAIN left /\ rest[left[i]] # << >>
    <3>. DEFINE d == Head(rest[left[i]])
    <3>1. d \in Calls \ {c} /\ d \notin Members(ready) /\ Awaits(call[d]) = left[i] /\ Ready(d)
      BY <1>12, <2>1
    <3>2. Woken(i) = <<d>>
      BY <2>1
    <3>. HIDE DEF d
    <3>3. <<d>> \in Seq(Calls) /\ Members(<<d>>) = {d} /\ Distinct(<<d>>)
      BY <3>1, Single
    <3>. QED
      BY <2>1, <3>1, <3>2, <3>3
  <2>2. CASE ~(i \in DOMAIN left /\ rest[left[i]] # << >>)
    BY <2>2, NoMembers
  <2>. QED
    BY <2>1, <2>2
<1>17. Members(Woken(1)) \cap Members(Woken(2)) = {}
  <2>1. 1 \in DOMAIN left /\ 2 \in DOMAIN left => left[1] # left[2]
    BY DEF Distinct
  <2>. HIDE DEF Woken
  <2>. QED
    BY <1>16, <2>1
<1>. HIDE DEF Ready, goesOn, Woken
<1>18. ASSUME NEW s, NEW t, Readies(s), Readies(t), Members(s) \cap Members(t) = {}
       PROVE  Readies(s \o t) /\ Members(s \o t) = Members(s) \cup Members(t)
  BY <1>18, Joined
<1>. HIDE DEF Readies
<1>19. Readies(goesOn \o Others(c)) /\ Members(goesOn \o Others(c)) \subseteq Members(ready) \cup {c}
  BY <1>10, <1>14, <1>15, <1>18
<1>20. /\ Readies(goesOn \o Others(c) \o Woken(1))
       /\ Members(goesOn \o Others(c) \o Woken(1)) \subseteq Members(ready) \cup {c} \cup Members(Woken(1))
  BY <1>16, <1>18, <1>19
<1>21. Readies(ready')
  BY <1>1, <1>16, <1>17, <1>18, <1>20
<1>22. ReadyHaveLocks'
  BY <1>21 DEF ReadyHaveLocks, Readies, Ready
<1>. QED
  BY <1>9, <1>22 DEF LocksInv

LEMMA KeepLocksIsRelock ==
  ASSUME LocksInv, NEW c \in Calls, ready = << >> \/ Resumed(c), KeepLocks(c)
  PROVE  Relock(c, << >>, {})
<1>1. lock \in [Locks -> Seq(Calls)] /\ ready \in Seq(Calls)
  BY DEF LocksInv, LocksBalance, ReadyHaveLocks
<1>2. Others(c) \in Seq(Calls)
  BY <1>1, WithoutHead, HeadTailProperties DEF Others, Resumed
<1>3. lock' = [x \in Locks |-> lock[x]]
  BY <1>1 DEF KeepLocks
<1>4. ready' = << >> \o Others(c) \o << >> \o << >>
  BY <1>2, ConcatEmptySeq DEF KeepLocks
<1>5. DOMAIN << >> = {}
  <2>1. Members(<< >>) = {}
    BY NoMembers
  <2>. QED
    BY <2>1 DEF Members
<1>6. {<< >>[i] : i \in DOMAIN << >>} = {} /\ 1 \notin DOMAIN << >> /\ 2 \notin DOMAIN << >>
  BY <1>5
<1>. QED
  BY <1>3, <1>4, <1>6 DEF Relock

-----------------------------------------------------------------------------
(* What a step of a call does to the invariant.                            *)

LEMMA Two ==
  ASSUME NEW S, NEW x \in S, NEW y \in S, x # y
  PROVE  <<x, y>> \in Seq(S) /\ Len(<<x, y>>) <= 2 /\ Members(<<x, y>>) = {x, y} /\ Distinct(<<x, y>>)
<1>1. /\ DOMAIN <<x, y>> = {1, 2} /\ <<x, y>>[1] = x /\ <<x, y>>[2] = y
      /\ <<x, y>> \in Seq(S) /\ Len(<<x, y>>) <= 2
  OBVIOUS
<1>. QED
  BY <1>1 DEF Members, Distinct

LEMMA One ==
  ASSUME NEW S, NEW x \in S
  PROVE  <<x>> \in Seq(S) /\ Len(<<x>>) <= 2 /\ Members(<<x>>) = {x} /\ Distinct(<<x>>)
<1>1. Len(<<x>>) <= 2
  OBVIOUS
<1>. QED
  BY <1>1, Single

LEMMA LocksDiffer ==
  /\ None \notin Locks /\ Manager \in Locks /\ Plugins \subseteq Locks /\ Objects \subseteq Locks
  /\ Manager \notin Plugins /\ Manager \notin Objects /\ Plugins \cap Objects = {}
BY PluginAssumption DEF Locks

\* A call that need not wait, or no longer, is first in all its queues.
LEMMA HasLocks ==
  ASSUME LocksInv, NEW c \in Calls, Resumed(c) \/ Awaits(call[c]) \notin Locks
  PROVE  \A x \in Locks \cap Wants(call[c]) : Head(lock[x]) = c
<1>1. Resumed(c) => Head(lock[Awaits(call[c])]) = c
  BY HeadIsMember DEF Resumed, LocksInv, ReadyHaveLocks
<1>. QED
  BY <1>1 DEF LocksInv, LocksBalance

\* One call at a time is past the queue of a record.
LEMMA OwnRecord ==
  ASSUME CallsTyped, LocksInv, NEW c \in Calls, NEW d \in Calls, NEW p \in Plugins,
         Head(lock[p]) = c, call[d].plugin = p, call[d].at \notin {"idle"} \cup Waiting
  PROVE  d = c
<1>1. call[d] \in FitCalls
  BY DEF CallsTyped
<1>2. p \in Locks /\ p \in Wants(call[d])
  BY LocksDiffer DEF Wants
<1>3. Awaits(call[d]) # p
  BY <1>1, LocksDiffer DEF Awaits, FitCalls, CallRecord, Executing
<1>. QED
  BY <1>2, <1>3 DEF LocksInv, LocksBalance

\* What the record of a call can be that has its lock.
LEMMA RecordFits ==
  ASSUME CallsTyped, LocksInv, RecordsInv, NEW c \in Calls, NEW p \in Plugins, Head(lock[p]) = c
  PROVE  /\ state[p] = "PRELOADING" => call[c].plugin = p /\ call[c].at \in Loading
         /\ state[p] = "BUSY" => call[c].plugin = p /\ call[c].at \in Executing
         /\ state[p] = "EVICTING" => call[c].plugin = p /\ Unloads(call[c])
<1>1. ASSUME state[p] = "PRELOADING" PROVE call[c].plugin = p /\ call[c].at \in Loading
  <2>1. PICK d \in Calls : call[d].plugin = p /\ call[d].at \in Loading
    BY <1>1 DEF RecordsInv, PassingHaveCalls, SomeoneHas
  <2>. QED
    BY <2>1, OwnRecord DEF Loading, Waiting
<1>2. ASSUME state[p] = "BUSY" PROVE call[c].plugin = p /\ call[c].at \in Executing
  <2>1. PICK d \in Calls : call[d].plugin = p /\ call[d].at \in Executing
    BY <1>2 DEF RecordsInv, PassingHaveCalls, SomeoneHas
  <2>. QED
    BY <2>1, OwnRecord DEF Executing, Waiting
<1>3. ASSUME state[p] = "EVICTING" PROVE call[c].plugin = p /\ Unloads(call[c])
  <2>1. PICK d \in Calls : call[d].plugin = p /\ Unloads(call[d])
    BY <1>3 DEF RecordsInv, PassingHaveCalls
  <2>. QED
    BY <2>1, OwnRecord DEF Unloads, Unloading, Stopping, Waiting
<1>. QED
  BY <1>1, <1>2, <1>3

\* What a record in the hands of `r` may become.
Suits(r, p, s) ==
  /\ s = "PRELOADING" => r.plugin = p /\ r.at \in Loading
  /\ s = "BUSY" => r.plugin = p /\ r.at \in Executing
  /\ s = "EVICTING" => r.plugin = p /\ Unloads(r)
  /\ Unloads(r) => s \in {"EVICTING", "FAILED"} /\ r.plugin = p

LEMMA RecordStep ==
  ASSUME CallsTyped, LocksInv, RecordsInv, NEW c \in Calls, NEW p \in Plugins, Head(lock[p]) = c,
         call[c].plugin = p,
         NEW r, call' = [call EXCEPT ![c] = r],
         NEW s \in States, state' = [state EXCEPT ![p] = s],
         Suits(r, p, s),
         s \in Usable \cup {"BUSY"} => p \in assigned',
         assigned \ {p} \subseteq assigned'
  PROVE  RecordsInv'
<1>1. state' \in [Plugins -> States] /\ state'[p] = s /\ \A q \in Plugins \ {p} : state'[q] = state[q]
  BY DEF RecordsInv
<1>2. call'[c] = r /\ \A d \in Calls \ {c} : call'[d] = call[d]
  BY DEF CallsTyped
<1>3. ASSUME NEW q \in Plugins \ {p}
      PROVE  /\ state'[q] = "PRELOADING" => \E d \in Calls : call'[d].plugin = q /\ call'[d].at \in Loading
             /\ state'[q] = "BUSY" => \E d \in Calls : call'[d].plugin = q /\ call'[d].at \in Executing
             /\ state'[q] = "EVICTING" => \E d \in Calls : call'[d].plugin = q /\ Unloads(call'[d])
  <2>1. \A d \in Calls : call[d].plugin = q => call'[d] = call[d]
    BY <1>2
  <2>. QED
    BY <1>1, <2>1 DEF RecordsInv, PassingHaveCalls, SomeoneHas
<1>4. PassingHaveCalls'
  BY <1>1, <1>2, <1>3 DEF PassingHaveCalls, SomeoneHas, Suits
<1>5. ASSUME NEW d \in Calls, Unloads(call'[d]) PROVE state'[call'[d].plugin] \in {"EVICTING", "FAILED"}
  <2>1. CASE d = c
    BY <1>1, <1>2, <1>5, <2>1 DEF Suits
  <2>2. CASE d # c
    <3>1. call'[d] = call[d] /\ call[d].at \notin {"idle"} \cup Waiting
      BY <1>2, <1>5, <2>2 DEF Unloads, Unloading, Stopping, Waiting
    <3>2. call[d].plugin \in Plugins /\ call[d].plugin # p
      BY <2>2, <3>1, OwnRecord DEF CallsTyped, FitCalls
    <3>. QED
      BY <1>1, <1>5, <3>1, <3>2 DEF RecordsInv, UnloadedAreEvicted
  <2>. QED
    BY <2>1, <2>2
<1>6. UsableAreAssigned'
  BY <1>1 DEF RecordsInv, UsableAreAssigned
<1>. QED
  BY <1>1, <1>4, <1>5, <1>6 DEF RecordsInv, UnloadedAreEvicted

LEMMA CallStep ==
  ASSUME CallsTyped, LocksInv, NEW c \in Calls, ready = << >> \/ Resumed(c),
         Resumed(c) \/ Awaits(call[c]) \notin Locks,
         NEW r \in FitCalls, call' = [call EXCEPT ![c] = r],
         NEW left \in Seq(Locks), Len(left) <= 2, Distinct(left),
         NEW joined \in SUBSET Locks, \A x, y \in joined : x = y,
         Relock(c, left, joined),
         Members(left) \subseteq Wants(call[c]),
         Wants(r) = (Wants(call[c]) \ Members(left)) \cup joined,
         joined \cap (Wants(call[c]) \ Members(left)) = {},
         \A x \in joined : Awaits(r) = x
  PROVE  CallsTyped' /\ LocksInv'
<1>1. call'[c] = r /\ \A d \in Calls \ {c} : call'[d] = call[d]
  BY DEF CallsTyped
<1>2. CallsTyped'
  BY DEF CallsTyped
<1>3. \A x \in Locks \cap Wants(call[c]) : Head(lock[x]) = c
  BY HasLocks
<1>4. LocksInv'
  BY <1>1, <1>3, RelockKeeps
<1>. QED
  BY <1>2, <1>4

\* A call releases locks and queues up for another.
LEMMA JoinStep ==
  ASSUME CallsTyped, LocksInv, NEW c \in Calls, ready = << >> \/ Resumed(c),
         Resumed(c) \/ Awaits(call[c]) \notin Locks,
         NEW r \in FitCalls, call' = [call EXCEPT ![c] = r],
         NEW left \in Seq(Locks), Len(left) <= 2, Distinct(left),
         NEW x \in Locks, Relock(c, left, {x}),
         Members(left) \subseteq Wants(call[c]),
         Wants(r) = (Wants(call[c]) \ Members(left)) \cup {x},
         x \notin Wants(call[c]) \ Members(left),
         Awaits(r) = x
  PROVE  CallsTyped' /\ LocksInv'
<1>. DEFINE joined == {x}
<1>1. /\ joined \in SUBSET Locks /\ \A y, z \in joined : y = z
      /\ joined \cap (Wants(call[c]) \ Members(left)) = {}
      /\ \A y \in joined : Awaits(r) = y
  OBVIOUS
<1>2. Relock(c, left, joined) /\ Wants(r) = (Wants(call[c]) \ Members(left)) \cup joined
  OBVIOUS
<1>. HIDE DEF joined
<1>. QED
  BY <1>1, <1>2, CallStep

LEMMA SwitchStep ==
  ASSUME CallsTyped, LocksInv, NEW c \in Calls, ready = << >> \/ Resumed(c),
         Resumed(c) \/ Awaits(call[c]) \notin Locks,
         NEW r \in FitCalls, call' = [call EXCEPT ![c] = r],
         NEW y \in Locks \cap Wants(call[c]), NEW x \in Locks, Relock(c, <<y>>, {x}),
         Wants(r) = (Wants(call[c]) \ {y}) \cup {x},
         x \notin Wants(call[c]) \ {y},
         Awaits(r) = x
  PROVE  CallsTyped' /\ LocksInv'
<1>. DEFINE left == <<y>>
<1>1. left \in Seq(Locks) /\ Len(left) <= 2 /\ Distinct(left) /\ Members(left) = {y}
  BY One
<1>2. Relock(c, left, {x})
  OBVIOUS
<1>. HIDE DEF left
<1>3. /\ Members(left) \subseteq Wants(call[c]) /\ x \notin Wants(call[c]) \ Members(left)
      /\ Wants(r) = (Wants(call[c]) \ Members(left)) \cup {x}
  BY <1>1
<1>. QED
  BY <1>1, <1>2, <1>3, JoinStep

\* A call releases locks and goes on, or ends.
LEMMA LeaveStep ==
  ASSUME CallsTyped, LocksInv, NEW c \in Calls, ready = << >> \/ Resumed(c),
         Resumed(c) \/ Awaits(call[c]) \notin Locks,
         NEW r \in FitCalls, call' = [call EXCEPT ![c] = r],
         NEW left \in Seq(Locks), Len(left) <= 2, Distinct(left),
         Relock(c, left, {}),
         Members(left) \subseteq Wants(call[c]),
         Wants(r) = Wants(call[c]) \ Members(left)
  PROVE  CallsTyped' /\ LocksInv'
<1>. DEFINE joined == {}
<1>1. /\ joined \in SUBSET Locks /\ \A y, z \in joined : y = z
      /\ joined \cap (Wants(call[c]) \ Members(left)) = {}
      /\ \A y \in joined : Awaits(r) = y
      /\ Wants(r) = (Wants(call[c]) \ Members(left)) \cup joined
  OBVIOUS
<1>2. Relock(c, left, joined)
  OBVIOUS
<1>. HIDE DEF joined
<1>. QED
  BY <1>1, <1>2, CallStep

LEMMA DropStep ==
  ASSUME CallsTyped, LocksInv, NEW c \in Calls, ready = << >> \/ Resumed(c),
         Resumed(c) \/ Awaits(call[c]) \notin Locks,
         NEW r \in FitCalls, call' = [call EXCEPT ![c] = r],
         NEW y \in Locks \cap Wants(call[c]), Relock(c, <<y>>, {}), Wants(r) = Wants(call[c]) \ {y}
  PROVE  CallsTyped' /\ LocksInv'
<1>. DEFINE left == <<y>>
<1>1. left \in Seq(Locks) /\ Len(left) <= 2 /\ Distinct(left) /\ Members(left) = {y}
  BY One
<1>2. Relock(c, left, {})
  OBVIOUS
<1>. HIDE DEF left
<1>3. Members(left) \subseteq Wants(call[c]) /\ Wants(r) = Wants(call[c]) \ Members(left)
  BY <1>1
<1>. QED
  BY <1>1, <1>2, <1>3, LeaveStep

\* Whoever loads into a group after a step did so before.
NoNewLoader ==
  \A d \in Calls : call'[d].at \in {"load_lock", "loading"} =>
    /\ call[d].at \in {"load_lock", "loading"}
    /\ call'[d].plugin = call[d].plugin /\ call'[d].group = call[d].group

LEMMA GroupsStay ==
  ASSUME GroupsInv, groups' \in [Groups -> Objects \cup {None}], heap' = heap, NoNewLoader
  PROVE  GroupsInv'
BY DEF GroupsInv, NoNewLoader, LoadersMatch, GroupMembersMatch

LEMMA GroupsKept ==
  ASSUME GroupsInv, CallsTyped', groups' \in [Groups -> Objects \cup {None}], NoNewLoader,
         NEW k \in [Objects -> [packages : SUBSET Plugins, permissions : {Permissions[p] : p \in Plugins} \cup {None}]],
         Keep(k),
         \A o \in Objects : /\ k[o].permissions = heap[o].permissions
                            /\ \A p \in k[o].packages : Permissions[p] = heap[o].permissions
  PROVE  GroupsInv'
<1>1. heap' = [o \in Objects |-> IF o \in InUse' THEN k[o] ELSE Empty]
  BY DEF Keep
<1>2. Empty \in [packages : SUBSET Plugins, permissions : {Permissions[p] : p \in Plugins} \cup {None}]
  BY DEF Empty
<1>3. heap' \in [Objects -> [packages : SUBSET Plugins, permissions : {Permissions[p] : p \in Plugins} \cup {None}]]
  BY <1>1, <1>2
<1>4. GroupMembersMatch'
  BY <1>1 DEF GroupMembersMatch, Empty
<1>5. ASSUME NEW d \in Calls, call'[d].at \in {"load_lock", "loading"}
      PROVE  heap'[call'[d].group].permissions = Permissions[call'[d].plugin]
  <2>1. call'[d].group \in Objects /\ call'[d].group \in InUse'
    BY <1>5 DEF CallsTyped, FitCalls, InUse
  <2>2. heap'[call'[d].group].permissions = heap[call[d].group].permissions
    BY <1>1, <1>5, <2>1 DEF NoNewLoader
  <2>. QED
    BY <1>5, <2>2 DEF GroupsInv, LoadersMatch, NoNewLoader
<1>. QED
  BY <1>3, <1>4, <1>5 DEF GroupsInv, LoadersMatch

\* Where a call stands tells which queues it stands in.
LEMMA Standing ==
  ASSUME NEW r \in FitCalls
  PROVE  /\ r.at = "idle" => Wants(r) = {} /\ Awaits(r) = None
         /\ r.at # "idle" => r.plugin \in Plugins
         /\ r.at \in Waiting => Wants(r) = {r.plugin} /\ Awaits(r) = r.plugin
         /\ r.at = "acquire" => Wants(r) = {r.plugin, Manager} /\ Awaits(r) = Manager
         /\ r.at = "starting" => Wants(r) = {r.plugin, Manager} /\ Awaits(r) = None
         /\ r.at \in {"load_lock", "execute_lock"} =>
              Wants(r) = {r.plugin, r.group} /\ Awaits(r) = r.group /\ r.group \in Objects
         /\ r.at \in {"loading", "executing"} =>
              Wants(r) = {r.plugin, r.group} /\ Awaits(r) = None /\ r.group \in Objects
         /\ r.at \in Unloading => Wants(r) = {r.plugin} \cup ({r.group} \ {None}) /\ r.group \in Objects \cup {None}
         /\ r.at = "unload_lock" => Awaits(r) = r.group
         /\ r.at = "unloading" => Awaits(r) = None
         /\ r.at \in Stopping => /\ Awaits(r) = None /\ r.group \in Objects
                                 /\ Wants(r) = IF r.why = "unload" THEN {r.plugin, r.group} ELSE {r.plugin}
<1>. USE LocksDiffer DEF FitCalls, CallRecord, Wants, Awaits, InGroup, Unloads, Waiting, Executing, Unloading, Stopping
<1>1. CASE r.at \in {"idle"} \cup Waiting
  BY <1>1
<1>2. CASE r.at \in {"acquire", "starting"}
  BY <1>2
<1>3. CASE r.at \in {"load_lock", "loading", "execute_lock", "executing"}
  BY <1>3
<1>4. CASE r.at \in Unloading
  BY <1>4
<1>5. CASE r.at \in Stopping
  BY <1>5
<1>. QED
  BY <1>1, <1>2, <1>3, <1>4, <1>5 DEF Places, Loading

LEMMA EndStep ==
  ASSUME CallsTyped, LocksInv, NEW c \in Calls, ready = << >> \/ Resumed(c),
         Resumed(c) \/ Awaits(call[c]) \notin Locks,
         NEW left \in Seq(Locks), Len(left) <= 2, Distinct(left), Members(left) = Wants(call[c]),
         End(c), Relock(c, left, {})
  PROVE  CallsTyped' /\ LocksInv' /\ NoNewLoader
<1>1. Idle \in FitCalls
  BY DEF Idle, FitCalls, CallRecord, Places, Executing, Stopping
<1>2. Wants(Idle) = {} /\ Awaits(Idle) = None
  BY <1>1, Standing DEF Idle
<1>3. call' = [call EXCEPT ![c] = Idle]
  BY DEF End
<1>4. CallsTyped' /\ LocksInv'
  BY <1>1, <1>2, <1>3, LeaveStep
<1>5. NoNewLoader
  BY <1>3 DEF NoNewLoader, CallsTyped, Idle
<1>. QED
  BY <1>4, <1>5

\* A call queues up for a lock and releases none.
LEMMA EnterStep ==
  ASSUME CallsTyped, LocksInv, NEW c \in Calls, ready = << >> \/ Resumed(c),
         Resumed(c) \/ Awaits(call[c]) \notin Locks,
         NEW r \in FitCalls, call' = [call EXCEPT ![c] = r],
         NEW x \in Locks, Relock(c, << >>, {x}),
         Wants(r) = Wants(call[c]) \cup {x}, x \notin Wants(call[c]), Awaits(r) = x
  PROVE  CallsTyped' /\ LocksInv'
<1>. DEFINE left == << >>
<1>1. left \in Seq(Locks) /\ Len(left) <= 2 /\ Distinct(left) /\ Members(left) = {}
  BY NoMembers, EmptySeq
<1>2. Relock(c, left, {x})
  OBVIOUS
<1>. HIDE DEF left
<1>3. /\ Members(left) \subseteq Wants(call[c]) /\ x \notin Wants(call[c]) \ Members(left)
      /\ Wants(r) = (Wants(call[c]) \ Members(left)) \cup {x}
  BY <1>1
<1>. QED
  BY <1>1, <1>2, <1>3, JoinStep

LEMMA StayStep ==
  ASSUME CallsTyped, LocksInv, NEW c \in Calls, ready = << >> \/ Resumed(c),
         Resumed(c) \/ Awaits(call[c]) \notin Locks,
         NEW r \in FitCalls, call' = [call EXCEPT ![c] = r],
         Wants(r) = Wants(call[c]), KeepLocks(c)
  PROVE  CallsTyped' /\ LocksInv'
<1>1. Relock(c, << >>, {})
  BY KeepLocksIsRelock
<1>2. << >> \in Seq(Locks) /\ Len(<< >>) <= 2 /\ Distinct(<< >>) /\ Members(<< >>) = {}
  BY NoMembers, EmptySeq
<1>. QED
  BY <1>1, <1>2, LeaveStep

LEMMA LoaderStep ==
  ASSUME CallsTyped, NEW c \in Calls, NEW r, call' = [call EXCEPT ![c] = r],
         r.at \in {"load_lock", "loading"} =>
           call[c].at \in {"load_lock", "loading"} /\ r.plugin = call[c].plugin /\ r.group = call[c].group
  PROVE  NoNewLoader
BY DEF CallsTyped, NoNewLoader

LEMMA RecordStays ==
  ASSUME CallsTyped, LocksInv, RecordsInv, NEW c \in Calls, call[c].at # "idle", Head(lock[call[c].plugin]) = c,
         NEW r, call' = [call EXCEPT ![c] = r],
         call[c].at \in Loading => r.at \in Loading /\ r.plugin = call[c].plugin,
         call[c].at \in Executing => r.at \in Executing /\ r.plugin = call[c].plugin,
         Unloads(call[c]) <=> Unloads(r),
         Unloads(r) => r.plugin = call[c].plugin,
         UNCHANGED record
  PROVE  RecordsInv'
<1>. DEFINE p == call[c].plugin
<1>1. p \in Plugins /\ state[p] \in States
  BY DEF CallsTyped, FitCalls, RecordsInv
<1>2. Suits(r, p, state[p])
  BY <1>1, RecordFits DEF Suits, RecordsInv, UnloadedAreEvicted
<1>3. state' = [state EXCEPT ![p] = state[p]] /\ assigned' = assigned
  BY <1>1 DEF RecordsInv, record
<1>4. state[p] \in Usable \cup {"BUSY"} => p \in assigned
  BY <1>1 DEF RecordsInv, UsableAreAssigned
<1>. HIDE DEF p
<1>. QED
  BY <1>1, <1>2, <1>3, <1>4, RecordStep DEF p

-----------------------------------------------------------------------------
(* The steps of load().                                                    *)

LEMMA LoadReturnsStep ==
  ASSUME CallsTyped, LocksInv, NEW c \in Calls, ready = << >> \/ Resumed(c),
         Resumed(c) \/ Awaits(call[c]) \notin Locks, call[c].at \in {"load", "loading"},
         NEW left \in Seq(Locks), Len(left) <= 2, Distinct(left), Members(left) = Wants(call[c]),
         LoadReturns(c, left)
  PROVE  /\ CallsTyped' /\ LocksInv' /\ NoNewLoader
         /\ \E r \in FitCalls : call' = [call EXCEPT ![c] = r] /\ r.at \in {"idle", "execute"}
<1>1. CASE call[c].op = "execute"
  <2>. DEFINE r == [call[c] EXCEPT !.at = "execute"]
              p == call[c].plugin
  <2>1. call[c] \in FitCalls /\ p \in Plugins /\ p \in Locks /\ p \in Wants(call[c])
    <3>1. call[c] \in FitCalls /\ call[c].at # "idle"
      BY DEF CallsTyped
    <3>. QED
      BY <3>1, LocksDiffer DEF FitCalls, Wants
  <2>2. r \in FitCalls /\ r.at = "execute" /\ r.plugin = p
    BY <2>1 DEF FitCalls, CallRecord, Places, Waiting, Executing, Stopping
  <2>3. call' = [call EXCEPT ![c] = r] /\ Relock(c, left, {p})
    BY <1>1 DEF LoadReturns, Goto, Subject, CallsTyped
  <2>. HIDE DEF r
  <2>4. Wants(r) = {p} /\ Awaits(r) = p
    BY <2>2, Standing DEF Waiting
  <2>5. Wants(r) = (Wants(call[c]) \ Members(left)) \cup {p} /\ p \notin Wants(call[c]) \ Members(left)
    BY <2>1, <2>4
  <2>. HIDE DEF p
  <2>6. CallsTyped' /\ LocksInv'
    BY <2>1, <2>2, <2>3, <2>4, <2>5, JoinStep
  <2>. QED
    BY <2>2, <2>3, <2>6, LoaderStep
<1>2. CASE call[c].op # "execute"
  <2>1. End(c) /\ Relock(c, left, {})
    BY <1>2 DEF LoadReturns
  <2>2. call' = [call EXCEPT ![c] = Idle] /\ Idle \in FitCalls /\ Idle.at = "idle"
    BY <2>1 DEF End, Idle, FitCalls, CallRecord, Places, Executing, Stopping
  <2>. QED
    BY <2>1, <2>2, EndStep
<1>. QED
  BY <1>1, <1>2

\* What is common to all steps of a call that stands at `at` and has its locks.
LEMMA AtWork ==
  ASSUME IInv, NEW c \in Calls, call[c].at # "idle", Resumed(c) \/ Awaits(call[c]) \notin Locks
  PROVE  /\ CallsTyped /\ LocksInv /\ RecordsInv /\ GroupsInv
         /\ call[c] \in FitCalls /\ call[c].plugin \in Plugins /\ call[c].plugin \in Locks
         /\ Name(c) \in Groups
         /\ Head(lock[call[c].plugin]) = c
         /\ call[c].plugin \in Wants(call[c])
<1>1. call[c] \in FitCalls /\ call[c].plugin \in Plugins
  BY DEF IInv, CallsTyped, FitCalls
<1>2. call[c].plugin \in Wants(call[c]) /\ call[c].plugin \in Locks
  BY <1>1, LocksDiffer DEF Wants
<1>. QED
  BY <1>1, <1>2, HasLocks, PluginAssumption DEF IInv, Name, Subject

LEMMA AlreadyLoadedStep ==
  ASSUME IInv, NEW c \in Calls, ready = << >> \/ Resumed(c), AlreadyLoaded(c)
  PROVE  IInv'
<1>. DEFINE p == call[c].plugin
<1>1. /\ call[c].at = "load" /\ Resumed(c) /\ LoadReturns(c, <<p>>)
      /\ UNCHANGED <<record, groups, heap, process>> /\ UNCHANGED record
  BY DEF AlreadyLoaded, At, Subject
<1>2. CallsTyped /\ LocksInv /\ RecordsInv /\ GroupsInv /\ call[c] \in FitCalls /\ p \in Locks /\ Head(lock[p]) = c
  BY <1>1, AtWork
<1>3. Wants(call[c]) = {p}
  BY <1>1, <1>2, Standing DEF Waiting
<1>4. <<p>> \in Seq(Locks) /\ Len(<<p>>) <= 2 /\ Distinct(<<p>>) /\ Members(<<p>>) = {p}
  BY <1>2, One
<1>. HIDE DEF p
<1>5. /\ CallsTyped' /\ LocksInv' /\ NoNewLoader
      /\ \E r \in FitCalls : call' = [call EXCEPT ![c] = r] /\ r.at \in {"idle", "execute"}
  BY <1>1, <1>2, <1>3, <1>4, LoadReturnsStep
<1>6. PICK r \in FitCalls : call' = [call EXCEPT ![c] = r] /\ r.at \in {"idle", "execute"}
  BY <1>5
<1>7. RecordsInv'
  BY <1>1, <1>2, <1>6, RecordStays DEF p, Loading, Executing, Unloads, Unloading, Stopping
<1>8. GroupsInv'
  BY <1>1, <1>2, <1>5, GroupsStay DEF GroupsInv
<1>. QED
  BY <1>5, <1>7, <1>8 DEF IInv

LEMMA BeginLoadStep ==
  ASSUME IInv, NEW c \in Calls, ready = << >> \/ Resumed(c), BeginLoad(c)
  PROVE  IInv'
<1>. DEFINE p == call[c].plugin
            r == [call[c] EXCEPT !.at = "acquire"]
<1>1. /\ call[c].at = "load" /\ Resumed(c) /\ state' = [state EXCEPT ![p] = "PRELOADING"]
      /\ call' = [call EXCEPT ![c] = r] /\ Relock(c, << >>, {Manager})
      /\ UNCHANGED <<assigned, groups, heap>>
  BY DEF BeginLoad, At, Subject, Goto, IInv, CallsTyped
<1>2. /\ CallsTyped /\ LocksInv /\ RecordsInv /\ GroupsInv /\ call[c] \in FitCalls
      /\ p \in Plugins /\ p \in Locks /\ Head(lock[p]) = c
  BY <1>1, AtWork
<1>3. Wants(call[c]) = {p}
  BY <1>1, <1>2, Standing DEF Waiting
<1>4. r \in FitCalls /\ r.at = "acquire" /\ r.plugin = p
  BY <1>1, <1>2 DEF FitCalls, CallRecord, Places, Loading, Executing, Stopping
<1>. HIDE DEF r
<1>5. Wants(r) = {p, Manager} /\ Awaits(r) = Manager
  BY <1>4, Standing
<1>6. Manager \notin Wants(call[c]) /\ Wants(r) = Wants(call[c]) \cup {Manager} /\ Manager \in Locks
  BY <1>2, <1>3, <1>5, LocksDiffer
<1>7. CallsTyped' /\ LocksInv'
  BY <1>1, <1>2, <1>4, <1>5, <1>6, EnterStep
<1>8. RecordsInv'
  <2>1. Suits(r, p, "PRELOADING") /\ "PRELOADING" \in States /\ "PRELOADING" \notin Usable \cup {"BUSY"}
    BY <1>4 DEF Suits, Loading, Unloads, Unloading, Stopping, States, Usable
  <2>. HIDE DEF p
  <2>. QED
    BY <1>1, <1>2, <2>1, RecordStep DEF p
<1>9. GroupsInv'
  BY <1>1, <1>2, <1>4, LoaderStep, GroupsStay DEF GroupsInv
<1>. QED
  BY <1>7, <1>8, <1>9 DEF IInv

LEMMA FindGroupStep ==
  ASSUME IInv, NEW c \in Calls, ready = << >> \/ Resumed(c), FindGroup(c)
  PROVE  IInv'
<1>. DEFINE p == call[c].plugin
            o == groups[Name(c)]
            r == [call[c] EXCEPT !.at = "load_lock", !.group = o]
<1>1. /\ call[c].at = "acquire" /\ Resumed(c) /\ o # None /\ heap[o].permissions = Permissions[p]
      /\ call' = [call EXCEPT ![c] = r] /\ Relock(c, <<Manager>>, {o})
      /\ UNCHANGED <<record, groups, heap>> /\ UNCHANGED record
  BY DEF FindGroup, Joins, At, Subject, IInv, CallsTyped
<1>2. /\ CallsTyped /\ LocksInv /\ RecordsInv /\ GroupsInv /\ call[c] \in FitCalls
      /\ p \in Plugins /\ p \in Locks /\ Head(lock[p]) = c /\ Name(c) \in Groups
  BY <1>1, AtWork
<1>3. Wants(call[c]) = {p, Manager}
  BY <1>1, <1>2, Standing
<1>4. o \in Objects /\ o \in Locks
  BY <1>1, <1>2, LocksDiffer DEF GroupsInv
<1>5. r \in FitCalls /\ r.at = "load_lock" /\ r.plugin = p /\ r.group = o
  BY <1>1, <1>2, <1>4 DEF FitCalls, CallRecord, Places, Loading, Executing, Stopping
<1>. HIDE DEF r
<1>6. Wants(r) = {p, o} /\ Awaits(r) = o
  BY <1>5, Standing
<1>8. /\ Manager \in Locks \cap Wants(call[c])
      /\ Wants(r) = (Wants(call[c]) \ {Manager}) \cup {o} /\ o \notin Wants(call[c]) \ {Manager}
  BY <1>2, <1>3, <1>4, <1>6, LocksDiffer
<1>. HIDE DEF p, o
<1>9. CallsTyped' /\ LocksInv'
  BY <1>1, <1>2, <1>4, <1>5, <1>6, <1>8, SwitchStep
<1>10. RecordsInv'
  BY <1>1, <1>2, <1>5, RecordStays DEF p, Loading, Executing, Unloads, Unloading, Stopping
<1>11. LoadersMatch'
  <2>1. call'[c] = r /\ \A d \in Calls \ {c} : call'[d] = call[d]
    BY <1>1, <1>2 DEF CallsTyped
  <2>. QED
    BY <1>1, <1>2, <1>5, <2>1 DEF LoadersMatch, GroupsInv
<1>12. GroupsInv'
  BY <1>1, <1>2, <1>11 DEF GroupsInv, GroupMembersMatch
<1>. QED
  BY <1>9, <1>10, <1>12 DEF IInv

\* A call leaves its record FAILED behind, or at rest, and ends.
LEMMA RecordEnds ==
  ASSUME CallsTyped, LocksInv, RecordsInv, NEW c \in Calls, call[c].at # "idle", Head(lock[call[c].plugin]) = c,
         End(c), NEW s \in Settled, state' = [state EXCEPT ![call[c].plugin] = s],
         s \in Usable => call[c].plugin \in assigned',
         assigned \ {call[c].plugin} \subseteq assigned'
  PROVE  RecordsInv'
<1>. DEFINE p == call[c].plugin
<1>1. p \in Plugins
  BY DEF CallsTyped, FitCalls
<1>2. Suits(Idle, p, s) /\ s \in States /\ s # "BUSY"
  BY DEF Suits, Idle, Settled, Unloads, Unloading, Stopping, States
<1>3. call' = [call EXCEPT ![c] = Idle]
  BY DEF End
<1>. HIDE DEF p
<1>. QED
  BY <1>1, <1>2, <1>3, RecordStep DEF p

LEMMA FailAcquireStep ==
  ASSUME IInv, NEW c \in Calls, ready = << >> \/ Resumed(c), Resumed(c) \/ Awaits(call[c]) \notin Locks,
         call[c].at \in {"acquire", "starting"}, FailAcquire(c)
  PROVE  IInv'
<1>. DEFINE p == call[c].plugin
<1>1. /\ state' = [state EXCEPT ![p] = "FAILED"] /\ End(c) /\ Relock(c, <<Manager, p>>, {})
      /\ UNCHANGED <<assigned, groups, heap>>
  BY DEF FailAcquire, MarkFailed, Subject
<1>2. /\ CallsTyped /\ LocksInv /\ RecordsInv /\ GroupsInv /\ call[c] \in FitCalls
      /\ p \in Plugins /\ p \in Locks /\ Head(lock[p]) = c
  BY AtWork
<1>3. Wants(call[c]) = {p, Manager}
  BY <1>2, Standing
<1>4. p # Manager /\ Manager \in Locks
  BY <1>2, LocksDiffer
<1>. HIDE DEF p
<1>5. /\ <<Manager, p>> \in Seq(Locks) /\ Len(<<Manager, p>>) <= 2 /\ Members(<<Manager, p>>) = {Manager, p}
      /\ Distinct(<<Manager, p>>)
  BY <1>2, <1>4, Two
<1>6. Members(<<Manager, p>>) = Wants(call[c])
  BY <1>3, <1>5
<1>7. CallsTyped' /\ LocksInv' /\ NoNewLoader
  BY <1>1, <1>2, <1>5, <1>6, EndStep
<1>8. RecordsInv'
  BY <1>1, <1>2, RecordEnds DEF p, Settled, Usable
<1>9. GroupsInv'
  BY <1>1, <1>2, <1>7, GroupsStay DEF GroupsInv
<1>. QED
  BY <1>7, <1>8, <1>9 DEF IInv

LEMMA AcquireFails ==
  ASSUME IInv, NEW c \in Calls, ready = << >> \/ Resumed(c),
         PermissionMismatch(c) \/ StartRefused(c) \/ GroupNotStarted(c)
  PROVE  IInv'
<1>1. FailAcquire(c) /\ call[c].at \in {"acquire", "starting"}
  BY DEF PermissionMismatch, StartRefused, GroupNotStarted, At
<1>2. call[c] \in FitCalls
  BY DEF IInv, CallsTyped
<1>3. Resumed(c) \/ Awaits(call[c]) \notin Locks
  BY <1>1, <1>2, Standing, LocksDiffer DEF PermissionMismatch, StartRefused, GroupNotStarted, At
<1>. QED
  BY <1>1, <1>3, FailAcquireStep

\* A call goes on with the locks it has, and changes no record.
LEMMA GoesOn ==
  ASSUME IInv, NEW c \in Calls, ready = << >> \/ Resumed(c), Resumed(c) \/ Awaits(call[c]) \notin Locks,
         NEW r \in FitCalls, call' = [call EXCEPT ![c] = r], call[c].at # "idle",
         r.plugin = call[c].plugin,
         call[c].at \in Loading <=> r.at \in Loading,
         call[c].at \in Executing <=> r.at \in Executing,
         Unloads(call[c]) <=> Unloads(r),
         r.at \in {"load_lock", "loading"} =>
           call[c].at \in {"load_lock", "loading"} /\ r.group = call[c].group,
         Wants(r) = Wants(call[c]), KeepLocks(c), UNCHANGED record,
         CallsTyped' /\ NoNewLoader /\ GroupsInv => GroupsInv'
  PROVE  IInv'
<1>1. /\ CallsTyped /\ LocksInv /\ RecordsInv /\ GroupsInv /\ Head(lock[call[c].plugin]) = c
  BY AtWork
<1>2. CallsTyped' /\ LocksInv'
  BY <1>1, StayStep
<1>3. RecordsInv'
  BY <1>1, RecordStays
<1>4. NoNewLoader
  BY <1>1, LoaderStep
<1>. QED
  BY <1>1, <1>2, <1>3, <1>4 DEF IInv

LEMMA StartGroupStep ==
  ASSUME IInv, NEW c \in Calls, ready = << >> \/ Resumed(c), StartGroup(c)
  PROVE  IInv'
<1>. DEFINE r == [call[c] EXCEPT !.at = "starting"]
<1>1. /\ call[c].at = "acquire" /\ Resumed(c) /\ call' = [call EXCEPT ![c] = r] /\ KeepLocks(c)
      /\ UNCHANGED record /\ groups' = groups /\ heap' = heap
  BY DEF StartGroup, At, Goto, IInv, CallsTyped
<1>2. call[c] \in FitCalls
  BY DEF IInv, CallsTyped
<1>3. r \in FitCalls /\ r.at = "starting" /\ r.plugin = call[c].plugin
  BY <1>1, <1>2 DEF FitCalls, CallRecord, Places, Loading, Executing, Stopping
<1>. HIDE DEF r
<1>4. Wants(r) = Wants(call[c])
  BY <1>1, <1>2, <1>3, Standing
<1>5. NoNewLoader /\ GroupsInv => GroupsInv'
  BY <1>1, GroupsStay DEF GroupsInv
<1>. QED
  BY <1>1, <1>2, <1>3, <1>4, <1>5, GoesOn DEF Loading, Executing, Unloads, Unloading, Stopping

LEMMA GroupStartedStep ==
  ASSUME IInv, NEW c \in Calls, ready = << >> \/ Resumed(c), GroupStarted(c)
  PROVE  IInv'
<1>. DEFINE p == call[c].plugin
            o == Fresh
            r == [call[c] EXCEPT !.at = "load_lock", !.group = o]
<1>1. /\ call[c].at = "starting" /\ Objects \ InUse # {}
      /\ call' = [call EXCEPT ![c] = r] /\ Relock(c, <<Manager>>, {o})
      /\ heap' = [heap EXCEPT ![o] = [packages |-> {}, permissions |-> Permissions[p]]]
      /\ groups' = [groups EXCEPT ![Name(c)] = o]
      /\ UNCHANGED record
  BY DEF GroupStarted, Joins, At, Subject, IInv, CallsTyped
<1>2. call[c] \in FitCalls
  BY DEF IInv, CallsTyped
<1>3. Awaits(call[c]) \notin Locks
  BY <1>1, <1>2, Standing, LocksDiffer
<1>4. /\ CallsTyped /\ LocksInv /\ RecordsInv /\ GroupsInv
      /\ p \in Plugins /\ p \in Locks /\ Head(lock[p]) = c /\ Name(c) \in Groups
  BY <1>1, <1>3, AtWork
<1>5. Wants(call[c]) = {p, Manager}
  BY <1>1, <1>2, Standing
<1>6. o \in Objects /\ o \in Locks /\ o \notin InUse
  BY <1>1, LocksDiffer DEF Fresh
<1>. HIDE DEF o
<1>7. r \in FitCalls /\ r.at = "load_lock" /\ r.plugin = p /\ r.group = o
  BY <1>1, <1>2, <1>4, <1>6 DEF FitCalls, CallRecord, Places, Loading, Executing, Stopping
<1>. HIDE DEF r
<1>8. Wants(r) = {p, o} /\ Awaits(r) = o
  BY <1>7, Standing
<1>10. /\ Manager \in Locks \cap Wants(call[c])
       /\ Wants(r) = (Wants(call[c]) \ {Manager}) \cup {o} /\ o \notin Wants(call[c]) \ {Manager}
  BY <1>4, <1>5, <1>6, <1>8, LocksDiffer
<1>. HIDE DEF p
<1>11. CallsTyped' /\ LocksInv'
  BY <1>1, <1>2, <1>3, <1>4, <1>6, <1>7, <1>8, <1>10, SwitchStep
<1>12. RecordsInv'
  BY <1>1, <1>2, <1>4, <1>7, RecordStays DEF p, Loading, Executing, Unloads, Unloading, Stopping
<1>13. /\ heap'[o] = [packages |-> {}, permissions |-> Permissions[p]]
       /\ \A x \in Objects \ {o} : heap'[x] = heap[x]
  BY <1>1, <1>6, <1>4 DEF GroupsInv
<1>14. LoadersMatch'
  <2>1. call'[c] = r /\ \A d \in Calls \ {c} : call'[d] = call[d] /\ call[d].group # o /\ call[d] \in FitCalls
    BY <1>1, <1>4, <1>6 DEF CallsTyped, InUse
  <2>2. heap'[r.group].permissions = Permissions[r.plugin]
    BY <1>7, <1>13
  <2>3. ASSUME NEW d \in Calls \ {c}, call[d].at \in {"load_lock", "loading"}
        PROVE  heap'[call[d].group].permissions = Permissions[call[d].plugin]
    <3>1. call[d].group \in Objects \ {o}
      BY <2>1, <2>3 DEF FitCalls
    <3>2. heap'[call[d].group] = heap[call[d].group]
      BY <1>13, <3>1
    <3>. QED
      BY <1>4, <2>3, <3>2 DEF GroupsInv, LoadersMatch
  <2>. QED
    BY <2>1, <2>2, <2>3 DEF LoadersMatch
<1>15. GroupMembersMatch'
  BY <1>4, <1>13 DEF GroupsInv, GroupMembersMatch
<1>16. heap' \in [Objects -> [packages : SUBSET Plugins, permissions : {Permissions[q] : q \in Plugins} \cup {None}]]
  BY <1>1, <1>4, <1>6 DEF GroupsInv
<1>17. groups' \in [Groups -> Objects \cup {None}]
  BY <1>1, <1>4, <1>6 DEF GroupsInv
<1>18. GroupsInv'
  BY <1>14, <1>15, <1>16, <1>17 DEF GroupsInv
<1>. QED
  BY <1>11, <1>12, <1>18 DEF IInv

LEMMA SendStep ==
  ASSUME IInv, NEW c \in Calls, ready = << >> \/ Resumed(c), Resumed(c) \/ Awaits(call[c]) \notin Locks,
         NEW where, Send(c, where),
         \/ call[c].at = "load_lock" /\ where = "loading"
         \/ call[c].at = "execute_lock" /\ where = "executing"
         \/ call[c].at = "unload_lock" /\ where = "unloading"
  PROVE  IInv'
<1>. DEFINE r == [call[c] EXCEPT !.at = where]
<1>1. /\ call' = [call EXCEPT ![c] = r] /\ KeepLocks(c)
      /\ UNCHANGED record /\ groups' = groups /\ heap' = heap
  BY DEF Send, Goto, IInv, CallsTyped
<1>2. call[c] \in FitCalls
  BY DEF IInv, CallsTyped
<1>3. r \in FitCalls /\ r.at = where /\ r.plugin = call[c].plugin /\ r.group = call[c].group
  BY <1>2 DEF FitCalls, CallRecord, Places, Loading, Executing, Unloading, Stopping
<1>. HIDE DEF r
<1>4. Wants(r) = Wants(call[c])
  BY <1>2, <1>3, Standing DEF Unloading
<1>5. NoNewLoader /\ GroupsInv => GroupsInv'
  BY <1>1, GroupsStay DEF GroupsInv
<1>. QED
  BY <1>1, <1>2, <1>3, <1>4, <1>5, GoesOn DEF Loading, Executing, Unloads, Unloading, Stopping

\* What a call that stands in the queues of record and group may release.
LEMMA BothLocks ==
  ASSUME NEW p \in Plugins, NEW o \in Objects
  PROVE  /\ <<o, p>> \in Seq(Locks) /\ Len(<<o, p>>) <= 2 /\ Distinct(<<o, p>>) /\ Members(<<o, p>>) = {p, o}
         /\ o # p /\ o \in Locks /\ p \in Locks
<1>1. o # p /\ o \in Locks /\ p \in Locks
  BY LocksDiffer
<1>2. /\ <<o, p>> \in Seq(Locks) /\ Len(<<o, p>>) <= 2 /\ Distinct(<<o, p>>) /\ Members(<<o, p>>) = {o, p}
  BY <1>1, Two
<1>. QED
  BY <1>1, <1>2

LEMMA LoadDoneStep ==
  ASSUME IInv, NEW c \in Calls, ready = << >> \/ Resumed(c), LoadDone(c)
  PROVE  IInv'
<1>. DEFINE p == call[c].plugin
            o == call[c].group
            s == IF state[p] = "PRELOADING" THEN "READY" ELSE state[p]
            k == [heap EXCEPT ![o].packages = @ \cup {p}]
<1>1. /\ call[c].at = "loading" /\ assigned' = assigned \cup {p} /\ Step(p, "PRELOADING", "READY")
      /\ \/ LoadReturns(c, <<o, p>>)
         \/ End(c) /\ Relock(c, <<o, p>>, {})
      /\ groups' = groups /\ Keep(k)
  BY DEF LoadDone, At, Subject
<1>2. call[c] \in FitCalls
  BY DEF IInv, CallsTyped
<1>3. Awaits(call[c]) \notin Locks /\ Wants(call[c]) = {p, o} /\ o \in Objects
  BY <1>1, <1>2, Standing, LocksDiffer
<1>4. /\ CallsTyped /\ LocksInv /\ RecordsInv /\ GroupsInv
      /\ p \in Plugins /\ Head(lock[p]) = c
  BY <1>1, <1>3, AtWork
<1>5. /\ <<o, p>> \in Seq(Locks) /\ Len(<<o, p>>) <= 2 /\ Distinct(<<o, p>>) /\ Members(<<o, p>>) = Wants(call[c])
  BY <1>3, <1>4, BothLocks
<1>6. state' = [state EXCEPT ![p] = s]
  BY <1>1, <1>4 DEF Step, RecordsInv
<1>7. s \in Settled /\ s \in States
  BY <1>1, <1>4, RecordFits DEF RecordsInv, States, Settled, Executing, Unloads, Unloading, Stopping
<1>8. /\ CallsTyped' /\ LocksInv' /\ NoNewLoader
      /\ \E r \in FitCalls : call' = [call EXCEPT ![c] = r] /\ r.at \in {"idle", "execute"}
  <2>. DEFINE left == <<o, p>>
  <2>1. /\ left \in Seq(Locks) /\ Len(left) <= 2 /\ Distinct(left) /\ Members(left) = Wants(call[c])
        /\ LoadReturns(c, left) \/ (End(c) /\ Relock(c, left, {}))
    BY <1>1, <1>5
  <2>. HIDE DEF left
  <2>2. CASE LoadReturns(c, left)
    BY <1>1, <1>3, <1>4, <2>1, <2>2, LoadReturnsStep
  <2>3. CASE End(c) /\ Relock(c, left, {})
    <3>1. call' = [call EXCEPT ![c] = Idle] /\ Idle \in FitCalls /\ Idle.at = "idle"
      BY <2>3 DEF End, Idle, FitCalls, CallRecord, Places, Executing, Stopping
    <3>. QED
      BY <1>3, <1>4, <2>1, <2>3, <3>1, EndStep
  <2>. QED
    BY <2>1, <2>2, <2>3
<1>. HIDE DEF s, k
<1>9. PICK r \in FitCalls : call' = [call EXCEPT ![c] = r] /\ r.at \in {"idle", "execute"}
  BY <1>8
<1>10. Suits(r, p, s)
  BY <1>7, <1>9 DEF Suits, Settled, Unloads, Unloading, Stopping
<1>11. RecordsInv'
  <2>1. p \in assigned' /\ assigned \ {p} \subseteq assigned'
    BY <1>1
  <2>. HIDE DEF p
  <2>. QED
    BY <1>4, <1>6, <1>7, <1>9, <1>10, <2>1, RecordStep DEF p
<1>12. /\ k \in [Objects -> [packages : SUBSET Plugins, permissions : {Permissions[q] : q \in Plugins} \cup {None}]]
       /\ \A x \in Objects : /\ k[x].permissions = heap[x].permissions
                             /\ k[x].packages \subseteq heap[x].packages \cup (IF x = o THEN {p} ELSE {})
  BY <1>3, <1>4 DEF k, GroupsInv
<1>13. heap[o].permissions = Permissions[p]
  BY <1>1, <1>4 DEF GroupsInv, LoadersMatch
<1>14. \A x \in Objects : \A q \in k[x].packages : Permissions[q] = heap[x].permissions
  BY <1>4, <1>12, <1>13 DEF GroupsInv, GroupMembersMatch
<1>15. GroupsInv'
  <2>1. groups' \in [Groups -> Objects \cup {None}]
    BY <1>1, <1>4 DEF GroupsInv
  <2>. QED
    BY <1>1, <1>4, <1>8, <1>12, <1>14, <2>1, GroupsKept
<1>. QED
  BY <1>8, <1>11, <1>15 DEF IInv

\* Without a change of their contents, only objects out of use go.
LEMMA KeepsHeap ==
  ASSUME GroupsInv, CallsTyped', groups' \in [Groups -> Objects \cup {None}], NoNewLoader, Keep(heap)
  PROVE  GroupsInv'
BY GroupsKept DEF GroupsInv, GroupMembersMatch

\* A call fails: it marks its record, and ends or goes on to stop a worker.
LEMMA MarksFailed ==
  ASSUME CallsTyped, LocksInv, RecordsInv, NEW c \in Calls, call[c].at # "idle", Head(lock[call[c].plugin]) = c,
         NEW r, call' = [call EXCEPT ![c] = r], ~Unloads(r),
         MarkFailed(call[c].plugin), assigned' = assigned
  PROVE  RecordsInv'
<1>. DEFINE p == call[c].plugin
<1>1. p \in Plugins
  BY DEF CallsTyped, FitCalls
<1>2. Suits(r, p, "FAILED") /\ "FAILED" \in States /\ "FAILED" \notin Usable \cup {"BUSY"}
  BY DEF Suits, States, Settled, Usable
<1>3. state' = [state EXCEPT ![p] = "FAILED"] /\ call[c].plugin = p
  BY DEF MarkFailed
<1>. HIDE DEF p
<1>. QED
  BY <1>1, <1>2, <1>3, RecordStep

LEMMA LoadFailedStep ==
  ASSUME IInv, NEW c \in Calls, ready = << >> \/ Resumed(c), LoadFailed(c)
  PROVE  IInv'
<1>. DEFINE p == call[c].plugin
            o == call[c].group
            r == [call[c] EXCEPT !.at = "stop", !.why = "load"]
<1>1. /\ call[c].at = "loading" /\ MarkFailed(p) /\ assigned' = assigned /\ groups' = groups /\ Keep(heap)
      /\ \/ call' = [call EXCEPT ![c] = r] /\ Relock(c, <<o>>, {})
         \/ End(c) /\ Relock(c, <<o, p>>, {})
  BY DEF LoadFailed, At, Subject, IInv, CallsTyped
<1>2. call[c] \in FitCalls
  BY DEF IInv, CallsTyped
<1>3. Awaits(call[c]) \notin Locks /\ Wants(call[c]) = {p, o} /\ o \in Objects
  BY <1>1, <1>2, Standing, LocksDiffer
<1>4. /\ CallsTyped /\ LocksInv /\ RecordsInv /\ GroupsInv
      /\ p \in Plugins /\ Head(lock[p]) = c
  BY <1>1, <1>3, AtWork
<1>5. /\ <<o, p>> \in Seq(Locks) /\ Len(<<o, p>>) <= 2 /\ Distinct(<<o, p>>) /\ Members(<<o, p>>) = Wants(call[c])
      /\ o # p /\ o \in Locks
  BY <1>3, <1>4, BothLocks
<1>6. CASE call' = [call EXCEPT ![c] = r] /\ Relock(c, <<o>>, {})
  <2>1. r \in FitCalls /\ r.at = "stop" /\ r.plugin = p /\ r.why = "load"
    BY <1>2, <1>3, <1>4 DEF FitCalls, CallRecord, Places, Executing, Stopping
  <2>2. r.at \in Stopping
    BY <2>1 DEF Stopping
  <2>. HIDE DEF r
  <2>3. Wants(r) = {p}
    BY <2>1, <2>2, Standing
  <2>4. o \in Locks \cap Wants(call[c]) /\ Wants(r) = Wants(call[c]) \ {o}
    BY <1>3, <1>5, <2>3
  <2>. HIDE DEF p, o
  <2>5. CallsTyped' /\ LocksInv'
    BY <1>3, <1>4, <1>6, <2>1, <2>4, DropStep
  <2>6. NoNewLoader
    BY <1>4, <1>6, <2>1, LoaderStep
  <2>7. RecordsInv'
    BY <1>1, <1>4, <1>6, <2>1, MarksFailed DEF p, Unloads, Unloading
  <2>8. GroupsInv'
    BY <1>1, <1>4, <2>5, <2>6, KeepsHeap DEF GroupsInv
  <2>. QED
    BY <2>5, <2>7, <2>8 DEF IInv
<1>7. CASE End(c) /\ Relock(c, <<o, p>>, {})
  <2>1. CallsTyped' /\ LocksInv' /\ NoNewLoader
    <3>. DEFINE left == <<o, p>>
    <3>1. /\ left \in Seq(Locks) /\ Len(left) <= 2 /\ Distinct(left) /\ Members(left) = Wants(call[c])
          /\ End(c) /\ Relock(c, left, {})
      BY <1>5, <1>7
    <3>. HIDE DEF left
    <3>. QED
      BY <1>3, <1>4, <3>1, EndStep
  <2>2. RecordsInv'
    <3>1. call' = [call EXCEPT ![c] = Idle] /\ ~Unloads(Idle)
      BY <1>7 DEF End, Idle, Unloads, Unloading, Stopping
    <3>. QED
      BY <1>1, <1>4, <3>1, MarksFailed
  <2>3. GroupsInv'
    BY <1>1, <1>4, <2>1, KeepsHeap DEF GroupsInv
  <2>. QED
    BY <2>1, <2>2, <2>3 DEF IInv
<1>. QED
  BY <1>1, <1>6, <1>7

-----------------------------------------------------------------------------
(* The steps of execute().                                                 *)

\* A call that holds only its record ends without a change of it.
LEMMA EndsUnchanged ==
  ASSUME IInv, NEW c \in Calls, Resumed(c), call[c].at \in Waiting,
         End(c), Relock(c, <<call[c].plugin>>, {}), UNCHANGED <<record, groups, heap>>
  PROVE  IInv'
<1>. DEFINE p == call[c].plugin
            left == <<p>>
<1>1. call[c].at # "idle" /\ Relock(c, left, {}) /\ UNCHANGED record /\ groups' = groups /\ heap' = heap
  BY DEF Waiting
<1>2. /\ CallsTyped /\ LocksInv /\ RecordsInv /\ GroupsInv /\ call[c] \in FitCalls /\ p \in Locks /\ Head(lock[p]) = c
  BY <1>1, AtWork
<1>3. Wants(call[c]) = {p}
  BY <1>2, Standing
<1>4. left \in Seq(Locks) /\ Len(left) <= 2 /\ Distinct(left) /\ Members(left) = Wants(call[c])
  BY <1>2, <1>3, One
<1>. HIDE DEF left
<1>5. CallsTyped' /\ LocksInv' /\ NoNewLoader
  BY <1>1, <1>2, <1>4, EndStep
<1>6. RecordsInv'
  <2>1. call' = [call EXCEPT ![c] = Idle] /\ Idle.at = "idle"
    BY DEF End, Idle
  <2>. QED
    BY <1>1, <1>2, <2>1, RecordStays DEF Loading, Executing, Unloads, Unloading, Stopping, Waiting
<1>7. GroupsInv'
  BY <1>1, <1>2, <1>5, GroupsStay DEF GroupsInv
<1>. QED
  BY <1>5, <1>6, <1>7 DEF IInv

LEMMA BeginExecuteStep ==
  ASSUME IInv, NEW c \in Calls, ready = << >> \/ Resumed(c), BeginExecute(c)
  PROVE  IInv'
<1>. DEFINE p == call[c].plugin
            o == groups[Name(c)]
            r == [call[c] EXCEPT !.at = "execute_lock", !.group = o]
<1>1. /\ call[c].at = "execute" /\ Resumed(c) /\ p \in assigned /\ o # None
      /\ state' = [state EXCEPT ![p] = "BUSY"]
      /\ call' = [call EXCEPT ![c] = r] /\ Relock(c, << >>, {o})
      /\ assigned' = assigned /\ groups' = groups /\ heap' = heap
  BY DEF BeginExecute, At, Subject, IInv, CallsTyped
<1>2. /\ CallsTyped /\ LocksInv /\ RecordsInv /\ GroupsInv /\ call[c] \in FitCalls
      /\ p \in Plugins /\ p \in Locks /\ Head(lock[p]) = c /\ Name(c) \in Groups
  BY <1>1, AtWork
<1>3. Wants(call[c]) = {p}
  BY <1>1, <1>2, Standing DEF Waiting
<1>4. o \in Objects /\ o \in Locks
  BY <1>1, <1>2, LocksDiffer DEF GroupsInv
<1>5. r \in FitCalls /\ r.at = "execute_lock" /\ r.plugin = p /\ r.group = o
  BY <1>1, <1>2, <1>4 DEF FitCalls, CallRecord, Places, Executing, Stopping
<1>. HIDE DEF r
<1>6. Wants(r) = {p, o} /\ Awaits(r) = o
  BY <1>5, Standing
<1>7. o \notin Wants(call[c]) /\ Wants(r) = Wants(call[c]) \cup {o}
  BY <1>2, <1>3, <1>4, <1>6, LocksDiffer
<1>. HIDE DEF p, o
<1>8. CallsTyped' /\ LocksInv'
  BY <1>1, <1>2, <1>4, <1>5, <1>6, <1>7, EnterStep
<1>9. RecordsInv'
  <2>1. Suits(r, p, "BUSY") /\ "BUSY" \in States
    BY <1>5 DEF Suits, Executing, Unloads, Unloading, Stopping, States
  <2>. QED
    BY <1>1, <1>2, <2>1, RecordStep DEF p
<1>10. GroupsInv'
  BY <1>1, <1>2, <1>5, LoaderStep, GroupsStay DEF GroupsInv
<1>. QED
  BY <1>8, <1>9, <1>10 DEF IInv

LEMMA ExecuteDoneStep ==
  ASSUME IInv, NEW c \in Calls, ready = << >> \/ Resumed(c), ExecuteDone(c)
  PROVE  IInv'
<1>. DEFINE p == call[c].plugin
            o == call[c].group
            s == IF state[p] = "BUSY" THEN "IDLE" ELSE state[p]
            r == [Idle EXCEPT !.at = "unload", !.op = "unload", !.plugin = p]
            left == <<o, p>>
<1>1. /\ call[c].at = "executing" /\ assigned' = assigned /\ Step(p, "BUSY", "IDLE")
      /\ \/ call' = [call EXCEPT ![c] = r] /\ Relock(c, left, {p})
         \/ End(c) /\ Relock(c, left, {})
      /\ groups' = groups /\ Keep(heap)
  BY DEF ExecuteDone, At, Subject, Enter
<1>2. call[c] \in FitCalls
  BY DEF IInv, CallsTyped
<1>3. Awaits(call[c]) \notin Locks /\ Wants(call[c]) = {p, o} /\ o \in Objects
  BY <1>1, <1>2, Standing, LocksDiffer
<1>4. /\ CallsTyped /\ LocksInv /\ RecordsInv /\ GroupsInv
      /\ p \in Plugins /\ p \in Locks /\ Head(lock[p]) = c
  BY <1>1, <1>3, AtWork
<1>5. left \in Seq(Locks) /\ Len(left) <= 2 /\ Distinct(left) /\ Members(left) = Wants(call[c])
  BY <1>3, <1>4, BothLocks
<1>6. state' = [state EXCEPT ![p] = s]
  BY <1>1, <1>4 DEF Step, RecordsInv
<1>7. s \in Settled /\ s \in States
  BY <1>1, <1>4, RecordFits DEF RecordsInv, States, Settled, Loading, Unloads, Unloading, Stopping
<1>8. s \in Usable \cup {"BUSY"} => p \in assigned
  BY <1>4 DEF RecordsInv, UsableAreAssigned
<1>9. r \in FitCalls /\ r.at = "unload" /\ r.plugin = p
  BY <1>4 DEF Idle, FitCalls, CallRecord, Places, Waiting, Executing, Stopping
<1>. HIDE DEF r, left, s
<1>10. /\ CallsTyped' /\ LocksInv' /\ NoNewLoader
       /\ \E q \in FitCalls : call' = [call EXCEPT ![c] = q] /\ q.at \in {"idle", "unload"}
  <2>1. CASE call' = [call EXCEPT ![c] = r] /\ Relock(c, left, {p})
    <3>1. Wants(r) = {p} /\ Awaits(r) = p
      BY <1>9, Standing DEF Waiting
    <3>2. /\ Members(left) \subseteq Wants(call[c])
          /\ Wants(r) = (Wants(call[c]) \ Members(left)) \cup {p} /\ p \notin Wants(call[c]) \ Members(left)
      BY <1>3, <1>5, <3>1
    <3>. HIDE DEF p, o
    <3>3. CallsTyped' /\ LocksInv'
      BY <1>3, <1>4, <1>5, <1>9, <2>1, <3>1, <3>2, JoinStep
    <3>. QED
      BY <1>4, <1>9, <2>1, <3>3, LoaderStep
  <2>2. CASE End(c) /\ Relock(c, left, {})
    <3>1. call' = [call EXCEPT ![c] = Idle] /\ Idle \in FitCalls /\ Idle.at = "idle"
      BY <2>2 DEF End, Idle, FitCalls, CallRecord, Places, Executing, Stopping
    <3>. QED
      BY <1>3, <1>4, <1>5, <2>2, <3>1, EndStep
  <2>. QED
    BY <1>1, <2>1, <2>2
<1>11. RecordsInv'
  <2>1. PICK q \in FitCalls : call' = [call EXCEPT ![c] = q] /\ q.at \in {"idle", "unload"}
    BY <1>10
  <2>2. Suits(q, p, s)
    BY <1>7, <2>1 DEF Suits, Settled, Unloads, Unloading, Stopping
  <2>. HIDE DEF p
  <2>. QED
    BY <1>1, <1>4, <1>6, <1>7, <1>8, <2>1, <2>2, RecordStep DEF p
<1>12. GroupsInv'
  BY <1>1, <1>4, <1>10, KeepsHeap DEF GroupsInv
<1>. QED
  BY <1>10, <1>11, <1>12 DEF IInv

LEMMA ExecuteFailedStep ==
  ASSUME IInv, NEW c \in Calls, ready = << >> \/ Resumed(c), ExecuteFailed(c)
  PROVE  IInv'
<1>. DEFINE p == call[c].plugin
            o == call[c].group
            listed == groups[Name(c)]
            r == [call[c] EXCEPT !.at = "stop", !.why = "fail", !.group = listed]
            left == <<o, p>>
<1>1. /\ call[c].at = "executing" /\ MarkFailed(p) /\ assigned' = assigned /\ Keep(heap)
      /\ \/ /\ call' = [call EXCEPT ![c] = r] /\ Relock(c, <<o>>, {})
            /\ listed # None /\ groups' = [groups EXCEPT ![Name(c)] = None]
         \/ End(c) /\ Relock(c, left, {}) /\ groups' = groups
  BY DEF ExecuteFailed, At, Subject, IInv, CallsTyped
<1>2. call[c] \in FitCalls
  BY DEF IInv, CallsTyped
<1>3. Awaits(call[c]) \notin Locks /\ Wants(call[c]) = {p, o} /\ o \in Objects
  BY <1>1, <1>2, Standing, LocksDiffer
<1>4. /\ CallsTyped /\ LocksInv /\ RecordsInv /\ GroupsInv
      /\ p \in Plugins /\ Head(lock[p]) = c /\ Name(c) \in Groups
  BY <1>1, <1>3, AtWork
<1>5. /\ left \in Seq(Locks) /\ Len(left) <= 2 /\ Distinct(left) /\ Members(left) = Wants(call[c])
      /\ o # p /\ o \in Locks
  BY <1>3, <1>4, BothLocks
<1>. HIDE DEF left
<1>6. CASE /\ call' = [call EXCEPT ![c] = r] /\ Relock(c, <<o>>, {})
           /\ listed # None /\ groups' = [groups EXCEPT ![Name(c)] = None]
  <2>1. listed \in Objects
    BY <1>4, <1>6 DEF GroupsInv
  <2>2. r \in FitCalls /\ r.at = "stop" /\ r.plugin = p /\ r.why = "fail"
    BY <1>2, <1>4, <2>1 DEF FitCalls, CallRecord, Places, Executing, Stopping
  <2>. HIDE DEF r
  <2>3. Wants(r) = {p}
    BY <2>2, Standing DEF Stopping
  <2>4. o \in Locks \cap Wants(call[c]) /\ Wants(r) = Wants(call[c]) \ {o}
    BY <1>3, <1>5, <2>3
  <2>. HIDE DEF p, o
  <2>5. CallsTyped' /\ LocksInv'
    BY <1>3, <1>4, <1>6, <2>2, <2>4, DropStep
  <2>6. NoNewLoader
    BY <1>4, <1>6, <2>2, LoaderStep
  <2>7. RecordsInv'
    BY <1>1, <1>4, <1>6, <2>2, MarksFailed DEF p, Unloads, Unloading
  <2>8. groups' \in [Groups -> Objects \cup {None}]
    BY <1>4, <1>6 DEF GroupsInv
  <2>9. GroupsInv'
    BY <1>1, <1>4, <2>5, <2>6, <2>8, KeepsHeap
  <2>. QED
    BY <2>5, <2>7, <2>9 DEF IInv
<1>7. CASE End(c) /\ Relock(c, left, {}) /\ groups' = groups
  <2>1. CallsTyped' /\ LocksInv' /\ NoNewLoader
    BY <1>3, <1>4, <1>5, <1>7, EndStep
  <2>2. RecordsInv'
    <3>1. call' = [call EXCEPT ![c] = Idle] /\ ~Unloads(Idle)
      BY <1>7 DEF End, Idle, Unloads, Unloading, Stopping
    <3>. QED
      BY <1>1, <1>4, <3>1, MarksFailed
  <2>3. GroupsInv'
    BY <1>1, <1>4, <1>7, <2>1, KeepsHeap DEF GroupsInv
  <2>. QED
    BY <2>1, <2>2, <2>3 DEF IInv
<1>. QED
  BY <1>1, <1>6, <1>7


-----------------------------------------------------------------------------
(* The steps of unload().                                                  *)

LEMMA BeginUnloadStep ==
  ASSUME IInv, NEW c \in Calls, ready = << >> \/ Resumed(c), BeginUnload(c)
  PROVE  IInv'
<1>. DEFINE p == call[c].plugin
            o == groups[Name(c)]
            sends == (p \in assigned)
            r == [call[c] EXCEPT !.at = "unload_lock", !.group = o, !.sends = sends]
<1>1. /\ call[c].at = "unload" /\ Resumed(c) /\ state' = [state EXCEPT ![p] = "EVICTING"]
      /\ call' = [call EXCEPT ![c] = r] /\ Relock(c, << >>, {o} \ {None})
      /\ assigned' = assigned /\ groups' = groups /\ heap' = heap
  BY DEF BeginUnload, At, Subject, IInv, CallsTyped
<1>2. /\ CallsTyped /\ LocksInv /\ RecordsInv /\ GroupsInv /\ call[c] \in FitCalls
      /\ p \in Plugins /\ p \in Locks /\ Head(lock[p]) = c /\ Name(c) \in Groups
  BY <1>1, AtWork
<1>3. Wants(call[c]) = {p}
  BY <1>1, <1>2, Standing DEF Waiting
<1>4. o \in Objects \cup {None}
  BY <1>2 DEF GroupsInv
<1>. sends \in BOOLEAN
  OBVIOUS
<1>. HIDE DEF sends
<1>5. r \in FitCalls /\ r.at = "unload_lock" /\ r.plugin = p /\ r.group = o
  BY <1>2, <1>4 DEF FitCalls, CallRecord, Places, Unloading, Executing, Stopping
<1>. HIDE DEF r
<1>6. Wants(r) = {p} \cup ({o} \ {None}) /\ Awaits(r) = o
  BY <1>5, Standing DEF Unloading
<1>. HIDE DEF p, o
<1>7. CallsTyped' /\ LocksInv'
  <2>1. CASE o = None
    <3>1. Wants(r) = Wants(call[c]) /\ Relock(c, << >>, {})
      <4>1. {o} \ {None} = {}
        BY <2>1
      <4>. QED
        BY <1>1, <1>3, <1>6, <4>1
    <3>2. << >> \in Seq(Locks) /\ Len(<< >>) <= 2 /\ Distinct(<< >>) /\ Members(<< >>) = {}
      BY NoMembers, EmptySeq
    <3>. QED
      BY <1>1, <1>2, <1>5, <3>1, <3>2, LeaveStep
  <2>2. CASE o # None
    <3>1. o \in Objects /\ {o} \ {None} = {o}
      BY <1>4, <2>2
    <3>2. o \in Locks /\ o # p /\ Relock(c, << >>, {o}) /\ Wants(r) = {p, o}
      BY <1>1, <1>2, <1>6, <3>1, LocksDiffer
    <3>3. o \notin Wants(call[c]) /\ Wants(r) = Wants(call[c]) \cup {o}
      BY <1>3, <3>2
    <3>. QED
      BY <1>1, <1>2, <1>5, <1>6, <3>2, <3>3, EnterStep
  <2>. QED
    BY <2>1, <2>2
<1>8. RecordsInv'
  <2>1. Suits(r, p, "EVICTING") /\ "EVICTING" \in States /\ "EVICTING" \notin Usable \cup {"BUSY"}
    BY <1>5 DEF Suits, Unloads, Unloading, States, Usable
  <2>. QED
    BY <1>1, <1>2, <2>1, RecordStep DEF p
<1>9. GroupsInv'
  BY <1>1, <1>2, <1>5, LoaderStep, GroupsStay DEF GroupsInv
<1>. QED
  BY <1>7, <1>8, <1>9 DEF IInv

\* An unloading call whose locks are its own releases them all at its end.
LEMMA UnloadLocksFit ==
  ASSUME NEW c \in Calls, call[c] \in FitCalls, call[c].at \in Unloading
  PROVE  /\ UnloadLocks(c) \in Seq(Locks) /\ Len(UnloadLocks(c)) <= 2 /\ Distinct(UnloadLocks(c))
         /\ Members(UnloadLocks(c)) = Wants(call[c])
<1>. DEFINE p == call[c].plugin
            o == call[c].group
<1>1. p \in Plugins /\ p \in Locks /\ o \in Objects \cup {None} /\ Wants(call[c]) = {p} \cup ({o} \ {None})
  BY Standing, LocksDiffer DEF FitCalls, CallRecord, Unloading
<1>2. UnloadLocks(c) = IF o = None THEN <<p>> ELSE <<o, p>>
  BY DEF UnloadLocks, Subject
<1>. HIDE DEF p, o
<1>3. CASE o = None
  BY <1>1, <1>2, <1>3, One
<1>4. CASE o # None
  <2>1. o \in Objects /\ o # None
    BY <1>1, <1>4
  <2>2. Members(<<o, p>>) = Wants(call[c])
    BY <1>1, <2>1, BothLocks
  <2>. QED
    BY <1>1, <1>2, <2>1, <2>2, BothLocks
<1>. QED
  BY <1>3, <1>4

LEMMA MayUnloadFits ==
  ASSUME NEW c \in Calls, call[c] \in FitCalls, MayUnload(c)
  PROVE  call[c].at = "unload_lock" /\ (Resumed(c) \/ Awaits(call[c]) \notin Locks)
<1>1. call[c].at = "unload_lock"
  BY DEF MayUnload, At
<1>2. Awaits(call[c]) = call[c].group
  BY <1>1, Standing
<1>. QED
  BY <1>1, <1>2, LocksDiffer DEF MayUnload

LEMMA UnloadDoneStep ==
  ASSUME IInv, NEW c \in Calls, ready = << >> \/ Resumed(c), UnloadDone(c)
  PROVE  IInv'
<1>. DEFINE p == call[c].plugin
            o == call[c].group
            s == IF state[p] = "EVICTING" THEN "UNLOADED" ELSE state[p]
            r == [call[c] EXCEPT !.at = "stop", !.why = "unload"]
            gone == IF o = None THEN {} ELSE heap[o].packages \ {p}
            k == IF o = None THEN heap ELSE [heap EXCEPT ![o].packages = gone]
<1>1. call[c] \in FitCalls
  BY DEF IInv, CallsTyped
<1>2. /\ \/ call[c].at = "unloading"
         \/ MayUnload(c)
      /\ \/ o # None /\ call' = [call EXCEPT ![c] = r] /\ KeepLocks(c) /\ UNCHANGED record
         \/ /\ assigned' = assigned \ {p} /\ Step(p, "EVICTING", "UNLOADED")
            /\ End(c) /\ Relock(c, UnloadLocks(c), {})
      /\ groups' = groups
  BY DEF UnloadDone, At, Subject, IInv, CallsTyped
<1>3. Keep(k)
  BY DEF UnloadDone, Subject
<1>4. call[c].at \in Unloading /\ (Resumed(c) \/ Awaits(call[c]) \notin Locks)
  BY <1>1, <1>2, MayUnloadFits, Standing, LocksDiffer DEF Unloading
<1>5. /\ CallsTyped /\ LocksInv /\ RecordsInv /\ GroupsInv
      /\ p \in Plugins /\ Head(lock[p]) = c
  BY <1>4, AtWork DEF Unloading
<1>6. o \in Objects \cup {None} /\ Wants(call[c]) = {p} \cup ({o} \ {None})
  BY <1>1, <1>4, Standing
<1>7. /\ k \in [Objects -> [packages : SUBSET Plugins, permissions : {Permissions[q] : q \in Plugins} \cup {None}]]
      /\ \A x \in Objects : k[x].permissions = heap[x].permissions /\ k[x].packages \subseteq heap[x].packages
  BY <1>5, <1>6 DEF GroupsInv
<1>. HIDE DEF k
<1>8. \A x \in Objects : \A q \in k[x].packages : Permissions[q] = heap[x].permissions
  BY <1>5, <1>7 DEF GroupsInv, GroupMembersMatch
<1>9. groups' \in [Groups -> Objects \cup {None}]
  BY <1>2, <1>5 DEF GroupsInv
<1>10. CallsTyped' /\ NoNewLoader => GroupsInv'
  BY <1>3, <1>5, <1>7, <1>8, <1>9, GroupsKept
<1>11. Unloads(call[c])
  BY <1>4 DEF Unloads
<1>12. CASE o # None /\ call' = [call EXCEPT ![c] = r] /\ KeepLocks(c) /\ UNCHANGED record
  <2>1. o \in Objects /\ o # None
    BY <1>6, <1>12
  <2>2. r \in FitCalls /\ r.at = "stop" /\ r.plugin = p /\ r.why = "unload" /\ r.group = o
    BY <1>1, <1>5, <2>1 DEF FitCalls, CallRecord, Places, Executing, Stopping
  <2>. HIDE DEF r
  <2>3. Wants(r) = Wants(call[c])
    BY <1>6, <2>1, <2>2, Standing DEF Stopping
  <2>. QED
    BY <1>4, <1>10, <1>11, <1>12, <2>2, <2>3, GoesOn DEF Loading, Executing, Unloads, Unloading, Stopping
<1>13. CASE /\ assigned' = assigned \ {p} /\ Step(p, "EVICTING", "UNLOADED")
            /\ End(c) /\ Relock(c, UnloadLocks(c), {})
  <2>1. CallsTyped' /\ LocksInv' /\ NoNewLoader
    <3>. DEFINE left == UnloadLocks(c)
    <3>1. /\ left \in Seq(Locks) /\ Len(left) <= 2 /\ Distinct(left) /\ Members(left) = Wants(call[c])
          /\ End(c) /\ Relock(c, left, {})
      BY <1>1, <1>4, <1>13, UnloadLocksFit
    <3>. HIDE DEF left
    <3>. QED
      BY <1>4, <1>5, <3>1, EndStep
  <2>2. state[p] \in {"EVICTING", "FAILED"}
    BY <1>5, <1>11 DEF RecordsInv, UnloadedAreEvicted
  <2>3. state' = [state EXCEPT ![p] = s] /\ s \in Settled /\ s \notin Usable
    BY <1>5, <1>13, <2>2 DEF Step, RecordsInv, Settled, Usable
  <2>4. RecordsInv'
    BY <1>4, <1>5, <1>13, <2>3, RecordEnds DEF Unloading
  <2>. QED
    BY <1>10, <2>1, <2>4 DEF IInv
<1>. QED
  BY <1>2, <1>12, <1>13

LEMMA UnloadFailedStep ==
  ASSUME IInv, NEW c \in Calls, ready = << >> \/ Resumed(c), UnloadFailed(c)
  PROVE  IInv'
<1>1. /\ call[c].at = "unloading" /\ MarkFailed(call[c].plugin) /\ assigned' = assigned
      /\ End(c) /\ Relock(c, UnloadLocks(c), {}) /\ groups' = groups /\ Keep(heap)
  BY DEF UnloadFailed, At, Subject
<1>2. call[c] \in FitCalls
  BY DEF IInv, CallsTyped
<1>3. Awaits(call[c]) \notin Locks /\ call[c].at \in Unloading
  BY <1>1, <1>2, Standing, LocksDiffer DEF Unloading
<1>4. CallsTyped /\ LocksInv /\ RecordsInv /\ GroupsInv /\ Head(lock[call[c].plugin]) = c
  BY <1>1, <1>3, AtWork
<1>5. CallsTyped' /\ LocksInv' /\ NoNewLoader
  <2>. DEFINE left == UnloadLocks(c)
  <2>1. /\ left \in Seq(Locks) /\ Len(left) <= 2 /\ Distinct(left) /\ Members(left) = Wants(call[c])
        /\ End(c) /\ Relock(c, left, {})
    BY <1>1, <1>2, <1>3, UnloadLocksFit
  <2>. HIDE DEF left
  <2>. QED
    BY <1>3, <1>4, <2>1, EndStep
<1>6. RecordsInv'
  <2>1. call' = [call EXCEPT ![c] = Idle] /\ ~Unloads(Idle)
    BY <1>1 DEF End, Idle, Unloads, Unloading, Stopping
  <2>. QED
    BY <1>1, <1>4, <2>1, MarksFailed
<1>7. GroupsInv'
  BY <1>1, <1>4, <1>5, KeepsHeap DEF GroupsInv
<1>. QED
  BY <1>5, <1>6, <1>7 DEF IInv

LEMMA SendsStep ==
  ASSUME IInv, NEW c \in Calls, ready = << >> \/ Resumed(c), SendLoad(c) \/ SendExecute(c) \/ SendUnload(c)
  PROVE  IInv'
<1>1. call[c] \in FitCalls
  BY DEF IInv, CallsTyped
<1>2. CASE SendLoad(c)
  BY <1>2, SendStep DEF SendLoad, At
<1>3. CASE SendExecute(c)
  BY <1>3, SendStep DEF SendExecute, At
<1>4. CASE SendUnload(c)
  BY <1>1, <1>4, MayUnloadFits, SendStep DEF SendUnload
<1>. QED
  BY <1>2, <1>3, <1>4

-----------------------------------------------------------------------------
(* The steps of stop_group(), and the specification.                       *)

LEMMA BeginStopStep ==
  ASSUME IInv, NEW c \in Calls, ready = << >> \/ Resumed(c), BeginStop(c)
  PROVE  IInv'
<1>. DEFINE r == [call[c] EXCEPT !.at = "stopping"]
<1>1. /\ call[c].at = "stop" /\ call' = [call EXCEPT ![c] = r] /\ KeepLocks(c)
      /\ UNCHANGED record /\ groups' = groups /\ heap' = heap
  BY DEF BeginStop, At, Goto, IInv, CallsTyped
<1>2. call[c] \in FitCalls
  BY DEF IInv, CallsTyped
<1>3. Awaits(call[c]) \notin Locks
  BY <1>1, <1>2, Standing, LocksDiffer DEF Stopping
<1>4. r \in FitCalls /\ r.at = "stopping" /\ r.plugin = call[c].plugin /\ r.group = call[c].group /\ r.why = call[c].why
  BY <1>1, <1>2 DEF FitCalls, CallRecord, Places, Executing, Stopping
<1>. HIDE DEF r
<1>5. Wants(r) = Wants(call[c])
  BY <1>1, <1>2, <1>4, Standing DEF Stopping
<1>6. NoNewLoader /\ GroupsInv => GroupsInv'
  BY <1>1, GroupsStay DEF GroupsInv
<1>. QED
  BY <1>1, <1>2, <1>3, <1>4, <1>5, <1>6, GoesOn DEF Loading, Executing, Unloads, Unloading, Stopping

\* A call that stopped a worker ends, and releases what it still has.
LEMMA StopEndsStep ==
  ASSUME IInv, NEW c \in Calls, ready = << >> \/ Resumed(c), NEW normally, StopEnds(c, normally),
         NEW left \in Seq(Locks), Len(left) <= 2, Distinct(left), Members(left) = Wants(call[c]),
         End(c), Relock(c, left, {}),
         groups' = groups \/ groups' = [groups EXCEPT ![Name(c)] = None], Keep(heap),
         RecordsInv'
  PROVE  IInv'
<1>1. call[c].at \in Stopping /\ call[c] \in FitCalls
  BY DEF StopEnds, At, Stopping, IInv, CallsTyped
<1>2. Awaits(call[c]) \notin Locks
  BY <1>1, Standing, LocksDiffer
<1>3. CallsTyped /\ LocksInv /\ GroupsInv /\ Name(c) \in Groups
  BY <1>1, <1>2, AtWork DEF Stopping
<1>4. CallsTyped' /\ LocksInv' /\ NoNewLoader
  BY <1>2, <1>3, EndStep
<1>5. groups' \in [Groups -> Objects \cup {None}]
  BY <1>3 DEF GroupsInv
<1>6. GroupsInv'
  BY <1>3, <1>4, <1>5, KeepsHeap
<1>. QED
  BY <1>4, <1>6 DEF IInv

\* Where a call stands whose worker has stopped.
LEMMA Stopped ==
  ASSUME IInv, NEW c \in Calls, NEW normally, StopEnds(c, normally)
  PROVE  /\ CallsTyped /\ LocksInv /\ RecordsInv
         /\ call[c].at \in Stopping /\ call[c].at # "idle" /\ call[c].plugin \in Plugins
         /\ Head(lock[call[c].plugin]) = c
         /\ LET left == IF call[c].why = "unload" THEN <<call[c].group, call[c].plugin>> ELSE <<call[c].plugin>> IN
              left \in Seq(Locks) /\ Len(left) <= 2 /\ Distinct(left) /\ Members(left) = Wants(call[c])
<1>1. call[c].at \in Stopping /\ call[c].at # "idle" /\ call[c] \in FitCalls
  BY DEF StopEnds, At, Stopping, IInv, CallsTyped
<1>2. /\ Awaits(call[c]) \notin Locks /\ call[c].group \in Objects
      /\ Wants(call[c]) = IF call[c].why = "unload" THEN {call[c].plugin, call[c].group} ELSE {call[c].plugin}
  BY <1>1, Standing, LocksDiffer
<1>3. CallsTyped /\ LocksInv /\ RecordsInv /\ call[c].plugin \in Plugins /\ Head(lock[call[c].plugin]) = c
  BY <1>1, <1>2, AtWork
<1>. DEFINE p == call[c].plugin
            o == call[c].group
<1>4. p \in Plugins /\ p \in Locks /\ o \in Objects
  BY <1>2, <1>3, LocksDiffer
<1>. HIDE DEF p, o
<1>5. /\ <<p>> \in Seq(Locks) /\ Len(<<p>>) <= 2 /\ Distinct(<<p>>) /\ Members(<<p>>) = {p}
  BY <1>4, One
<1>6. /\ <<o, p>> \in Seq(Locks) /\ Len(<<o, p>>) <= 2 /\ Distinct(<<o, p>>) /\ Members(<<o, p>>) = {p, o}
  BY <1>4, BothLocks
<1>7. CASE call[c].why = "unload"
  BY <1>1, <1>2, <1>3, <1>6, <1>7 DEF p, o
<1>8. CASE call[c].why # "unload"
  BY <1>1, <1>2, <1>3, <1>5, <1>8 DEF p, o
<1>. QED
  BY <1>7, <1>8

LEMMA LoadCleanedStep ==
  ASSUME IInv, NEW c \in Calls, ready = << >> \/ Resumed(c), NEW normally, LoadCleaned(c, normally)
  PROVE  IInv'
<1>. DEFINE left == <<call[c].plugin>>
<1>1. /\ call[c].why = "load" /\ StopEnds(c, normally) /\ End(c) /\ Relock(c, left, {})
      /\ groups' = groups \/ groups' = [groups EXCEPT ![Name(c)] = None]
      /\ UNCHANGED record /\ Keep(heap)
  BY DEF LoadCleaned, Subject
<1>2. /\ CallsTyped /\ LocksInv /\ RecordsInv
      /\ call[c].at \in Stopping /\ call[c].at # "idle" /\ Head(lock[call[c].plugin]) = c
      /\ left \in Seq(Locks) /\ Len(left) <= 2 /\ Distinct(left) /\ Members(left) = Wants(call[c])
  BY <1>1, Stopped
<1>. HIDE DEF left
<1>3. RecordsInv'
  <2>1. call' = [call EXCEPT ![c] = Idle] /\ Idle.at = "idle"
    BY <1>1 DEF End, Idle
  <2>. QED
    BY <1>1, <1>2, <2>1, RecordStays DEF Loading, Executing, Unloads, Unloading, Stopping
<1>. QED
  BY <1>1, <1>2, <1>3, StopEndsStep

\* A failing group takes the records of others, but only to FAILED: no call
\* on its way loses one it would have brought on.
LEMMA GroupFailedStep ==
  ASSUME IInv, NEW c \in Calls, ready = << >> \/ Resumed(c), NEW normally, GroupFailed(c, normally)
  PROVE  IInv'
<1>. DEFINE left == <<call[c].plugin>>
            affected == heap[call[c].group].packages
<1>1. /\ call[c].why = "fail" /\ StopEnds(c, normally) /\ End(c) /\ Relock(c, left, {})
      /\ groups' = groups /\ Keep(heap) /\ assigned' = assigned \ affected
      /\ state' = [p \in Plugins |-> IF p \in affected /\ state[p] \notin Unloaded THEN "FAILED" ELSE state[p]]
  BY DEF GroupFailed, Subject
<1>2. /\ CallsTyped /\ LocksInv /\ RecordsInv
      /\ call[c].at \in Stopping
      /\ left \in Seq(Locks) /\ Len(left) <= 2 /\ Distinct(left) /\ Members(left) = Wants(call[c])
  BY <1>1, Stopped
<1>. HIDE DEF left, affected
<1>3. call'[c] = Idle /\ \A d \in Calls \ {c} : call'[d] = call[d]
  BY <1>1, <1>2 DEF End, CallsTyped
<1>4. call[c].at \notin Loading \cup Executing /\ ~Unloads(call[c]) /\ ~Unloads(Idle)
  BY <1>1, <1>2 DEF Stopping, Loading, Executing, Unloads, Unloading, Idle
<1>5. state' \in [Plugins -> States]
  BY <1>1, <1>2 DEF RecordsInv, States, Settled
<1>6. ASSUME NEW q \in Plugins, state'[q] \in {"PRELOADING", "BUSY", "EVICTING"} PROVE state[q] = state'[q]
  BY <1>1, <1>6
<1>7. PassingHaveCalls'
  BY <1>2, <1>3, <1>4, <1>6 DEF RecordsInv, PassingHaveCalls, SomeoneHas
<1>8. ASSUME NEW d \in Calls, Unloads(call'[d]) PROVE state'[call'[d].plugin] \in {"EVICTING", "FAILED"}
  <2>1. d # c /\ call'[d] = call[d] /\ Unloads(call[d])
    BY <1>3, <1>4, <1>8
  <2>2. call[d].plugin \in Plugins
    BY <1>2, <2>1 DEF CallsTyped, FitCalls, Unloads, Unloading, Stopping
  <2>. QED
    BY <1>1, <1>2, <2>1, <2>2 DEF RecordsInv, UnloadedAreEvicted
<1>9. UsableAreAssigned'
  BY <1>1, <1>2 DEF RecordsInv, UsableAreAssigned, Usable, Unloaded
<1>10. RecordsInv'
  BY <1>5, <1>7, <1>8, <1>9 DEF RecordsInv, UnloadedAreEvicted
<1>. QED
  BY <1>1, <1>2, <1>10, StopEndsStep

LEMMA LastUnloadedStep ==
  ASSUME IInv, NEW c \in Calls, ready = << >> \/ Resumed(c), NEW normally, LastUnloaded(c, normally)
  PROVE  IInv'
<1>. DEFINE p == call[c].plugin
            left == <<call[c].group, p>>
            s == IF state[p] = "EVICTING" THEN "UNLOADED" ELSE state[p]
<1>1. /\ call[c].why = "unload" /\ StopEnds(c, normally) /\ End(c) /\ Relock(c, left, {}) /\ Keep(heap)
      /\ groups' = groups \/ groups' = [groups EXCEPT ![Name(c)] = None]
      /\ assigned \ {p} \subseteq assigned'
      /\ Step(p, "EVICTING", "UNLOADED") \/ MarkFailed(p)
  BY DEF LastUnloaded, Subject
<1>2. /\ CallsTyped /\ LocksInv /\ RecordsInv /\ p \in Plugins
      /\ call[c].at \in Stopping /\ call[c].at # "idle" /\ Head(lock[p]) = c
      /\ left \in Seq(Locks) /\ Len(left) <= 2 /\ Distinct(left) /\ Members(left) = Wants(call[c])
  BY <1>1, Stopped
<1>. HIDE DEF left
<1>3. state[p] \in {"EVICTING", "FAILED"}
  BY <1>1, <1>2 DEF RecordsInv, UnloadedAreEvicted, Unloads
<1>4. state' = [state EXCEPT ![p] = s] \/ state' = [state EXCEPT ![p] = "FAILED"]
  BY <1>1, <1>2 DEF Step, MarkFailed, RecordsInv
<1>5. {s, "FAILED"} \subseteq Settled \ Usable
  BY <1>3 DEF Settled, Usable
<1>. HIDE DEF s
<1>6. PICK t \in Settled \ Usable : state' = [state EXCEPT ![p] = t]
  BY <1>4, <1>5
<1>7. RecordsInv'
  BY <1>1, <1>2, <1>6, RecordEnds
<1>. QED
  BY <1>1, <1>2, <1>7, StopEndsStep

LEMMA ContinueStep ==
  ASSUME IInv, NEW c \in Calls, Proceed(c)
  PROVE  IInv'
<1>0. ready = << >> \/ Resumed(c)
  BY DEF Proceed
<1>1. CASE AlreadyLoaded(c) \/ BeginLoad(c) \/ FindGroup(c)
  BY <1>0, <1>1, AlreadyLoadedStep, BeginLoadStep, FindGroupStep
<1>2. CASE PermissionMismatch(c) \/ StartRefused(c) \/ GroupNotStarted(c)
  BY <1>0, <1>2, AcquireFails
<1>3. CASE StartGroup(c) \/ GroupStarted(c)
  BY <1>0, <1>3, StartGroupStep, GroupStartedStep
<1>4. CASE SendLoad(c) \/ SendExecute(c) \/ SendUnload(c)
  BY <1>0, <1>4, SendsStep
<1>5. CASE LoadDone(c) \/ LoadFailed(c)
  BY <1>0, <1>5, LoadDoneStep, LoadFailedStep
<1>6. CASE ExecuteRefused(c) \/ NothingToUnload(c)
  BY <1>6, EndsUnchanged DEF ExecuteRefused, NothingToUnload, At, Waiting, Subject
<1>7. CASE BeginExecute(c) \/ ExecuteDone(c) \/ ExecuteFailed(c)
  BY <1>0, <1>7, BeginExecuteStep, ExecuteDoneStep, ExecuteFailedStep
<1>8. CASE BeginUnload(c) \/ UnloadDone(c) \/ UnloadFailed(c)
  BY <1>0, <1>8, BeginUnloadStep, UnloadDoneStep, UnloadFailedStep
<1>9. CASE BeginStop(c)
  BY <1>0, <1>9, BeginStopStep
<1>10. ASSUME NEW normally \in BOOLEAN, LoadCleaned(c, normally) \/ GroupFailed(c, normally) \/ LastUnloaded(c, normally)
       PROVE  IInv'
  BY <1>0, <1>10, LoadCleanedStep, GroupFailedStep, LastUnloadedStep
<1>. QED
  BY <1>1, <1>2, <1>3, <1>4, <1>5, <1>6, <1>7, <1>8, <1>9, <1>10 DEF Proceed, Continue

\* A new call joins the queue of its record, and touches nothing else.
LEMMA BeginStep ==
  ASSUME IInv, NEW c \in Calls, NEW p \in Plugins, NEW op, NEW where,
         op \in {"load", "execute", "unload"}, where \in {"load", "unload"},
         Begin(c, p, op, where)
  PROVE  IInv'
<1>. DEFINE r == [Idle EXCEPT !.at = where, !.op = op, !.plugin = p]
<1>1. /\ call[c].at = "idle" /\ ready = << >> /\ call' = [call EXCEPT ![c] = r] /\ Relock(c, << >>, {p})
      /\ state' = state /\ assigned' = assigned /\ groups' = groups /\ heap' = heap
  BY DEF Begin, At, Enter, record
<1>2. CallsTyped /\ LocksInv /\ RecordsInv /\ GroupsInv /\ call[c] \in FitCalls
  BY DEF IInv, CallsTyped
<1>3. Wants(call[c]) = {} /\ Awaits(call[c]) \notin Locks
  BY <1>1, <1>2, Standing, LocksDiffer
<1>4. r \in FitCalls /\ r.at = where /\ r.plugin = p
  BY DEF Idle, FitCalls, CallRecord, Places, Waiting, Executing, Stopping
<1>. HIDE DEF r
<1>5. Wants(r) = {p} /\ Awaits(r) = p
  BY <1>4, Standing DEF Waiting
<1>6. p \in Locks /\ p \notin Wants(call[c]) /\ Wants(r) = Wants(call[c]) \cup {p}
  BY <1>3, <1>5, LocksDiffer
<1>7. CallsTyped' /\ LocksInv'
  BY <1>1, <1>2, <1>3, <1>4, <1>5, <1>6, EnterStep
<1>8. call'[c] = r /\ (\A d \in Calls \ {c} : call'[d] = call[d]) /\ ~Unloads(r)
  BY <1>1, <1>2, <1>4 DEF CallsTyped, Unloads, Unloading, Stopping
<1>9. call[c].at \notin Loading \cup Executing /\ ~Unloads(call[c])
  BY <1>1 DEF Loading, Executing, Unloads, Unloading, Stopping
<1>10. RecordsInv'
  <2>1. PassingHaveCalls'
    BY <1>1, <1>2, <1>8, <1>9 DEF RecordsInv, PassingHaveCalls, SomeoneHas
  <2>2. UnloadedAreEvicted'
    BY <1>1, <1>2, <1>8 DEF RecordsInv, UnloadedAreEvicted
  <2>. QED
    BY <1>1, <1>2, <2>1, <2>2 DEF RecordsInv, UsableAreAssigned
<1>11. GroupsInv'
  BY <1>1, <1>2, <1>4, LoaderStep, GroupsStay DEF GroupsInv
<1>. QED
  BY <1>7, <1>10, <1>11 DEF IInv

LEMMA IInvStep == IInv /\ [Next]_vars => IInv'
<1>. SUFFICES ASSUME IInv, [Next]_vars PROVE IInv'
  OBVIOUS
<1>1. ASSUME NEW c \in Calls, NEW p \in Plugins,
             Load(c, p) \/ Execute(c, p) \/ Unload(c, p) \/ SweepIdle(c, p) \/ RelievePressure(c, p)
      PROVE  IInv'
  BY <1>1, BeginStep DEF Load, Execute, Unload, SweepIdle, RelievePressure
<1>2. ASSUME NEW c \in Calls, Proceed(c) PROVE IInv'
  BY <1>2, ContinueStep
<1>. DEFINE kept == <<record, groups, heap, lock, call, ready>>
<1>3. ASSUME UNCHANGED kept PROVE IInv'
  <2>1. /\ state' = state /\ assigned' = assigned /\ groups' = groups /\ heap' = heap
        /\ lock' = lock /\ call' = call /\ ready' = ready
    BY <1>3 DEF record
  <2>2. CallsTyped' /\ LocksInv'
    BY <2>1 DEF IInv, CallsTyped, LocksInv, LocksBalance, ReadyHaveLocks
  <2>3. RecordsInv'
    BY <2>1 DEF IInv, RecordsInv, PassingHaveCalls, SomeoneHas, UnloadedAreEvicted, UsableAreAssigned
  <2>4. GroupsInv'
    BY <2>1 DEF IInv, GroupsInv, LoadersMatch, GroupMembersMatch
  <2>. QED
    BY <2>2, <2>3, <2>4 DEF IInv
<1>4. ASSUME NEW g \in Groups, Crash(g) PROVE IInv'
  <2>1. UNCHANGED kept
    BY <1>4 DEF Crash
  <2>. QED
    BY <2>1, <1>3
<1>5. CASE UNCHANGED vars
  <2>1. UNCHANGED kept
    BY <1>5 DEF vars, record
  <2>. QED
    BY <2>1, <1>3
<1>. QED
  BY <1>1, <1>2, <1>4, <1>5 DEF Next

LEMMA IInvInit == Init => IInv
<1>. SUFFICES ASSUME Init PROVE IInv
  OBVIOUS
<1>1. Idle \in FitCalls /\ Idle.at = "idle" /\ Wants(Idle) = {} /\ ~Unloads(Idle)
  <2>1. Idle \in FitCalls /\ Idle.at = "idle"
    BY DEF Idle, FitCalls, CallRecord, Places, Executing, Stopping
  <2>. QED
    BY <2>1, Standing DEF Unloads, Unloading, Stopping
<1>2. \A c \in Calls : call[c] = Idle
  BY DEF Init
<1>3. CallsTyped
  BY <1>1 DEF Init, CallsTyped
<1>4. LocksInv
  <2>1. << >> \in Seq(Calls) /\ Members(<< >>) = {} /\ Distinct(<< >>)
    BY NoMembers
  <2>. QED
    BY <1>1, <1>2, <2>1 DEF Init, LocksInv, LocksBalance, ReadyHaveLocks
<1>5. RecordsInv
  BY <1>1, <1>2 DEF Init, RecordsInv, PassingHaveCalls, UnloadedAreEvicted, UsableAreAssigned, States, Settled, Usable
<1>6. GroupsInv
  BY <1>1, <1>2 DEF Init, GroupsInv, LoadersMatch, GroupMembersMatch, Empty
<1>. QED
  BY <1>3, <1>4, <1>5, <1>6 DEF IInv

LEMMA IInvAlways == Spec => []IInv
BY IInvInit, IInvStep, PTL DEF Spec

-----------------------------------------------------------------------------
(* What the plugin manager keeps, for any plugins and groups and any       *)
(* number of calls.                                                        *)

(***************************************************************************)
(* A record whose lock is free is in no passing state (PRELOADING, BUSY,   *)
(* EVICTING): every way out of load(), execute() and unload(), the failing *)
(* ones included, brings its record to rest before it releases the lock.   *)
(***************************************************************************)
THEOREM NothingIsLeftHalfDone == Spec => []NothingIsHalfDone
<1>1. ASSUME IInv, NEW p \in Plugins, lock[p] = << >> PROVE state[p] \in Settled
  <2>1. ASSUME NEW c \in Calls, call[c].plugin = p, call[c].at # "idle" PROVE FALSE
    <3>1. p \in Locks /\ p \in Wants(call[c])
      BY <2>1, LocksDiffer DEF Wants
    <3>2. c \in Members(lock[p])
      BY <1>1, <3>1 DEF IInv, LocksInv, LocksBalance
    <3>. QED
      BY <1>1, <3>2, NoMembers
  <2>2. state[p] \in States /\ PassingHaveCalls
    BY <1>1 DEF IInv, RecordsInv
  <2>3. state[p] \notin {"PRELOADING", "BUSY", "EVICTING"}
    BY <2>1, <2>2 DEF PassingHaveCalls, SomeoneHas, Loading, Executing, Unloads, Unloading, Stopping
  <2>. QED
    BY <2>2, <2>3 DEF States
<1>2. IInv => NothingIsHalfDone
  BY <1>1 DEF NothingIsHalfDone
<1>. QED
  BY <1>2, IInvAlways, PTL

(***************************************************************************)
(* A record at rest in READY or IDLE has a worker_id, which execute()      *)
(* relies on: whoever fails a group, or unloads, withdraws both.           *)
(***************************************************************************)
THEOREM UsableAlwaysHaveWorkers == Spec => []UsableHaveWorkers
<1>1. IInv => UsableHaveWorkers
  BY DEF IInv, RecordsInv, UsableAreAssigned, UsableHaveWorkers
<1>. QED
  BY <1>1, IInvAlways, PTL

(***************************************************************************)
(* _acquire_group() compares permissions before a load() waits for the     *)
(* group's lock, and what it compared stays true of that group object for  *)
(* as long as anyone holds it: only plugins with the object's permissions  *)
(* enter its packages.                                                     *)
(***************************************************************************)
THEOREM GroupMembersAlwaysMatch == Spec => []GroupMembersMatch
<1>1. IInv => GroupMembersMatch
  BY DEF IInv, GroupsInv
<1>. QED
  BY <1>1, IInvAlways, PTL

(***************************************************************************)
(* A lock is held by the first call of its queue, every other call in the  *)
(* queue waits for it, and the event loop resumes only calls whose lock is *)
(* theirs.                                                                 *)
(***************************************************************************)
THEOREM LocksAlwaysBalance == Spec => [](LocksBalance /\ ReadyHaveLocks)
<1>1. IInv => LocksBalance /\ ReadyHaveLocks
  BY DEF IInv, LocksInv
<1>. QED
  BY <1>1, IInvAlways, PTL
=============================================================================
