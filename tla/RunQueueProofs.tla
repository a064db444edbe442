--------------------------- MODULE RunQueueProofs ---------------------------
(***************************************************************************)
(* Lemmas about the run-queue operators, for every set of tasks, number of *)
(* levels and policy: each operator keeps the lists well formed, and says  *)
(* which tasks are queued afterwards.                                      *)
(***************************************************************************)
EXTENDS RunQueue, SequenceTheorems, TLAPS

\* Appending a new element keeps a list free of duplicates.
LEMMA AppendNew ==
    ASSUME NEW S, NEW s \in Seq(S), NEW e \in S, IsInjective(s), e \notin ToSet(s)
    PROVE  /\ Append(s, e) \in Seq(S)
           /\ IsInjective(Append(s, e))
           /\ ToSet(Append(s, e)) = ToSet(s) \cup {e}
<1>1. Append(s, e) \in Seq(S) OBVIOUS
<1>2. Len(Append(s, e)) = Len(s) + 1 OBVIOUS
<1>3. \A i \in 1 .. Len(s) : Append(s, e)[i] = s[i] OBVIOUS
<1>4. Append(s, e)[Len(s) + 1] = e OBVIOUS
<1>5. DOMAIN Append(s, e) = 1 .. (Len(s) + 1) /\ DOMAIN s = 1 .. Len(s) OBVIOUS
<1>6. \A i \in 1 .. (Len(s) + 1) : i = Len(s) + 1 \/ i \in 1 .. Len(s) OBVIOUS
<1>7. \A i \in 1 .. Len(s) : s[i] # e BY <1>5 DEF ToSet
<1>8. IsInjective(Append(s, e))
  BY <1>3, <1>4, <1>5, <1>6, <1>7 DEF IsInjective
<1>9. ToSet(Append(s, e)) = ToSet(s) \cup {e}
  <2>1. ToSet(Append(s, e)) \subseteq ToSet(s) \cup {e}
    BY <1>3, <1>4, <1>5, <1>6 DEF ToSet
  <2>2. ToSet(s) \subseteq ToSet(Append(s, e))
    <3>1. \A i \in 1 .. Len(s) : i \in 1 .. (Len(s) + 1) OBVIOUS
    <3> QED BY <1>3, <1>5, <3>1 DEF ToSet
  <2>3. e \in ToSet(Append(s, e))
    <3>1. Len(s) + 1 \in 1 .. (Len(s) + 1) OBVIOUS
    <3> QED BY <1>4, <1>5, <3>1 DEF ToSet
  <2> QED BY <2>1, <2>2, <2>3
<1> QED BY <1>1, <1>8, <1>9

\* Removing position k shifts the later elements down by one.
LEMMA RemoveAtShape ==
    ASSUME NEW S, NEW s \in Seq(S), NEW k \in 1 .. Len(s)
    PROVE  /\ RemoveAt(s, k) \in Seq(S)
           /\ Len(RemoveAt(s, k)) = Len(s) - 1
           /\ \A i \in 1 .. (Len(s) - 1) :
                 RemoveAt(s, k)[i] = IF i < k THEN s[i] ELSE s[i + 1]
<1> DEFINE a == SubSeq(s, 1, k - 1)
           b == SubSeq(s, k + 1, Len(s))
<1>1. a \in Seq(S) /\ Len(a) = k - 1 /\ \A i \in 1 .. (k - 1) : a[i] = s[i] OBVIOUS
<1>2. b \in Seq(S) /\ Len(b) = Len(s) - k /\ \A i \in 1 .. (Len(s) - k) : b[i] = s[i + k]
  OBVIOUS
<1>3. RemoveAt(s, k) = a \o b BY DEF RemoveAt
<1> HIDE DEF a, b
<1>4. a \o b \in Seq(S) /\ Len(a \o b) = Len(s) - 1
  <2>1. a \o b \in Seq(S) BY <1>1, <1>2
  <2>2. Len(a \o b) = Len(a) + Len(b) BY <1>1, <1>2, ConcatProperties
  <2> QED BY <1>1, <1>2, <2>1, <2>2
<1>5. ASSUME NEW i \in 1 .. (Len(s) - 1)
      PROVE  (a \o b)[i] = IF i < k THEN s[i] ELSE s[i + 1]
  <2>1. CASE i < k
    BY <1>1, <1>2, <2>1
  <2>2. CASE ~(i < k)
    <3>1. (a \o b)[i] = b[i - (k - 1)] BY <1>1, <1>2, <2>2
    <3>2. i - (k - 1) \in 1 .. (Len(s) - k) BY <2>2
    <3>3. b[i - (k - 1)] = s[(i - (k - 1)) + k] BY <1>2, <3>2
    <3>4. (i - (k - 1)) + k = i + 1 OBVIOUS
    <3> QED BY <2>2, <3>1, <3>3, <3>4
  <2> QED BY <2>1, <2>2
<1> QED BY <1>3, <1>4, <1>5

\* Unlinking an element of a list without duplicates removes exactly it.
LEMMA RemoveFirstElement ==
    ASSUME NEW S, NEW s \in Seq(S), NEW e, IsInjective(s)
    PROVE  /\ RemoveFirst(s, e) \in Seq(S)
           /\ IsInjective(RemoveFirst(s, e))
           /\ ToSet(RemoveFirst(s, e)) = ToSet(s) \ {e}
<1>0. DOMAIN s = 1 .. Len(s) /\ Len(s) \in Nat OBVIOUS
<1>1. CASE \E i \in 1 .. Len(s) : s[i] = e
  <2> PICK k \in 1 .. Len(s) : s[k] = e BY <1>1
  <2>1. \A i \in 1 .. Len(s) : s[i] = e <=> i = k BY <1>0 DEF IsInjective
  <2>2. SelectInSeq(s, LAMBDA v : v = e) = k
    <3>1. {i \in 1 .. Len(s) : s[i] = e} = {k} BY <2>1
    <3>2. Min({k}) = k BY DEF Min
    <3> QED BY <3>1, <3>2 DEF SelectInSeq
  <2> DEFINE r == RemoveAt(s, k)
  <2>3. RemoveFirst(s, e) = r BY <1>1, <2>2 DEF RemoveFirst
  <2>4. /\ r \in Seq(S)
        /\ Len(r) = Len(s) - 1
        /\ \A i \in 1 .. (Len(s) - 1) : r[i] = IF i < k THEN s[i] ELSE s[i + 1]
    BY RemoveAtShape
  <2> HIDE DEF r
  <2>5. DOMAIN r = 1 .. (Len(s) - 1) BY <2>4
  <2>6. IsInjective(r)
    <3> SUFFICES ASSUME NEW i \in 1 .. (Len(s) - 1), NEW j \in 1 .. (Len(s) - 1), r[i] = r[j]
                 PROVE  i = j
      BY <2>5 DEF IsInjective
    <3> DEFINE f(x) == IF x < k THEN x ELSE x + 1
    <3>1. f(i) \in 1 .. Len(s) /\ f(j) \in 1 .. Len(s) BY <1>0
    <3>2. r[i] = s[f(i)] /\ r[j] = s[f(j)] BY <2>4
    <3>3. f(i) = f(j) BY <1>0, <3>1, <3>2 DEF IsInjective
    <3> QED BY <3>3
  <2>7. ToSet(r) \subseteq ToSet(s) \ {e}
    <3> SUFFICES ASSUME NEW i \in 1 .. (Len(s) - 1)
                 PROVE  r[i] \in ToSet(s) \ {e}
      BY <2>5 DEF ToSet
    <3> DEFINE f == IF i < k THEN i ELSE i + 1
    <3>1. f \in 1 .. Len(s) /\ f # k BY <1>0
    <3>2. r[i] = s[f] BY <2>4
    <3> HIDE DEF f
    <3> QED BY <1>0, <2>1, <3>1, <3>2 DEF ToSet
  <2>8. ToSet(s) \ {e} \subseteq ToSet(r)
    <3> SUFFICES ASSUME NEW i \in 1 .. Len(s), s[i] # e
                 PROVE  s[i] \in ToSet(r)
      BY <1>0 DEF ToSet
    <3> DEFINE g == IF i < k THEN i ELSE i - 1
    <3>1. i # k OBVIOUS
    <3>2. g \in 1 .. (Len(s) - 1) BY <1>0, <3>1
    <3>3. r[g] = s[i] BY <2>4, <3>1, <3>2
    <3> HIDE DEF g
    <3> QED BY <2>5, <3>2, <3>3 DEF ToSet
  <2> QED BY <2>3, <2>4, <2>6, <2>7, <2>8
<1>2. CASE ~ \E i \in 1 .. Len(s) : s[i] = e
  <2>1. RemoveFirst(s, e) = s BY <1>2 DEF RemoveFirst
  <2>2. e \notin ToSet(s) BY <1>0, <1>2 DEF ToSet
  <2> QED BY <2>1, <2>2
<1> QED BY <1>1, <1>2
-----------------------------------------------------------------------------
\* A queued task is in the list of its level and of no other.
LEMMA LevelOfQueued ==
    ASSUME NEW q, WellFormed(q), NEW t, OnQueue(q, t)
    PROVE  /\ TaskLevel(q, t) \in Levels
           /\ t \in ToSet(q[TaskLevel(q, t)])
           /\ \A p \in Levels : t \in ToSet(q[p]) => p = TaskLevel(q, t)
<1>1. TaskLevel(q, t) \in Levels /\ t \in ToSet(q[TaskLevel(q, t)])
  BY DEF OnQueue, TaskLevel
<1>2. \A p \in Levels : t \in ToSet(q[p]) => p = TaskLevel(q, t)
  BY <1>1 DEF WellFormed
<1> QED BY <1>1, <1>2

\* There is a level 0 (SCHED_PRIORITY_LEVELS is at least 1).
LEMMA LevelZero == 0 \in Levels
BY LevelAssumption DEF Levels

\* Linking an unlinked task at the tail of level p.
LEMMA LinkTail ==
    ASSUME NEW q, WellFormed(q), NEW t \in Tasks, ~OnQueue(q, t), NEW p \in Levels
    PROVE  LET r == [q EXCEPT ![p] = Append(@, t)] IN
           /\ WellFormed(r)
           /\ \A x : OnQueue(r, x) <=> OnQueue(q, x) \/ x = t
<1> DEFINE r == [q EXCEPT ![p] = Append(@, t)]
<1>1. q \in [Levels -> Seq(Tasks)] /\ IsInjective(q[p]) /\ q[p] \in Seq(Tasks) BY DEF WellFormed
<1>2. t \notin ToSet(q[p]) BY DEF OnQueue
<1>3. /\ Append(q[p], t) \in Seq(Tasks)
      /\ IsInjective(Append(q[p], t))
      /\ ToSet(Append(q[p], t)) = ToSet(q[p]) \cup {t}
  BY <1>1, <1>2, AppendNew
<1>4. r \in [Levels -> Seq(Tasks)] BY <1>1, <1>3
<1>5. \A o \in Levels : r[o] = IF o = p THEN Append(q[p], t) ELSE q[o] BY <1>1
<1> HIDE DEF r
<1>6. \A o \in Levels : ToSet(r[o]) = IF o = p THEN ToSet(q[p]) \cup {t} ELSE ToSet(q[o])
  BY <1>3, <1>5
<1>7. \A o \in Levels : IsInjective(r[o]) BY <1>3, <1>5 DEF WellFormed
<1>8. \A o \in Levels : t \notin ToSet(q[o]) BY DEF OnQueue
<1>9. \A o, l \in Levels : o # l => ToSet(r[o]) \cap ToSet(r[l]) = {}
  BY <1>6, <1>8 DEF WellFormed
<1>10. \A x : OnQueue(r, x) <=> OnQueue(q, x) \/ x = t
  BY <1>6 DEF OnQueue
<1>11. WellFormed(r) BY <1>4, <1>7, <1>9 DEF WellFormed
<1> QED BY <1>10, <1>11 DEF r

\* The policy's enqueue keeps the lists well formed and adds exactly the task;
\* a task that is already queued stays where it is.
LEMMA EnqueueLemma ==
    ASSUME NEW q, WellFormed(q), NEW t \in Tasks
    PROVE  /\ WellFormed(Enqueue(q, t))
           /\ \A x : OnQueue(Enqueue(q, t), x) <=> OnQueue(q, x) \/ x = t
<1>1. CASE OnQueue(q, t) BY <1>1 DEF Enqueue
<1>2. CASE ~OnQueue(q, t) BY <1>2, LinkTail, LevelZero DEF Enqueue
<1> QED BY <1>1, <1>2

\* The policy's dequeue keeps the lists well formed and removes exactly the task;
\* it does nothing for a task that is not queued.
LEMMA DequeueLemma ==
    ASSUME NEW q, WellFormed(q), NEW t
    PROVE  /\ WellFormed(Dequeue(q, t))
           /\ \A x : OnQueue(Dequeue(q, t), x) <=> OnQueue(q, x) /\ x # t
<1>1. CASE ~OnQueue(q, t) BY <1>1 DEF Dequeue
<1>2. CASE OnQueue(q, t)
  <2> DEFINE p == TaskLevel(q, t)
             r == [q EXCEPT ![p] = RemoveFirst(@, t)]
  <2>1. Dequeue(q, t) = r BY <1>2 DEF Dequeue
  <2>2. p \in Levels /\ \A o \in Levels : t \in ToSet(q[o]) => o = p BY <1>2, LevelOfQueued
  <2> HIDE DEF p
  <2>3. q \in [Levels -> Seq(Tasks)] /\ IsInjective(q[p]) /\ q[p] \in Seq(Tasks)
    BY <2>2 DEF WellFormed
  <2>4. /\ RemoveFirst(q[p], t) \in Seq(Tasks)
        /\ IsInjective(RemoveFirst(q[p], t))
        /\ ToSet(RemoveFirst(q[p], t)) = ToSet(q[p]) \ {t}
    BY <2>3, RemoveFirstElement
  <2>5. r \in [Levels -> Seq(Tasks)] BY <2>3, <2>4
  <2>6. \A o \in Levels : r[o] = IF o = p THEN RemoveFirst(q[p], t) ELSE q[o] BY <2>3
  <2> HIDE DEF r
  <2>7. \A o \in Levels : ToSet(r[o]) = ToSet(q[o]) \ {t} BY <2>2, <2>4, <2>6
  <2>8. \A o \in Levels : IsInjective(r[o]) BY <2>4, <2>6 DEF WellFormed
  <2>9. \A o, l \in Levels : o # l => ToSet(r[o]) \cap ToSet(r[l]) = {}
    BY <2>7 DEF WellFormed
  <2>10. \A x : OnQueue(r, x) <=> OnQueue(q, x) /\ x # t BY <2>7 DEF OnQueue
  <2>11. WellFormed(r) BY <2>5, <2>8, <2>9 DEF WellFormed
  <2> QED BY <2>1, <2>10, <2>11
<1> QED BY <1>1, <1>2

\* Moving a queued task inside the run queue keeps the same tasks queued.
LEMMA MoveToTailLemma ==
    ASSUME NEW q, WellFormed(q), NEW t \in Tasks, OnQueue(q, t), NEW p \in Levels
    PROVE  /\ WellFormed(MoveToTail(q, t, p))
           /\ \A x : OnQueue(MoveToTail(q, t, p), x) <=> OnQueue(q, x)
<1> DEFINE r == Dequeue(q, t)
<1>1. WellFormed(r) /\ \A x : OnQueue(r, x) <=> OnQueue(q, x) /\ x # t BY DequeueLemma
<1> HIDE DEF r
<1>2. /\ WellFormed([r EXCEPT ![p] = Append(@, t)])
      /\ \A x : OnQueue([r EXCEPT ![p] = Append(@, t)], x) <=> OnQueue(r, x) \/ x = t
  BY <1>1, LinkTail
<1>3. MoveToTail(q, t, p) = [r EXCEPT ![p] = Append(@, t)] BY DEF MoveToTail, r
<1> QED BY <1>1, <1>2, <1>3

\* A rotation, of the caller or of the head, queues and unqueues nobody.
LEMMA YieldLemma ==
    ASSUME NEW q, WellFormed(q), NEW c, NEW r, IsYield(q, c, r)
    PROVE  /\ WellFormed(r)
           /\ \A x : OnQueue(r, x) <=> OnQueue(q, x)
<1>1. CASE r = q BY <1>1
<1>2. CASE \E t \in Tasks : Rotates(q, c, t) /\ r = MoveToTail(q, t, TaskLevel(q, t))
  <2> PICK t \in Tasks : Rotates(q, c, t) /\ r = MoveToTail(q, t, TaskLevel(q, t)) BY <1>2
  <2>1. OnQueue(q, t)
    <3>1. CASE t = c /\ OnQueue(q, c) BY <3>1
    <3>2. CASE IsTopHead(q, t)
      <4> PICK p \in Levels : q[p] # <<>> /\ t = Head(q[p]) BY <3>2 DEF IsTopHead
      <4>1. q[p] \in Seq(Tasks) BY DEF WellFormed
      <4>2. 1 \in DOMAIN q[p] /\ t = q[p][1] BY <4>1
      <4> QED BY <4>2 DEF OnQueue, ToSet
    <3> QED BY <3>1, <3>2 DEF Rotates
  <2>2. TaskLevel(q, t) \in Levels BY <2>1, LevelOfQueued
  <2> QED BY <2>1, <2>2, MoveToTailLemma
<1> QED BY <1>1, <1>2 DEF IsYield

\* A priority change queues and unqueues nobody.
LEMMA SetPriorityLemma ==
    ASSUME NEW q, WellFormed(q), NEW t \in Tasks, NEW p
    PROVE  /\ WellFormed(SetPriority(q, t, p))
           /\ \A x : OnQueue(SetPriority(q, t, p), x) <=> OnQueue(q, x)
<1>1. CASE SetPriority(q, t, p) = q BY <1>1
<1>2. CASE OnQueue(q, t) /\ p \in Levels /\ SetPriority(q, t, p) = MoveToTail(q, t, p)
  BY <1>2, MoveToTailLemma
<1> QED BY <1>1, <1>2 DEF SetPriority

\* pick_next returns a queued task that is not BLOCKED, and NULL only if
\* there is none.
LEMMA PickLemma ==
    ASSUME NEW q, NEW st, NEW n, IsPickNext(q, st, n)
    PROVE  \/ n \in Tasks /\ OnQueue(q, n) /\ st[n] # "BLOCKED"
           \/ n = NoTask /\ \A t \in Tasks : OnQueue(q, t) => st[t] = "BLOCKED"
BY DEF IsPickNext, Pickable
=============================================================================
