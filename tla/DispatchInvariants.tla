-------------------------- MODULE DispatchInvariants --------------------------
(***************************************************************************)
(* The inductive invariant of Dispatch, and the steps of callers and       *)
(* admins that push no leg: they keep it.                                  *)
(***************************************************************************)
EXTENDS Dispatch, FiniteSetTheorems, SequenceTheorems, TLAPS

\* The legs of a queue that belong to M.
CountIn(q, M) == Cardinality({i \in DOMAIN q : q[i] \in M})

ToSlot(s)   == {l \in Legs : Dst(l) = s}
Replies     == {l \in Legs : l.kind = "reply"}

\* The leg in the dispatcher's hands, from pop to the end of its processing;
\* as in_flight_calls counts it; and as its caller waits for it.
Busy     == dpc \in {"recv", "handle", "handled", "post"}
Handling == dpc \in {"recv", "handle", "handled"}
InHand   == Busy /\ ~(msg.kind = "reply" /\ dpc \in {"handled", "post"})

(***************************************************************************)
(* The inductive invariant.                                                *)
(***************************************************************************)
DTypeOK ==
    /\ mpsc \in Seq(Legs)
    /\ in_flight_calls \in [Slots -> Int]
    /\ active \in [Services -> Nat]
    /\ pool_inuse \in Int
    /\ dpc \in {"pump", "drained", "asleep", "recv", "handle", "handled", "post", "panic"}
    /\ IF Busy THEN msg \in Legs ELSE msg = NoLeg
    /\ cpc \in [Callers -> {"user", "checked", "enqueued", "reply_wait", "resume_wait", "woken", "dead"}]
    /\ svc \in [Callers -> Services \cup {NoSlot}]
    /\ reply_buf \in [Callers -> BOOLEAN]
    /\ reply_rc \in [Callers -> Rcs \cup {"none"}]
    /\ ran \in [Callers -> Seq(Rcs)]
    /\ apc \in [Admins -> {"idle", "draining"}]
    /\ tgt \in [Admins -> Services \cup {NoSlot}]
    /\ \A c \in Callers : cpc[c] = "checked" => svc[c] \in Services
    /\ \A c \in Callers : cpc[c] \in {"checked", "enqueued"} => c \in Kcallers
    /\ \A a \in Admins : apc[a] = "draining" => tgt[a] \in Services

\* What the dispatcher's counts count.
CountsAgree ==
    /\ g_disp_pending = Len(mpsc)
    /\ \A s \in Slots : in_flight_calls[s] = CountIn(mpsc, ToSlot(s)) + One(Handling /\ Dst(msg) = s)
    /\ pool_inuse = CountIn(mpsc, Replies) + One(Busy /\ msg.kind = "reply")

\* A caller has at most one leg on its way, and none while it may start a call.
Outstanding(c) ==
    (\E i \in DOMAIN mpsc : mpsc[i].caller = c) \/ (InHand /\ msg.caller = c)

OneLeg ==
    /\ \A i, j \in DOMAIN mpsc : mpsc[i].caller = mpsc[j].caller => i = j
    /\ InHand => \A i \in DOMAIN mpsc : mpsc[i].caller # msg.caller
    /\ \A c \in Callers : cpc[c] \in {"user", "checked", "woken"} => ~Outstanding(c)

\* A call whose handlers returned h may be answered rc.
Ended(h, rc) == h = <<rc>> \/ (h = <<>> /\ rc # "OK")

\* A leg knows what the handler of its call returned, if it has run.
LegAgrees(l, r) ==
    IF l.kind = "req" THEN r[l.caller] = <<>> ELSE Ended(r[l.caller], l.rc)

RanAgrees ==
    /\ \A i \in DOMAIN mpsc : LegAgrees(mpsc[i], ran)
    /\ dpc \in {"recv", "handle"} => LegAgrees(msg, ran)
    /\ dpc \in {"handled", "post"} /\ msg.kind = "req" => Ended(ran[msg.caller], msg.rc)
    /\ \A c \in Callers :
          /\ Len(ran[c]) <= 1
          /\ cpc[c] = "checked" => ran[c] = <<>> /\ reply_buf[c]
          /\ cpc[c] \in {"user", "woken"} => Ended(ran[c], reply_rc[c]) \/ reply_rc[c] = "EINVAL"

\* The reply pool has an entry for each caller.
PoolPerCaller == IsFiniteSet(Callers) /\ Cardinality(Callers) <= PoolSize

\* If no reply is aborted and none runs out of entries, a parked user task is
\* owed its reply.
Owed ==
    PoolPerCaller /\ "reply" \notin Aborts =>
        \A c \in Callers \ Kcallers : cpc[c] = "reply_wait" => Outstanding(c) /\ reply_buf[c]

NoPanic == PoolPerCaller => dpc # "panic"

DispInv ==
    /\ DTypeOK /\ CountsAgree /\ HandlerOnBoundImpl /\ DispatcherAwake
    /\ OneLeg /\ RanAgrees /\ Owed /\ NoPanic
-----------------------------------------------------------------------------
(***************************************************************************)
(* Counting in a queue.                                                    *)
(***************************************************************************)
\* A count is a natural number, and zero only if nothing counted is there.
LEMMA CountType ==
    ASSUME NEW S, NEW q \in Seq(S), NEW M
    PROVE  /\ IsFiniteSet({i \in DOMAIN q : q[i] \in M})
           /\ CountIn(q, M) \in Nat
           /\ CountIn(q, M) = 0 => \A i \in DOMAIN q : q[i] \notin M
<1> DEFINE T == {i \in DOMAIN q : q[i] \in M}
<1>1. DOMAIN q = 1 .. Len(q) /\ Len(q) \in Nat OBVIOUS
<1>2. IsFiniteSet(1 .. Len(q)) BY <1>1, FS_Interval
<1>3. T \in SUBSET (1 .. Len(q)) BY <1>1
<1>4. IsFiniteSet(T) BY <1>2, <1>3, FS_Subset
<1>5. Cardinality(T) \in Nat BY <1>4, FS_CardinalityType
<1>6. Cardinality(T) = 0 => T = {} BY <1>4, FS_EmptySet, Zenon
<1> QED BY <1>4, <1>5, <1>6 DEF CountIn

\* A leg pushed at the end counts once.
LEMMA CountAppend ==
    ASSUME NEW S, NEW q \in Seq(S), NEW l \in S, NEW M
    PROVE  CountIn(Append(q, l), M) = CountIn(q, M) + One(l \in M)
<1> DEFINE T == {i \in DOMAIN q : q[i] \in M}
           r == Append(q, l)
           U == {i \in DOMAIN r : r[i] \in M}
           n == Len(q) + 1
<1>1. DOMAIN q = 1 .. Len(q) /\ Len(q) \in Nat OBVIOUS
<1>2. DOMAIN r = 1 .. n /\ r[n] = l /\ \A i \in 1 .. Len(q) : r[i] = q[i] OBVIOUS
<1>3. IsFiniteSet(T) BY CountType, Zenon
<1>4. n \notin T BY <1>1
<1>5. CASE l \in M
  <2>1. U = T \cup {n} BY <1>1, <1>2, <1>5
  <2>2. Cardinality(U) = Cardinality(T) + 1 BY <2>1, <1>3, <1>4, FS_AddElement, Zenon
  <2> QED BY <2>2, <1>5 DEF CountIn, One
<1>6. CASE l \notin M
  <2>1. U = T BY <1>1, <1>2, <1>6
  <2>2. CountIn(q, M) \in Nat BY CountType, Zenon
  <2>3. CountIn(r, M) = CountIn(q, M) BY <2>1, Zenon DEF CountIn
  <2> QED BY <2>2, <2>3, <1>6 DEF One
<1> QED BY <1>5, <1>6

\* A leg popped from the head no longer counts.
LEMMA CountTail ==
    ASSUME NEW S, NEW q \in Seq(S), q # <<>>, NEW M
    PROVE  CountIn(q, M) = CountIn(Tail(q), M) + One(Head(q) \in M)
<1> DEFINE T == {i \in DOMAIN q : q[i] \in M}
           r == Tail(q)
           U == {i \in DOMAIN r : r[i] \in M}
           V == T \ {1}
           f == [i \in U |-> i + 1]
<1>1. DOMAIN q = 1 .. Len(q) /\ Len(q) \in Nat /\ Len(q) > 0 OBVIOUS
<1>2. r \in Seq(S) /\ DOMAIN r = 1 .. (Len(q) - 1) /\ \A i \in 1 .. (Len(q) - 1) : r[i] = q[i + 1]
  OBVIOUS
<1>3. Head(q) = q[1] /\ 1 \in DOMAIN q BY <1>1
<1>4. IsFiniteSet(T) /\ CountIn(q, M) \in Nat BY CountType
<1>5. IsFiniteSet(U) /\ CountIn(r, M) \in Nat BY <1>2, CountType, Zenon
<1>6. f \in Bijection(U, V)
  <2>1. ASSUME NEW i \in U PROVE i + 1 \in V
    BY <1>1, <1>2
  <2>2. f \in [U -> V] BY <2>1
  <2>3. \A i, j \in U : f[i] = f[j] => i = j BY <1>2
  <2>4. ASSUME NEW v \in V PROVE \E i \in U : f[i] = v
    <3>1. v \in 2 .. Len(q) /\ q[v] \in M BY <1>1
    <3>2. v - 1 \in 1 .. (Len(q) - 1) /\ (v - 1) + 1 = v BY <3>1, <1>1
    <3>3. v - 1 \in U BY <3>1, <3>2, <1>2
    <3> QED BY <3>2, <3>3
  <2>5. f \in Injection(U, V) BY <2>2, <2>3 DEF Injection, IsInjective
  <2>6. f \in Surjection(U, V) BY <2>2, <2>4 DEF Surjection
  <2> QED BY <2>5, <2>6, Zenon DEF Bijection
<1>7. Cardinality(V) = Cardinality(U)
  <2>1. ExistsBijection(U, V) BY <1>6 DEF ExistsBijection
  <2> QED BY <1>5, <2>1, FS_Bijection, Zenon
<1>8. Cardinality(V) = IF 1 \in T THEN Cardinality(T) - 1 ELSE Cardinality(T)
  BY <1>4, FS_RemoveElement, Zenon
<1>9. 1 \in T <=> Head(q) \in M BY <1>3
<1>10. Cardinality(T) = CountIn(q, M) /\ Cardinality(U) = CountIn(r, M) BY DEF CountIn
<1> HIDE DEF T, U, V, f
<1>11. CASE Head(q) \in M
  <2>1. CountIn(r, M) = CountIn(q, M) - 1 BY <1>7, <1>8, <1>9, <1>10, <1>11, Zenon
  <2>2. One(Head(q) \in M) = 1 BY <1>11 DEF One
  <2> HIDE DEF r
  <2>3. CountIn(q, M) = CountIn(r, M) + 1 BY <1>4, <2>1
  <2> QED BY <2>2, <2>3 DEF r
<1>12. CASE Head(q) \notin M
  <2>1. CountIn(r, M) = CountIn(q, M) BY <1>7, <1>8, <1>9, <1>10, <1>12, Zenon
  <2>2. One(Head(q) \in M) = 0 BY <1>12 DEF One
  <2> HIDE DEF r
  <2>3. CountIn(q, M) = CountIn(r, M) + 0 BY <1>4, <2>1
  <2> QED BY <2>2, <2>3 DEF r
<1> QED BY <1>11, <1>12
-----------------------------------------------------------------------------
(***************************************************************************)
(* Steps of a caller that do not reach the dispatcher.                     *)
(***************************************************************************)
\* Legs are addressed to slots.
LEMMA DstSlot ==
    ASSUME NEW l \in Legs
    PROVE  /\ Dst(l) \in Slots /\ l.caller \in Callers /\ l.svc \in Services
           /\ l.kind \in {"req", "reply"} /\ l.rc \in Rcs
BY DEF Legs, Dst, Slots

\* The system starts with nothing on its way.
LEMMA InitInv == Init => DispInv
<1> SUFFICES ASSUME Init PROVE DispInv OBVIOUS
<1> USE DEF Init
<1>1. DTypeOK BY DEF DTypeOK, Busy, Rcs
<1>2. CountsAgree
  <2>1. \A M : {i \in DOMAIN mpsc : mpsc[i] \in M} = {} OBVIOUS
  <2>2. \A M : CountIn(mpsc, M) = 0 BY <2>1, FS_EmptySet DEF CountIn
  <2>3. ~Handling /\ ~Busy BY DEF Handling, Busy
  <2>4. One(Busy /\ msg.kind = "reply") = 0 BY <2>3 DEF One
  <2>5. \A s \in Slots : One(Handling /\ Dst(msg) = s) = 0 BY <2>3 DEF One
  <2>6. g_disp_pending = Len(mpsc) OBVIOUS
  <2>7. \A s \in Slots : in_flight_calls[s] = 0 OBVIOUS
  <2>8. pool_inuse = 0 OBVIOUS
  <2> HIDE DEF Init
  <2> QED BY <2>2, <2>4, <2>5, <2>6, <2>7, <2>8 DEF CountsAgree
<1>3. HandlerOnBoundImpl /\ DispatcherAwake /\ NoPanic
  BY DEF HandlerOnBoundImpl, DispatcherAwake, NoPanic
<1>4. OneLeg BY DEF OneLeg, Outstanding, InHand, Busy
<1>5. RanAgrees BY DEF RanAgrees, Ended
<1>6. Owed BY DEF Owed
<1> QED BY <1>1, <1>2, <1>3, <1>4, <1>5, <1>6 DEF DispInv

\* A step that leaves the queue and the dispatcher alone keeps what is about
\* them, and who has a leg on its way.
LEMMA DispatcherAlone ==
    ASSUME DispInv, UNCHANGED <<queueVars, dispVars, pool_inuse>>
    PROVE  /\ CountsAgree' /\ DispatcherAwake' /\ NoPanic'
           /\ Busy' = Busy /\ InHand' = InHand
           /\ \A c : Outstanding(c)' <=> Outstanding(c)
           /\ \A i, j \in DOMAIN mpsc' : mpsc'[i].caller = mpsc'[j].caller => i = j
           /\ InHand' => \A i \in DOMAIN mpsc' : mpsc'[i].caller # msg'.caller
<1>1. mpsc' = mpsc /\ dpc' = dpc /\ msg' = msg /\ in_flight_calls' = in_flight_calls
      /\ g_disp_pending' = g_disp_pending /\ pool_inuse' = pool_inuse
  BY DEF queueVars, dispVars
<1>2. CountsAgree' BY <1>1 DEF DispInv, CountsAgree, Handling, Busy
<1>3. DispatcherAwake' /\ NoPanic' BY <1>1 DEF DispInv, DispatcherAwake, NoPanic, PoolPerCaller
<1>4. Busy' = Busy /\ InHand' = InHand BY <1>1 DEF Busy, InHand
<1>5. \A c : Outstanding(c)' <=> Outstanding(c) BY <1>1, <1>4 DEF Outstanding
<1> QED BY <1>1, <1>2, <1>3, <1>4, <1>5 DEF DispInv, OneLeg

\* A caller without a leg may change its own fields: no leg depends on them.
LEMMA RanKept ==
    ASSUME DispInv, UNCHANGED <<queueVars, dispVars>>,
           \A d \in Callers : Outstanding(d) => ran'[d] = ran[d]
    PROVE  /\ \A i \in DOMAIN mpsc' : LegAgrees(mpsc'[i], ran')
           /\ dpc' \in {"recv", "handle"} => LegAgrees(msg', ran')
           /\ dpc' \in {"handled", "post"} /\ msg'.kind = "req" => Ended(ran'[msg'.caller], msg'.rc)
<1>1. mpsc' = mpsc /\ dpc' = dpc /\ msg' = msg BY DEF queueVars, dispVars
<1>2. mpsc \in Seq(Legs) BY DEF DispInv, DTypeOK
<1>3. ASSUME NEW i \in DOMAIN mpsc PROVE LegAgrees(mpsc'[i], ran')
  <2>1. mpsc[i] \in Legs BY <1>2
  <2>2. mpsc[i].caller \in Callers /\ Outstanding(mpsc[i].caller) BY <2>1, DstSlot DEF Outstanding
  <2>3. LegAgrees(mpsc[i], ran) BY DEF DispInv, RanAgrees
  <2> QED BY <1>1, <2>2, <2>3 DEF LegAgrees
<1>4. Busy => msg \in Legs BY DEF DispInv, DTypeOK
<1>5. ASSUME InHand PROVE ran'[msg.caller] = ran[msg.caller]
  <2>1. msg.caller \in Callers BY <1>4, <1>5, DstSlot DEF InHand
  <2> QED BY <1>5, <2>1 DEF Outstanding
<1>6. dpc \in {"recv", "handle"} => InHand BY DEF InHand, Busy
<1>7. dpc \in {"handled", "post"} /\ msg.kind = "req" => InHand BY DEF InHand, Busy
<1>8. dpc \in {"recv", "handle"} => LegAgrees(msg', ran')
  BY <1>1, <1>5, <1>6 DEF DispInv, RanAgrees, LegAgrees
<1> QED BY <1>1, <1>3, <1>5, <1>7, <1>8 DEF DispInv, RanAgrees

\* What RanAgrees says of a caller.
CallerAgrees(c) ==
    /\ Len(ran[c]) <= 1
    /\ cpc[c] = "checked" => ran[c] = <<>> /\ reply_buf[c]
    /\ cpc[c] \in {"user", "woken"} => Ended(ran[c], reply_rc[c]) \/ reply_rc[c] = "EINVAL"

\* A step of one caller that leaves the queue and the dispatcher alone.
LEMMA CallerMoves ==
    ASSUME DispInv, DTypeOK', NEW c \in Callers,
           UNCHANGED <<queueVars, dispVars, adminVars, pool_inuse>>,
           \A d \in Callers \ {c} : /\ cpc'[d] = cpc[d] /\ ran'[d] = ran[d]
                                    /\ reply_rc'[d] = reply_rc[d] /\ reply_buf'[d] = reply_buf[d],
           Outstanding(c) => ran'[c] = ran[c] /\ cpc'[c] \notin {"user", "checked", "woken"},
           CallerAgrees(c)',
           cpc'[c] # "reply_wait" \/ c \in Kcallers
    PROVE  DispInv'
<1>1. UNCHANGED <<queueVars, dispVars, pool_inuse>> OBVIOUS
<1>2. CountsAgree' /\ DispatcherAwake' /\ NoPanic' BY <1>1, DispatcherAlone
<1>3. HandlerOnBoundImpl' BY DEF DispInv, HandlerOnBoundImpl, dispVars, adminVars
<1>4. OneLeg'
  <2>1. \A d \in Callers : cpc'[d] \in {"user", "checked", "woken"} => ~Outstanding(d)
    BY DEF DispInv, OneLeg
  <2> QED BY <1>1, <2>1, DispatcherAlone DEF OneLeg
<1>5. RanAgrees'
  <2>1. mpsc' = mpsc BY DEF queueVars
  <2>2. \A d \in Callers : Outstanding(d) => ran'[d] = ran[d] OBVIOUS
  <2>3. \A d \in Callers : CallerAgrees(d)' BY DEF DispInv, RanAgrees, CallerAgrees
  <2> QED BY <1>1, <2>1, <2>2, <2>3, RanKept DEF RanAgrees, CallerAgrees
<1>6. Owed' BY <1>1, DispatcherAlone DEF DispInv, Owed
<1> QED BY <1>2, <1>3, <1>4, <1>5, <1>6 DEF DispInv

\* A call refused, aborted by a hook, or without an edge.
LEMMA ReturnEarlyInv ==
    ASSUME DispInv, NEW c \in Callers, NEW s, NEW r \in {"EBUSY", "ENOENT", "EINVAL", "EABORT"},
           cpc[c] = "user", ReturnEarly(c, s, r)
    PROVE  DispInv'
<1> USE DEF ReturnEarly
<1>1. DTypeOK' BY DEF DispInv, DTypeOK, Busy, queueVars, dispVars, adminVars, Rcs
<1>2. ~Outstanding(c) BY DEF DispInv, OneLeg
<1>3. CallerAgrees(c)' BY DEF DispInv, DTypeOK, CallerAgrees, Ended
<1> QED BY <1>1, <1>2, <1>3, CallerMoves, Zenon DEF DispInv, DTypeOK

\* A call that parks on the resume_waitq of a paused slot.
LEMMA CallHeldInv ==
    ASSUME DispInv, NEW c \in Callers, NEW s \in Services, CallHeld(c, s)
    PROVE  DispInv'
<1> PICK p \in Parked(c, "resume_wait") : cpc' = [cpc EXCEPT ![c] = p] BY Zenon DEF CallHeld
<1>0. p \in {"resume_wait", "dead"} BY DEF Parked
<1>1. DTypeOK' BY <1>0 DEF CallHeld, DispInv, DTypeOK, Busy, queueVars, dispVars, adminVars
<1>2. CallerAgrees(c)' BY <1>0 DEF CallHeld, DispInv, DTypeOK, RanAgrees, CallerAgrees
<1> QED BY <1>0, <1>1, <1>2, CallerMoves, Zenon DEF CallHeld, DispInv, DTypeOK

\* A kernel thread has seen the slot unpaused and stashed its call.
LEMMA KCheckInv ==
    ASSUME DispInv, NEW c \in Callers, NEW s \in Services, KCheck(c, s)
    PROVE  DispInv'
<1> USE DEF KCheck, Stash
<1>1. DTypeOK' BY DEF DispInv, DTypeOK, Busy, queueVars, dispVars, adminVars, Rcs
<1>2. ~Outstanding(c) BY DEF DispInv, OneLeg
<1>3. CallerAgrees(c)' BY DEF DispInv, DTypeOK, CallerAgrees
<1> QED BY <1>1, <1>2, <1>3, CallerMoves, Zenon DEF DispInv, DTypeOK

\* A kernel thread waits; what it waits for may have happened already.
LEMMA KWaitInv ==
    ASSUME DispInv, NEW c \in Callers, KWait(c)
    PROVE  DispInv'
<1> USE DEF KWait
<1>1. DTypeOK' BY DEF DispInv, DTypeOK, Busy, queueVars, dispVars, adminVars
<1>2. CallerAgrees(c)' BY DEF DispInv, DTypeOK, RanAgrees, CallerAgrees
<1>3. c \in Kcallers BY DEF DispInv, DTypeOK
<1> QED BY <1>1, <1>2, <1>3, CallerMoves DEF DispInv, DTypeOK

\* A woken caller returns from its call.
LEMMA CallReturnInv ==
    ASSUME DispInv, NEW c \in Callers, CallReturn(c)
    PROVE  DispInv'
<1> USE DEF CallReturn
<1>1. DTypeOK' BY DEF DispInv, DTypeOK, Busy, queueVars, dispVars, adminVars
<1>2. ~Outstanding(c) BY DEF DispInv, OneLeg
<1>3. CallerAgrees(c)' BY DEF DispInv, DTypeOK, RanAgrees, CallerAgrees
<1> QED BY <1>1, <1>2, <1>3, CallerMoves, Zenon DEF DispInv, DTypeOK

\* A user task ends between calls.
LEMMA ExitCallerInv ==
    ASSUME DispInv, NEW c \in Callers, ExitCaller(c)
    PROVE  DispInv'
<1> USE DEF ExitCaller
<1>1. DTypeOK' BY DEF DispInv, DTypeOK, Busy, queueVars, dispVars, adminVars
<1>2. CallerAgrees(c)' BY DEF DispInv, DTypeOK, RanAgrees, CallerAgrees
<1> QED BY <1>1, <1>2, CallerMoves DEF DispInv, DTypeOK
-----------------------------------------------------------------------------
(***************************************************************************)
(* Steps of an admin.                                                      *)
(***************************************************************************)
\* When the drain loop is left no leg for the slot is queued or in a handler.
LEMMA DrainedQuiet ==
    ASSUME DispInv, NEW a \in Admins, Drained(a)
    PROVE  /\ tgt[a] \in Services
           /\ \A i \in DOMAIN mpsc : Dst(mpsc[i]) # tgt[a]
           /\ ~(Handling /\ Dst(msg) = tgt[a])
<1> DEFINE s == tgt[a]
           n == CountIn(mpsc, ToSlot(s))
           m == One(Handling /\ Dst(msg) = s)
<1>1. s \in Services /\ s \in Slots BY DEF DispInv, DTypeOK, Drained, Slots
<1>2. mpsc \in Seq(Legs) BY DEF DispInv, DTypeOK
<1>3. 0 = n + m BY <1>1 DEF DispInv, CountsAgree, Drained
<1>4. n \in Nat /\ (n = 0 => \A i \in DOMAIN mpsc : mpsc[i] \notin ToSlot(s)) BY <1>2, CountType, Zenon
<1>5. m \in {0, 1} /\ (m = 0 => ~(Handling /\ Dst(msg) = s)) BY DEF One
<1> HIDE DEF n, m
<1>6. n = 0 /\ m = 0 BY <1>3, <1>4, <1>5
<1>7. \A i \in DOMAIN mpsc : mpsc[i] \in Legs BY <1>2
<1> QED BY <1>1, <1>4, <1>5, <1>6, <1>7 DEF ToSlot

\* A step of an admin keeps everything but the bindings as it is.
LEMMA AdminMoves ==
    ASSUME DispInv, DTypeOK', HandlerOnBoundImpl', UNCHANGED <<queueVars, dispVars, callVars, pool_inuse>>
    PROVE  DispInv'
<1>1. UNCHANGED <<queueVars, dispVars, pool_inuse>> OBVIOUS
<1>2. cpc' = cpc /\ ran' = ran /\ reply_rc' = reply_rc /\ reply_buf' = reply_buf BY DEF callVars
<1>3. CountsAgree' /\ DispatcherAwake' /\ NoPanic' BY <1>1, DispatcherAlone
<1>4. OneLeg' BY <1>1, <1>2, DispatcherAlone DEF DispInv, OneLeg
<1>5. RanAgrees'
  <2>1. mpsc' = mpsc BY DEF queueVars
  <2> QED BY <1>1, <1>2, <2>1, RanKept DEF DispInv, RanAgrees
<1>6. Owed' BY <1>1, <1>2, DispatcherAlone, Zenon DEF DispInv, Owed
<1> QED BY <1>3, <1>4, <1>5, <1>6 DEF DispInv

\* An admin begins to drain a slot.
LEMMA CutoffInv ==
    ASSUME DispInv, NEW a \in Admins, NEW s \in Services, Cutoff(a, s)
    PROVE  DispInv'
<1> USE DEF Cutoff
<1>1. DTypeOK' BY DEF DispInv, DTypeOK, Busy, queueVars, dispVars, callVars
<1>2. HandlerOnBoundImpl' BY DEF DispInv, HandlerOnBoundImpl, dispVars
<1> QED BY <1>1, <1>2, AdminMoves

\* A pause that fails is rolled back.
LEMMA PauseFailsInv ==
    ASSUME DispInv, NEW a \in Admins, PauseFails(a)
    PROVE  DispInv'
<1> USE DEF PauseFails, RecomposeReturns
<1>1. DTypeOK' BY DEF DispInv, DTypeOK, Busy, queueVars, dispVars, callVars
<1>2. HandlerOnBoundImpl' BY DEF DispInv, HandlerOnBoundImpl, dispVars
<1> QED BY <1>1, <1>2, AdminMoves

\* A component is replaced: not one that a handler runs on.
LEMMA ReplaceInv ==
    ASSUME DispInv, NEW a \in Admins, Replace(a)
    PROVE  DispInv'
<1> USE DEF Replace, RecomposeReturns
<1>1. DTypeOK'
  <2>1. active' \in [Services -> Nat] BY DrainedQuiet DEF DispInv, DTypeOK
  <2>2. apc' \in [Admins -> {"idle", "draining"}] /\ tgt' \in [Admins -> Services \cup {NoSlot}]
        /\ \A b \in Admins : apc'[b] = "draining" => tgt'[b] \in Services
    BY DEF DispInv, DTypeOK
  <2> QED BY <2>1, <2>2 DEF DispInv, DTypeOK, Busy, queueVars, dispVars, callVars
<1>2. HandlerOnBoundImpl'
  <2> SUFFICES ASSUME dpc = "handle", msg.kind = "req" PROVE impl = active'[msg.svc]
    BY DEF HandlerOnBoundImpl, dispVars
  <2>1. msg \in Legs BY DEF DispInv, DTypeOK, Busy
  <2>2. msg.svc # tgt[a] BY DrainedQuiet DEF Handling, Dst
  <2>3. active'[msg.svc] = active[msg.svc] BY <2>1, <2>2, DstSlot DEF DispInv, DTypeOK
  <2> QED BY <2>3 DEF DispInv, HandlerOnBoundImpl
<1> QED BY <1>1, <1>2, AdminMoves
=============================================================================
