------------------------ MODULE DispatchEnqueueProofs ------------------------
(***************************************************************************)
(* The steps of Dispatch that push a leg, a call or the reply to one, keep *)
(* the invariant.                                                          *)
(***************************************************************************)
EXTENDS DispatchInvariants

\* The pushed leg is the last one, and the counts follow.
LEMMA EnqueueEffect ==
    ASSUME DispInv, NEW l \in Legs, NEW d, Enqueue(l, d)
    PROVE  /\ mpsc' \in Seq(Legs) /\ mpsc' # <<>>
           /\ DOMAIN mpsc' = DOMAIN mpsc \cup {Len(mpsc) + 1} /\ Len(mpsc) + 1 \notin DOMAIN mpsc
           /\ mpsc'[Len(mpsc) + 1] = l /\ \A i \in DOMAIN mpsc : mpsc'[i] = mpsc[i]
           /\ g_disp_pending' = Len(mpsc')
           /\ in_flight_calls' \in [Slots -> Int]
           /\ \A s \in Slots : in_flight_calls'[s] = CountIn(mpsc', ToSlot(s))
                                                    + One(Handling /\ Dst(msg) = s)
           /\ CountIn(mpsc', Replies) = CountIn(mpsc, Replies) + One(l.kind = "reply")
<1>1. mpsc \in Seq(Legs) /\ in_flight_calls \in [Slots -> Int] BY DEF DispInv, DTypeOK
<1>2. mpsc' = Append(mpsc, l) BY DEF Enqueue
<1>3. mpsc' \in Seq(Legs) /\ mpsc' # <<>> /\ Len(mpsc') = Len(mpsc) + 1
      /\ mpsc'[Len(mpsc) + 1] = l /\ (\A i \in DOMAIN mpsc : mpsc'[i] = mpsc[i])
      /\ DOMAIN mpsc' = 1 .. (Len(mpsc) + 1) /\ DOMAIN mpsc = 1 .. Len(mpsc) /\ Len(mpsc) \in Nat
  BY <1>1, <1>2
<1>4. DOMAIN mpsc' = DOMAIN mpsc \cup {Len(mpsc) + 1} /\ Len(mpsc) + 1 \notin DOMAIN mpsc
  <2> DEFINE n == Len(mpsc)
  <2>1. 1 .. (n + 1) = (1 .. n) \cup {n + 1} /\ n + 1 \notin 1 .. n BY <1>3
  <2> QED BY <1>3, <2>1
<1>5. g_disp_pending' = Len(mpsc') BY <1>3 DEF Enqueue, DispInv, CountsAgree
<1>6. Dst(l) \in Slots BY DstSlot
<1>7. in_flight_calls' = [in_flight_calls EXCEPT ![Dst(l)] = @ + 1] BY DEF Enqueue
<1>8. in_flight_calls' \in [Slots -> Int] BY <1>1, <1>6, <1>7
<1>9. ASSUME NEW s \in Slots
      PROVE  in_flight_calls'[s] = CountIn(mpsc', ToSlot(s)) + One(Handling /\ Dst(msg) = s)
  <2> DEFINE n == CountIn(mpsc, ToSlot(s))
             m == One(Handling /\ Dst(msg) = s)
  <2>1. in_flight_calls[s] = n + m BY DEF DispInv, CountsAgree
  <2>2. n \in Nat BY <1>1, CountType, Zenon
  <2>3. m \in {0, 1} BY DEF One
  <2>4. CountIn(mpsc', ToSlot(s)) = n + One(l \in ToSlot(s)) BY <1>1, <1>2, CountAppend
  <2> HIDE DEF n, m
  <2>5. CASE Dst(l) = s
    <3>1. One(l \in ToSlot(s)) = 1 BY <2>5 DEF ToSlot, One
    <3>2. in_flight_calls'[s] = in_flight_calls[s] + 1 BY <1>1, <1>6, <1>7, <2>5
    <3>3. in_flight_calls'[s] = (n + 1) + m BY <2>1, <2>2, <2>3, <3>2
    <3> QED BY <2>4, <3>1, <3>3 DEF m
  <2>6. CASE Dst(l) # s
    <3>1. One(l \in ToSlot(s)) = 0 BY <2>6 DEF ToSlot, One
    <3>2. in_flight_calls'[s] = in_flight_calls[s] BY <1>1, <1>6, <1>7, <2>6
    <3>3. in_flight_calls'[s] = (n + 0) + m BY <2>1, <2>2, <2>3, <3>2
    <3> QED BY <2>4, <3>1, <3>3 DEF m
  <2> QED BY <2>5, <2>6
<1>10. CountIn(mpsc', Replies) = CountIn(mpsc, Replies) + One(l.kind = "reply")
  <2>1. CountIn(mpsc', Replies) = CountIn(mpsc, Replies) + One(l \in Replies)
    BY <1>1, <1>2, CountAppend
  <2>2. One(l \in Replies) = One(l.kind = "reply") BY DEF Replies, One
  <2> QED BY <2>1, <2>2
<1> QED BY <1>3, <1>4, <1>5, <1>8, <1>9, <1>10

\* A caller without a leg pushes a request and goes to wait for the reply.
LEMMA CallerEnqueues ==
    ASSUME DispInv, NEW c \in Callers, NEW s \in Services, ~Outstanding(c),
           Enqueue(Leg("req", c, s, "OK"), dpc), UNCHANGED <<msg, impl, adminVars, pool_inuse>>,
           \A d \in Callers \ {c} : /\ cpc'[d] = cpc[d] /\ ran'[d] = ran[d]
                                    /\ reply_rc'[d] = reply_rc[d] /\ reply_buf'[d] = reply_buf[d],
           cpc'[c] \in {"enqueued", "reply_wait", "dead"}, ran'[c] = <<>>, reply_buf'[c],
           cpc' \in [Callers -> {"user", "checked", "enqueued", "reply_wait", "resume_wait", "woken", "dead"}],
           svc' \in [Callers -> Services \cup {NoSlot}], reply_buf' \in [Callers -> BOOLEAN],
           reply_rc' \in [Callers -> Rcs \cup {"none"}],
           ran' \in [Callers -> Seq(Rcs)],
           \A d \in Callers \ {c} : svc'[d] = svc[d],
           cpc'[c] = "enqueued" => c \in Kcallers
    PROVE  DispInv'
<1> DEFINE l == Leg("req", c, s, "OK")
           n == Len(mpsc) + 1
<1>1. l \in Legs /\ l.caller = c /\ l.kind = "req" BY DEF Leg, Legs, Rcs
<1>2. /\ mpsc' \in Seq(Legs) /\ mpsc' # <<>>
      /\ DOMAIN mpsc' = DOMAIN mpsc \cup {n} /\ n \notin DOMAIN mpsc
      /\ mpsc'[n] = l /\ \A i \in DOMAIN mpsc : mpsc'[i] = mpsc[i]
      /\ g_disp_pending' = Len(mpsc')
      /\ in_flight_calls' \in [Slots -> Int]
      /\ \A x \in Slots : in_flight_calls'[x] = CountIn(mpsc', ToSlot(x)) + One(Handling /\ Dst(msg) = x)
      /\ CountIn(mpsc', Replies) = CountIn(mpsc, Replies) + One(l.kind = "reply")
  BY <1>1, EnqueueEffect, Zenon
<1> HIDE DEF l, n
<1>3. dpc' = IF dpc = "asleep" THEN "pump" ELSE dpc BY DEF Enqueue
<1>4. Busy' = Busy /\ Handling' = Handling /\ InHand' = InHand
  BY <1>3 DEF Busy, Handling, InHand, DispInv, DTypeOK
<1>5. DTypeOK'
  <2>1. dpc' \in {"pump", "drained", "asleep", "recv", "handle", "handled", "post", "panic"}
    BY <1>3 DEF DispInv, DTypeOK
  <2>2. active' = active /\ apc' = apc /\ tgt' = tgt BY DEF adminVars
  <2>3. (\A d \in Callers : cpc[d] = "checked" => svc[d] \in Services)'
    BY DEF DispInv, DTypeOK
  <2>4. (\A d \in Callers : cpc[d] \in {"checked", "enqueued"} => d \in Kcallers)'
    BY DEF DispInv, DTypeOK
  <2>5. IF Busy' THEN msg' \in Legs ELSE msg' = NoLeg BY <1>4 DEF DispInv, DTypeOK
  <2> QED BY <1>2, <2>1, <2>2, <2>3, <2>4, <2>5 DEF DispInv, DTypeOK
<1>6. CountsAgree'
  <2>1. One(l.kind = "reply") = 0 BY <1>1 DEF One
  <2>2. CountIn(mpsc, Replies) \in Nat BY CountType, Zenon DEF DispInv, DTypeOK
  <2>3. CountIn(mpsc', Replies) = CountIn(mpsc, Replies) BY <1>2, <2>1, <2>2
  <2> QED BY <1>2, <1>4, <2>3 DEF DispInv, CountsAgree
<1>7. HandlerOnBoundImpl'
  BY <1>3 DEF DispInv, HandlerOnBoundImpl, adminVars
<1>8. DispatcherAwake' /\ NoPanic'
  BY <1>3 DEF DispInv, DispatcherAwake, NoPanic, PoolPerCaller
<1>9. \A d : Outstanding(d)' <=> Outstanding(d) \/ d = c
  BY <1>1, <1>2, <1>4, SMTT(20) DEF Outstanding
<1>10. OneLeg'
  <2>1. \A i \in DOMAIN mpsc : mpsc[i].caller # c BY DEF Outstanding
  <2>2. \A i, j \in DOMAIN mpsc' : mpsc'[i].caller = mpsc'[j].caller => i = j
    BY <1>1, <1>2, <2>1, SMTT(20) DEF DispInv, OneLeg
  <2>3. InHand' => \A i \in DOMAIN mpsc' : mpsc'[i].caller # msg'.caller
    BY <1>1, <1>2, <1>4, SMTT(20) DEF DispInv, OneLeg, Outstanding
  <2> QED BY <1>9, <2>2, <2>3 DEF DispInv, OneLeg
<1>11. RanAgrees'
  <2>1. \A d \in Callers : Outstanding(d) => d \in Callers \ {c} OBVIOUS
  <2>2. ASSUME NEW i \in DOMAIN mpsc PROVE LegAgrees(mpsc'[i], ran')
    <3>1. mpsc[i] \in Legs BY DEF DispInv, DTypeOK
    <3>2. mpsc[i].caller \in Callers \ {c} BY <3>1, DstSlot DEF Outstanding
    <3>3. LegAgrees(mpsc[i], ran) BY DEF DispInv, RanAgrees
    <3> QED BY <1>2, <3>2, <3>3, SMTT(20) DEF LegAgrees
  <2>3. LegAgrees(mpsc'[n], ran')
    <3>1. LegAgrees(l, ran') BY <1>1 DEF LegAgrees
    <3> QED BY <1>2, <3>1
  <2>4. ASSUME InHand PROVE ran'[msg.caller] = ran[msg.caller]
    <3>1. msg \in Legs BY <2>4 DEF DispInv, DTypeOK, InHand
    <3>2. msg.caller \in Callers \ {c} BY <2>4, <3>1, DstSlot DEF Outstanding
    <3> QED BY <3>2
  <2>5. dpc \in {"recv", "handle"} => InHand BY DEF InHand, Busy
  <2>6. dpc \in {"handled", "post"} /\ msg.kind = "req" => InHand BY DEF InHand, Busy
  <2>7. dpc' \in {"recv", "handle"} => LegAgrees(msg', ran')
    BY <1>3, <2>4, <2>5 DEF DispInv, RanAgrees, LegAgrees
  <2>8. dpc' \in {"handled", "post"} /\ msg'.kind = "req" => Ended(ran'[msg'.caller], msg'.rc)
    BY <1>3, <2>4, <2>6 DEF DispInv, RanAgrees
  <2>9. \A d \in Callers : Len(ran'[d]) <= 1
    <3>1. Len(ran'[c]) <= 1 OBVIOUS
    <3>2. \A d \in Callers \ {c} : Len(ran'[d]) <= 1 BY DEF DispInv, RanAgrees
    <3> QED BY <3>1, <3>2, Zenon
  <2>10. \A d \in Callers : CallerAgrees(d)' BY <2>9, SMTT(20) DEF DispInv, RanAgrees, CallerAgrees
  <2>11. ASSUME NEW i \in DOMAIN mpsc' PROVE LegAgrees(mpsc'[i], ran')
    BY <1>2, <2>2, <2>3
  <2> QED BY <2>7, <2>8, <2>10, <2>11 DEF RanAgrees, CallerAgrees
<1>12. Owed' BY <1>9 DEF DispInv, Owed
<1> QED BY <1>5, <1>6, <1>7, <1>8, <1>10, <1>11, <1>12 DEF DispInv

\* The call of a user task.
LEMMA CallInv ==
    ASSUME DispInv, NEW c \in Callers, NEW s \in Services, Call(c, s)
    PROVE  DispInv'
<1> USE DEF Call, Stash
<1> PICK p \in Parked(c, "reply_wait") : cpc' = [cpc EXCEPT ![c] = p] BY Zenon
<1>1. p \in {"reply_wait", "dead"} BY DEF Parked
<1>2. ~Outstanding(c) BY DEF DispInv, OneLeg
<1>3. "OK" \in Rcs /\ <<>> \in Seq(Rcs) BY DEF Rcs
<1> QED BY <1>1, <1>2, <1>3, CallerEnqueues, Zenon DEF DispInv, DTypeOK

\* The push of a kernel thread's call.
LEMMA KEnqueueInv ==
    ASSUME DispInv, NEW c \in Callers, KEnqueue(c)
    PROVE  DispInv'
<1> USE DEF KEnqueue
<1>1. svc[c] \in Services /\ c \in Kcallers BY DEF DispInv, DTypeOK
<1>2. ~Outstanding(c) BY Zenon DEF DispInv, OneLeg
<1>3. ran[c] = <<>> /\ reply_buf[c] BY DEF DispInv, RanAgrees
<1> QED BY <1>1, <1>2, <1>3, CallerEnqueues, Zenon DEF DispInv, DTypeOK
-----------------------------------------------------------------------------
(***************************************************************************)
(* The reply that follows a request.                                       *)
(***************************************************************************)
\* There is room in a pool with an entry per caller: the replies queued are for
\* different callers, none of them the one whose request is being answered.
LEMMA PoolRoom ==
    ASSUME DispInv, PoolPerCaller, dpc = "post", msg.kind = "req"
    PROVE  pool_inuse < PoolSize
<1> DEFINE c == msg.caller
           T == {i \in DOMAIN mpsc : mpsc[i] \in Replies}
           f == [i \in T |-> mpsc[i].caller]
<1>1. Busy /\ InHand BY DEF Busy, InHand
<1>2. mpsc \in Seq(Legs) /\ msg \in Legs /\ c \in Callers BY <1>1, DstSlot DEF DispInv, DTypeOK
<1>3. IsFiniteSet(T) /\ CountIn(mpsc, Replies) = Cardinality(T) /\ Cardinality(T) \in Nat
  BY <1>2, CountType DEF CountIn
<1>4. pool_inuse = Cardinality(T) BY <1>3 DEF DispInv, CountsAgree, One
<1>5. \A i \in T : mpsc[i].caller \in Callers \ {c} BY <1>1, <1>2, DstSlot DEF DispInv, OneLeg, Replies
<1>6. f \in Injection(T, Callers \ {c})
  <2>1. f \in [T -> Callers \ {c}] BY <1>5
  <2>2. \A i, j \in T : f[i] = f[j] => i = j BY DEF DispInv, OneLeg
  <2> QED BY <2>1, <2>2 DEF Injection, IsInjective
<1>7. IsFiniteSet(Callers \ {c}) /\ Cardinality(Callers \ {c}) = Cardinality(Callers) - 1
  BY <1>2, FS_RemoveElement DEF PoolPerCaller
<1>8. Cardinality(T) <= Cardinality(Callers \ {c}) BY <1>6, <1>7, FS_Injection
<1>9. Cardinality(Callers) \in Nat BY FS_CardinalityType DEF PoolPerCaller
<1> HIDE DEF T
<1> QED BY <1>3, <1>4, <1>7, <1>8, <1>9, DispatchAssumption DEF PoolPerCaller

\* The reply takes the place of the request; without a pool entry the kernel stops.
LEMMA PostReplyInv ==
    ASSUME DispInv, PostReply
    PROVE  DispInv'
<1> DEFINE l == Leg("reply", msg.caller, msg.svc, msg.rc)
           n == Len(mpsc) + 1
<1>1. dpc = "post" /\ msg.kind = "req" /\ msg' = NoLeg /\ UNCHANGED <<impl, callVars, adminVars>>
  BY DEF PostReply
<1>2. Busy /\ ~Handling /\ InHand BY <1>1 DEF Busy, Handling, InHand
<1>3. msg \in Legs BY <1>2 DEF DispInv, DTypeOK
<1>4. l \in Legs /\ l.caller = msg.caller /\ l.kind = "reply" /\ l.rc = msg.rc
  BY <1>3 DEF Leg, Legs
<1>5. cpc' = cpc /\ ran' = ran /\ reply_rc' = reply_rc /\ reply_buf' = reply_buf
  BY <1>1 DEF callVars
<1>6. CountIn(mpsc, Replies) \in Nat /\ pool_inuse = CountIn(mpsc, Replies) + 0
  BY <1>1, CountType, Zenon DEF DispInv, DTypeOK, CountsAgree, One
<1>7. CASE pool_inuse < PoolSize
  <2>1. pool_inuse' = pool_inuse + 1 /\ Enqueue(l, "pump") /\ dpc' = "pump"
    BY <1>7 DEF PostReply, Enqueue
  <2>2. /\ mpsc' \in Seq(Legs) /\ mpsc' # <<>>
        /\ DOMAIN mpsc' = DOMAIN mpsc \cup {n} /\ n \notin DOMAIN mpsc
        /\ mpsc'[n] = l /\ \A i \in DOMAIN mpsc : mpsc'[i] = mpsc[i]
        /\ g_disp_pending' = Len(mpsc')
        /\ in_flight_calls' \in [Slots -> Int]
        /\ \A x \in Slots : in_flight_calls'[x] = CountIn(mpsc', ToSlot(x)) + One(Handling /\ Dst(msg) = x)
        /\ CountIn(mpsc', Replies) = CountIn(mpsc, Replies) + One(l.kind = "reply")
    BY <1>4, <2>1, EnqueueEffect, Zenon
  <2> HIDE DEF l, n
  <2>3. ~Busy' /\ ~Handling' /\ ~InHand' BY <2>1 DEF Busy, Handling, InHand
  <2>4. DTypeOK'
    BY <1>1, <1>6, <2>1, <2>2, <2>3, SMTT(20) DEF DispInv, DTypeOK, callVars, adminVars
  <2>5. CountsAgree'
    <3>1. One(l.kind = "reply") = 1 BY <1>4 DEF One
    <3>2. CountIn(mpsc', Replies) = CountIn(mpsc, Replies) + 1 BY <2>2, <3>1
    <3>3. CountIn(mpsc', Replies) \in Nat BY <2>2, CountType, Zenon
    <3>4. pool_inuse' = CountIn(mpsc', Replies) + 0 BY <1>6, <2>1, <3>2, <3>3
    <3>5. pool_inuse' = CountIn(mpsc', Replies) + One(Busy' /\ msg'.kind = "reply")
      BY <2>3, <3>4 DEF One
    <3>6. \A s \in Slots : One(Handling' /\ Dst(msg') = s) = One(Handling /\ Dst(msg) = s)
      BY <1>2, <2>3 DEF One
    <3> QED BY <2>2, <3>5, <3>6 DEF CountsAgree
  <2>6. HandlerOnBoundImpl' /\ DispatcherAwake' /\ NoPanic'
    BY <2>1 DEF HandlerOnBoundImpl, DispatcherAwake, NoPanic
  <2>7. \A d : Outstanding(d)' <=> Outstanding(d) BY <1>2, <1>4, <2>2, <2>3 DEF Outstanding
  <2>8. OneLeg'
    <3>1. \A i, j \in DOMAIN mpsc' : mpsc'[i].caller = mpsc'[j].caller => i = j
      BY <1>2, <1>4, <2>2, SMTT(20) DEF DispInv, OneLeg
    <3> QED BY <1>5, <2>3, <2>7, <3>1 DEF DispInv, OneLeg
  <2>9. RanAgrees'
    <3>1. LegAgrees(l, ran) BY <1>1, <1>4 DEF DispInv, RanAgrees, LegAgrees
    <3>2. \A i \in DOMAIN mpsc' : LegAgrees(mpsc'[i], ran')
      BY <1>5, <2>2, <3>1 DEF DispInv, RanAgrees
    <3> QED BY <1>5, <2>1, <3>2 DEF DispInv, RanAgrees
  <2>10. Owed' BY <1>5, <2>7 DEF DispInv, Owed
  <2> QED BY <2>4, <2>5, <2>6, <2>8, <2>9, <2>10 DEF DispInv
<1>8. CASE ~(pool_inuse < PoolSize)
  <2>1. dpc' = "panic" /\ pool_inuse' = pool_inuse /\ mpsc' = mpsc
        /\ in_flight_calls' = in_flight_calls /\ g_disp_pending' = g_disp_pending
    BY <1>8 DEF PostReply, queueVars
  <2>2. ~PoolPerCaller BY <1>1, <1>8, PoolRoom
  <2>3. ~Busy' /\ ~Handling' /\ ~InHand' BY <2>1 DEF Busy, Handling, InHand
  <2>4. DTypeOK' BY <1>1, <2>1, <2>3 DEF DispInv, DTypeOK, callVars, adminVars
  <2>5. CountsAgree'
    <3>1. pool_inuse' = CountIn(mpsc', Replies) + One(Busy' /\ msg'.kind = "reply")
      BY <1>6, <2>1, <2>3 DEF One
    <3>2. \A s \in Slots : One(Handling' /\ Dst(msg') = s) = One(Handling /\ Dst(msg) = s)
      BY <1>2, <2>3 DEF One
    <3> QED BY <2>1, <3>1, <3>2 DEF DispInv, CountsAgree
  <2>6. HandlerOnBoundImpl' /\ DispatcherAwake' BY <2>1 DEF HandlerOnBoundImpl, DispatcherAwake
  <2>7. \A d : Outstanding(d)' => Outstanding(d) BY <2>1, <2>3 DEF Outstanding
  <2>8. OneLeg' BY <1>5, <2>1, <2>3, <2>7, SMTT(20) DEF DispInv, OneLeg
  <2>9. RanAgrees'
    <3>1. \A i \in DOMAIN mpsc' : LegAgrees(mpsc'[i], ran') BY <1>5, <2>1, Zenon DEF DispInv, RanAgrees
    <3>2. \A d \in Callers : CallerAgrees(d)' BY <1>5 DEF DispInv, RanAgrees, CallerAgrees
    <3> QED BY <2>1, <3>1, <3>2 DEF RanAgrees, CallerAgrees
  <2>10. Owed' /\ NoPanic' BY <2>2 DEF Owed, NoPanic, PoolPerCaller
  <2> QED BY <2>4, <2>5, <2>6, <2>8, <2>9, <2>10 DEF DispInv
<1> QED BY <1>7, <1>8
=============================================================================
