-------------------------- MODULE DispatchStepProofs --------------------------
(***************************************************************************)
(* The steps by which the dispatcher takes a leg and processes it keep the *)
(* invariant of Dispatch.                                                  *)
(***************************************************************************)
EXTENDS DispatchInvariants

\* The dispatcher moves on with the same leg, or none, in its hands.
LEMMA SameHand ==
    ASSUME DispInv, DTypeOK', HandlerOnBoundImpl', DispatcherAwake',
           UNCHANGED <<queueVars, msg, callVars, adminVars, pool_inuse>>,
           Busy' = Busy, Handling' = Handling, InHand' = InHand,
           dpc' \notin {"handled", "post", "panic"},
           dpc' \in {"recv", "handle"} => dpc \in {"recv", "handle"}
    PROVE  DispInv'
<1>1. mpsc' = mpsc /\ in_flight_calls' = in_flight_calls /\ g_disp_pending' = g_disp_pending
      /\ cpc' = cpc /\ ran' = ran /\ reply_rc' = reply_rc /\ reply_buf' = reply_buf
  BY DEF queueVars, callVars
<1>2. CountsAgree' BY <1>1 DEF DispInv, CountsAgree
<1>3. \A c : Outstanding(c)' <=> Outstanding(c) BY <1>1 DEF Outstanding
<1>4. OneLeg' BY <1>1, <1>3 DEF DispInv, OneLeg
<1>5. RanAgrees' BY <1>1 DEF DispInv, RanAgrees
<1>6. Owed' BY <1>1, <1>3 DEF DispInv, Owed
<1>7. NoPanic' BY DEF NoPanic
<1> QED BY <1>2, <1>4, <1>5, <1>6, <1>7 DEF DispInv

\* The queue was empty.
LEMMA PopNothingInv ==
    ASSUME DispInv, PopNothing
    PROVE  DispInv'
<1> USE DEF PopNothing
<1>1. DTypeOK' BY DEF DispInv, DTypeOK, Busy, queueVars, callVars, adminVars
<1>2. HandlerOnBoundImpl' /\ DispatcherAwake' BY DEF HandlerOnBoundImpl, DispatcherAwake
<1>3. Busy' = Busy /\ Handling' = Handling /\ InHand' = InHand BY DEF Busy, Handling, InHand
<1> QED BY <1>1, <1>2, <1>3, SameHand

\* The dispatcher sleeps unless something is pending.
LEMMA SleepInv ==
    ASSUME DispInv, Sleep
    PROVE  DispInv'
<1> USE DEF Sleep
<1>1. DTypeOK' BY DEF DispInv, DTypeOK, Busy, queueVars, callVars, adminVars
<1>2. mpsc \in Seq(Legs) /\ g_disp_pending = Len(mpsc) BY DEF DispInv, DTypeOK, CountsAgree
<1>3. mpsc # <<>> => g_disp_pending > 0 BY <1>2
<1>4. HandlerOnBoundImpl' BY DEF HandlerOnBoundImpl
<1>5. DispatcherAwake' BY <1>3 DEF DispatcherAwake, queueVars
<1>6. Busy' = Busy /\ Handling' = Handling /\ InHand' = InHand BY DEF Busy, Handling, InHand
<1> QED BY <1>1, <1>4, <1>5, <1>6, SameHand

\* The handler is looked up in the component that is bound.
LEMMA InvokeInv ==
    ASSUME DispInv, Invoke
    PROVE  DispInv'
<1> USE DEF Invoke
<1>1. DTypeOK' BY DEF DispInv, DTypeOK, Busy, queueVars, callVars, adminVars
<1>2. HandlerOnBoundImpl' BY DEF HandlerOnBoundImpl, adminVars
<1>3. DispatcherAwake' BY DEF DispatcherAwake
<1>4. Busy' = Busy /\ Handling' = Handling /\ InHand' = InHand BY DEF Busy, Handling, InHand
<1> QED BY <1>1, <1>2, <1>3, <1>4, SameHand

\* The oldest leg goes from the queue into the dispatcher's hands.
LEMMA PopInv ==
    ASSUME DispInv, Pop
    PROVE  DispInv'
<1> USE DEF Pop
<1>1. mpsc \in Seq(Legs) /\ mpsc # <<>> /\ mpsc' = Tail(mpsc) /\ msg' = Head(mpsc) /\ dpc' = "recv"
      /\ in_flight_calls' = in_flight_calls /\ pool_inuse' = pool_inuse
      /\ cpc' = cpc /\ ran' = ran /\ reply_rc' = reply_rc /\ reply_buf' = reply_buf
  BY DEF DispInv, DTypeOK, callVars
<1>2. /\ mpsc' \in Seq(Legs) /\ msg' \in Legs /\ Len(mpsc') = Len(mpsc) - 1
      /\ 1 \in DOMAIN mpsc /\ msg' = mpsc[1]
      /\ \A i \in DOMAIN mpsc' : i + 1 \in DOMAIN mpsc /\ i + 1 # 1 /\ mpsc'[i] = mpsc[i + 1]
  BY <1>1
<1>3. \A i \in DOMAIN mpsc : i = 1 \/ (i - 1 \in DOMAIN mpsc' /\ mpsc[i] = mpsc'[i - 1])
  BY <1>1
<1>4. Busy' /\ Handling' /\ InHand' /\ ~Busy /\ ~Handling /\ ~InHand
  BY DEF Busy, Handling, InHand
<1>5. DTypeOK' BY <1>1, <1>2, <1>4 DEF DispInv, DTypeOK, callVars, adminVars
<1>6. CountsAgree'
  <2>1. g_disp_pending' = Len(mpsc') BY <1>1, <1>2 DEF DispInv, CountsAgree
  <2>2. ASSUME NEW s \in Slots
        PROVE  in_flight_calls'[s] = CountIn(mpsc', ToSlot(s)) + One(Handling' /\ Dst(msg') = s)
    <3>1. in_flight_calls[s] = CountIn(mpsc, ToSlot(s)) + 0
      BY <1>4 DEF DispInv, CountsAgree, One
    <3>2. CountIn(mpsc, ToSlot(s)) = CountIn(mpsc', ToSlot(s)) + One(msg' \in ToSlot(s))
      BY <1>1, CountTail
    <3>3. One(msg' \in ToSlot(s)) = One(Handling' /\ Dst(msg') = s) BY <1>2, <1>4 DEF ToSlot, One
    <3>4. CountIn(mpsc, ToSlot(s)) \in Nat BY <1>1, CountType, Zenon
    <3>5. in_flight_calls[s] = CountIn(mpsc, ToSlot(s)) BY <3>1, <3>4
    <3> QED BY <1>1, <3>2, <3>3, <3>5
  <2>3. pool_inuse' = CountIn(mpsc', Replies) + One(Busy' /\ msg'.kind = "reply")
    <3>1. pool_inuse = CountIn(mpsc, Replies) + 0 BY <1>4 DEF DispInv, CountsAgree, One
    <3>2. CountIn(mpsc, Replies) = CountIn(mpsc', Replies) + One(msg' \in Replies)
      BY <1>1, CountTail
    <3>3. One(msg' \in Replies) = One(Busy' /\ msg'.kind = "reply") BY <1>2, <1>4 DEF Replies, One
    <3>4. CountIn(mpsc, Replies) \in Nat BY <1>1, CountType, Zenon
    <3>5. pool_inuse = CountIn(mpsc, Replies) BY <3>1, <3>4
    <3> QED BY <1>1, <3>2, <3>3, <3>5
  <2> QED BY <2>1, <2>2, <2>3 DEF CountsAgree
<1>7. HandlerOnBoundImpl' /\ DispatcherAwake' /\ NoPanic'
  BY DEF HandlerOnBoundImpl, DispatcherAwake, NoPanic
<1>8. ASSUME NEW c PROVE Outstanding(c)' <=> Outstanding(c)
  <2>1. Outstanding(c) <=> \E i \in DOMAIN mpsc : mpsc[i].caller = c BY <1>4 DEF Outstanding
  <2>2. Outstanding(c)' <=> (\E i \in DOMAIN mpsc' : mpsc'[i].caller = c) \/ msg'.caller = c
    BY <1>4 DEF Outstanding
  <2> QED BY <1>2, <1>3, <2>1, <2>2
<1>9. OneLeg'
  <2>1. ASSUME NEW i \in DOMAIN mpsc', NEW j \in DOMAIN mpsc', mpsc'[i].caller = mpsc'[j].caller
        PROVE  i = j
    <3>1. i + 1 = j + 1 BY <1>2, <2>1 DEF DispInv, OneLeg
    <3>2. i \in Int /\ j \in Int BY <1>2
    <3> QED BY <3>1, <3>2
  <2>2. \A i \in DOMAIN mpsc' : mpsc'[i].caller # msg'.caller BY <1>2 DEF DispInv, OneLeg
  <2> QED BY <1>1, <1>8, <2>1, <2>2 DEF DispInv, OneLeg
<1>10. RanAgrees'
  <2>1. \A i \in DOMAIN mpsc' : LegAgrees(mpsc'[i], ran') BY <1>1, <1>2 DEF DispInv, RanAgrees
  <2>2. LegAgrees(msg', ran') BY <1>1, <1>2 DEF DispInv, RanAgrees
  <2> QED BY <1>1, <2>1, <2>2 DEF DispInv, RanAgrees
<1>11. Owed' BY <1>1, <1>8 DEF DispInv, Owed
<1> QED BY <1>5, <1>6, <1>7, <1>9, <1>10, <1>11 DEF DispInv

\* The slot of the leg in hand has one leg less in flight.
LEMMA RetireCounts ==
    ASSUME DispInv, Handling, dpc' = "post", mpsc' = mpsc, g_disp_pending' = g_disp_pending,
           pool_inuse' = pool_inuse, msg'.kind = msg.kind,
           in_flight_calls' = [in_flight_calls EXCEPT ![Dst(msg)] = @ - 1]
    PROVE  CountsAgree' /\ in_flight_calls' \in [Slots -> Int]
<1>1. Busy /\ Busy' /\ ~Handling' BY DEF Busy, Handling
<1>2. msg \in Legs /\ in_flight_calls \in [Slots -> Int] /\ mpsc \in Seq(Legs)
  BY <1>1 DEF DispInv, DTypeOK
<1>3. Dst(msg) \in Slots BY <1>2, DstSlot
<1>4. ASSUME NEW s \in Slots
      PROVE  in_flight_calls'[s] = CountIn(mpsc', ToSlot(s)) + One(Handling' /\ Dst(msg') = s)
  <2> DEFINE n == CountIn(mpsc, ToSlot(s))
  <2>1. n \in Nat BY <1>2, CountType, Zenon
  <2>2. One(Handling' /\ Dst(msg') = s) = 0 BY <1>1 DEF One
  <2>3. in_flight_calls[s] = n + One(Handling /\ Dst(msg) = s) BY DEF DispInv, CountsAgree
  <2> HIDE DEF n
  <2>4. CASE Dst(msg) = s
    <3>1. in_flight_calls[s] = n + 1 BY <2>3, <2>4 DEF One
    <3>2. in_flight_calls'[s] = n BY <1>2, <2>1, <2>4, <3>1
    <3>3. in_flight_calls'[s] = n + 0 BY <2>1, <3>2
    <3> QED BY <2>2, <3>3 DEF n
  <2>5. CASE Dst(msg) # s
    <3>1. in_flight_calls[s] = n + 0 BY <2>3, <2>5 DEF One
    <3>2. in_flight_calls'[s] = n + 0 BY <1>2, <2>5, <3>1
    <3> QED BY <2>2, <3>2 DEF n
  <2> QED BY <2>4, <2>5
<1>5. pool_inuse' = CountIn(mpsc', Replies) + One(Busy' /\ msg'.kind = "reply")
  BY <1>1 DEF DispInv, CountsAgree
<1> QED BY <1>2, <1>3, <1>4, <1>5 DEF DispInv, CountsAgree

\* A hook aborts the leg in hand.
LEMMA RecvAbortInv ==
    ASSUME DispInv, RecvAbort
    PROVE  DispInv'
<1> USE DEF RecvAbort
<1>1. Handling /\ Busy /\ InHand /\ Busy' BY DEF Handling, Busy, InHand
<1>2. msg \in Legs /\ msg' \in Legs /\ msg'.kind = msg.kind /\ msg'.caller = msg.caller
      /\ msg'.rc = "EABORT"
  BY <1>1, Zenon DEF DispInv, DTypeOK, Legs, Rcs
<1>3. mpsc' = mpsc /\ cpc' = cpc /\ ran' = ran /\ reply_rc' = reply_rc /\ reply_buf' = reply_buf
  BY DEF callVars
<1>4. CountsAgree' /\ in_flight_calls' \in [Slots -> Int] BY <1>1, <1>2, RetireCounts
<1>5. DTypeOK' BY <1>1, <1>2, <1>4 DEF DispInv, DTypeOK, callVars, adminVars
<1>6. HandlerOnBoundImpl' /\ DispatcherAwake' /\ NoPanic'
  BY DEF HandlerOnBoundImpl, DispatcherAwake, NoPanic
<1>7. InHand' <=> msg.kind # "reply" BY <1>1, <1>2 DEF InHand
<1>8. \A c : Outstanding(c)' => Outstanding(c) BY <1>1, <1>2, <1>3 DEF Outstanding
<1>9. OneLeg' BY <1>1, <1>2, <1>3, <1>8 DEF DispInv, OneLeg
<1>10. RanAgrees'
  <2>1. LegAgrees(msg, ran) BY DEF DispInv, RanAgrees
  <2>2. msg.kind = "req" => Ended(ran'[msg'.caller], msg'.rc)
    BY <1>2, <1>3, <2>1 DEF LegAgrees, Ended
  <2> QED BY <1>2, <1>3, <2>2 DEF DispInv, RanAgrees
<1>11. Owed'
  <2>1. "reply" \notin Aborts => \A c : Outstanding(c)' <=> Outstanding(c)
    BY <1>1, <1>2, <1>3, <1>7 DEF Outstanding
  <2> QED BY <1>3, <2>1 DEF DispInv, Owed
<1> QED BY <1>4, <1>5, <1>6, <1>9, <1>10, <1>11 DEF DispInv

\* invoke_handler has returned.
LEMMA RetireInv ==
    ASSUME DispInv, Retire
    PROVE  DispInv'
<1> USE DEF Retire
<1>1. Handling /\ Busy /\ Busy' /\ InHand' = InHand BY DEF Handling, Busy, InHand
<1>2. mpsc' = mpsc /\ cpc' = cpc /\ ran' = ran /\ reply_rc' = reply_rc /\ reply_buf' = reply_buf
  BY DEF callVars
<1>3. CountsAgree' /\ in_flight_calls' \in [Slots -> Int] BY <1>1, RetireCounts
<1>4. DTypeOK' BY <1>1, <1>3 DEF DispInv, DTypeOK, callVars, adminVars
<1>5. HandlerOnBoundImpl' /\ DispatcherAwake' /\ NoPanic'
  BY DEF HandlerOnBoundImpl, DispatcherAwake, NoPanic
<1>6. \A c : Outstanding(c)' <=> Outstanding(c) BY <1>1, <1>2 DEF Outstanding
<1>7. OneLeg' BY <1>1, <1>2, <1>6 DEF DispInv, OneLeg
<1>8. RanAgrees'
  <2>1. msg.kind = "req" => Ended(ran'[msg'.caller], msg'.rc)
    BY <1>2 DEF DispInv, RanAgrees
  <2> QED BY <1>2, <2>1 DEF DispInv, RanAgrees
<1>9. Owed' BY <1>2, <1>6 DEF DispInv, Owed
<1> QED BY <1>3, <1>4, <1>5, <1>7, <1>8, <1>9 DEF DispInv

\* There is no handler to run: the call will be answered ENOENT.
LEMMA InvokeNoneInv ==
    ASSUME DispInv, InvokeNone
    PROVE  DispInv'
<1> USE DEF InvokeNone
<1>1. Busy /\ Busy' /\ Handling /\ Handling' /\ InHand /\ msg.kind = "req"
  BY DEF Handling, Busy, InHand, Unhandled
<1>2. mpsc' = mpsc /\ in_flight_calls' = in_flight_calls /\ g_disp_pending' = g_disp_pending
      /\ cpc' = cpc /\ ran' = ran /\ reply_rc' = reply_rc /\ reply_buf' = reply_buf
  BY DEF queueVars, callVars
<1>3. msg \in Legs /\ msg' \in Legs /\ msg'.kind = msg.kind /\ msg'.caller = msg.caller
      /\ msg'.svc = msg.svc /\ msg'.rc = "ENOENT"
  BY <1>1, Zenon DEF DispInv, DTypeOK, Legs, Rcs
<1>4. InHand' /\ Dst(msg') = Dst(msg) BY <1>1, <1>3 DEF InHand, Dst
<1>5. DTypeOK' BY <1>1, <1>2, <1>3 DEF DispInv, DTypeOK, callVars, adminVars
<1>6. CountsAgree' BY <1>1, <1>2, <1>3, <1>4 DEF DispInv, CountsAgree
<1>7. HandlerOnBoundImpl' /\ DispatcherAwake' /\ NoPanic'
  BY DEF HandlerOnBoundImpl, DispatcherAwake, NoPanic
<1>8. \A c : Outstanding(c)' <=> Outstanding(c) BY <1>1, <1>2, <1>3, <1>4 DEF Outstanding
<1>9. OneLeg' BY <1>1, <1>2, <1>3, <1>4, <1>8 DEF DispInv, OneLeg
<1>10. RanAgrees'
  <2>1. Ended(ran'[msg'.caller], msg'.rc)
    BY <1>1, <1>2, <1>3 DEF DispInv, RanAgrees, LegAgrees, Ended
  <2> QED BY <1>2, <2>1 DEF DispInv, RanAgrees
<1>11. Owed' BY <1>2, <1>8 DEF DispInv, Owed
<1> QED BY <1>5, <1>6, <1>7, <1>9, <1>10, <1>11 DEF DispInv

\* The handler of a service runs.
LEMMA HandleRequestInv ==
    ASSUME DispInv, HandleRequest
    PROVE  DispInv'
<1> PICK r \in Results : /\ ran' = [ran EXCEPT ![msg.caller] = Append(@, r)]
                         /\ msg' = [msg EXCEPT !.rc = r]
  BY Zenon DEF HandleRequest
<1>0. dpc = "handle" /\ msg.kind = "req" /\ dpc' = "handled"
      /\ UNCHANGED <<queueVars, impl, cpc, svc, reply_buf, reply_rc, adminVars, pool_inuse>>
  BY Zenon DEF HandleRequest
<1> USE <1>0
<1>1. Busy /\ Busy' /\ Handling' /\ Handling /\ InHand BY DEF Handling, Busy, InHand
<1>2. mpsc' = mpsc /\ in_flight_calls' = in_flight_calls /\ g_disp_pending' = g_disp_pending
  BY DEF queueVars
<1>3. msg \in Legs /\ msg.caller \in Callers BY <1>1, DstSlot DEF DispInv, DTypeOK
<1>4. ran[msg.caller] = <<>> BY DEF DispInv, RanAgrees, LegAgrees
<1>13. r \in Rcs /\ Append(<<>>, r) = <<r>> /\ <<r>> \in Seq(Rcs) /\ Len(<<r>>) = 1 BY DispatchAssumption
<1>5. ran'[msg.caller] = <<r>> /\ (\A d \in Callers \ {msg.caller} : ran'[d] = ran[d])
      /\ ran' \in [Callers -> Seq(Rcs)]
  BY <1>3, <1>4, <1>13 DEF DispInv, DTypeOK
<1>14. msg' \in Legs /\ msg'.kind = msg.kind /\ msg'.caller = msg.caller /\ msg'.svc = msg.svc
       /\ msg'.rc = r
  BY <1>3, <1>13, Zenon DEF Legs
<1>15. InHand' /\ Dst(msg') = Dst(msg) BY <1>1, <1>14 DEF InHand, Dst
<1>6. DTypeOK' BY <1>1, <1>2, <1>5, <1>14 DEF DispInv, DTypeOK, adminVars
<1>7. CountsAgree' BY <1>1, <1>2, <1>14, <1>15 DEF DispInv, CountsAgree
<1>8. HandlerOnBoundImpl' /\ DispatcherAwake' /\ NoPanic'
  BY DEF HandlerOnBoundImpl, DispatcherAwake, NoPanic
<1>9. \A c : Outstanding(c)' <=> Outstanding(c) BY <1>1, <1>2, <1>14, <1>15 DEF Outstanding
<1>10. OneLeg' BY <1>1, <1>2, <1>9, <1>14 DEF DispInv, OneLeg
<1>11. RanAgrees'
  <2>1. ASSUME NEW i \in DOMAIN mpsc' PROVE LegAgrees(mpsc'[i], ran')
    <3>1. mpsc[i] \in Legs BY <1>2 DEF DispInv, DTypeOK
    <3>2. mpsc[i].caller \in Callers \ {msg.caller} BY <1>1, <1>2, <3>1, DstSlot DEF DispInv, OneLeg
    <3> QED BY <1>2, <1>5, <3>2 DEF DispInv, RanAgrees, LegAgrees
  <2>2. cpc[msg.caller] \notin {"user", "checked", "woken"}
    BY <1>1, <1>3 DEF DispInv, OneLeg, Outstanding
  <2>3. \A d \in Callers : CallerAgrees(d)' BY <1>5, <1>13, <2>2, SMTT(20) DEF DispInv, RanAgrees, CallerAgrees
  <2>4. Ended(ran'[msg'.caller], msg'.rc) BY <1>5, <1>14 DEF Ended
  <2> QED BY <2>1, <2>3, <2>4 DEF RanAgrees, CallerAgrees
<1>12. Owed' BY <1>9 DEF DispInv, Owed
<1> QED BY <1>6, <1>7, <1>8, <1>10, <1>11, <1>12 DEF DispInv

\* The handler of posix_shim runs: the caller no longer waits for this leg.
LEMMA HandleReplyInv ==
    ASSUME DispInv, HandleReply
    PROVE  DispInv'
<1> DEFINE c == msg.caller
<1>1. dpc = "handle" /\ msg.kind = "reply" /\ dpc' = "handled" /\ msg' = msg
      /\ mpsc' = mpsc /\ in_flight_calls' = in_flight_calls /\ g_disp_pending' = g_disp_pending
      /\ pool_inuse' = pool_inuse /\ reply_buf' = reply_buf /\ ran' = ran
      /\ UNCHANGED <<svc, impl, adminVars>>
  BY DEF HandleReply, queueVars
<1>2. Busy /\ Busy' /\ Handling /\ Handling' /\ InHand /\ ~InHand'
  BY <1>1 DEF Busy, Handling, InHand
<1>3. msg \in Legs /\ c \in Callers /\ msg.rc \in Rcs
  BY <1>2, DstSlot DEF DispInv, DTypeOK, Legs
<1>4. cpc[c] \notin {"user", "checked", "woken"} BY <1>2, <1>3 DEF DispInv, OneLeg, Outstanding
<1>5. /\ \A d \in Callers \ {c} : cpc'[d] = cpc[d] /\ reply_rc'[d] = reply_rc[d]
      /\ cpc'[c] # cpc[c] => cpc'[c] = "woken" /\ cpc[c] = "reply_wait" /\ reply_rc'[c] \in {msg.rc, "EINVAL"}
      /\ cpc[c] = "reply_wait" /\ reply_buf[c] => cpc'[c] = "woken"
      /\ cpc' \in [Callers -> {"user", "checked", "enqueued", "reply_wait", "resume_wait", "woken", "dead"}]
      /\ reply_rc' \in [Callers -> Rcs \cup {"none"}]
  <2>1. CASE reply_buf[c]
    <3>1. cpc \in [Callers -> {"user", "checked", "enqueued", "reply_wait", "resume_wait", "woken", "dead"}]
          /\ reply_rc \in [Callers -> Rcs \cup {"none"}]
      BY DEF DispInv, DTypeOK
    <3>2. PICK r \in {msg.rc, "EINVAL"} : reply_rc' = [reply_rc EXCEPT ![c] = r]
      BY <2>1, Zenon DEF HandleReply
    <3>3. cpc' = [cpc EXCEPT ![c] = IF @ = "reply_wait" THEN "woken" ELSE @]
      BY <2>1 DEF HandleReply
    <3>4. r \in Rcs BY <1>3, <3>2 DEF Rcs
    <3> HIDE DEF c
    <3> QED BY <1>3, <3>1, <3>2, <3>3, <3>4
  <2>2. CASE ~reply_buf[c] BY <2>2 DEF HandleReply, DispInv, DTypeOK
  <2> QED BY <2>1, <2>2
<1> HIDE DEF c
<1>6. DTypeOK'
  <2>1. \A d \in Callers : cpc'[d] \in {"checked", "enqueued"} => cpc[d] = cpc'[d] BY <1>5
  <2> QED BY <1>1, <1>2, <1>5, <2>1 DEF DispInv, DTypeOK, adminVars
<1>7. CountsAgree' BY <1>1, <1>2 DEF DispInv, CountsAgree
<1>8. HandlerOnBoundImpl' /\ DispatcherAwake' /\ NoPanic'
  BY <1>1 DEF HandlerOnBoundImpl, DispatcherAwake, NoPanic
<1>9. \A d : Outstanding(d)' <=> Outstanding(d) /\ d # c
  BY <1>1, <1>2 DEF DispInv, OneLeg, Outstanding, c
<1>10. OneLeg'
  <2>1. \A d \in Callers : cpc'[d] \in {"user", "checked", "woken"} => ~Outstanding(d)'
    BY <1>5, <1>9 DEF DispInv, OneLeg
  <2> QED BY <1>1, <1>2, <2>1 DEF DispInv, OneLeg
<1>11. RanAgrees'
  <2>1. Ended(ran[c], msg.rc) BY <1>1 DEF DispInv, RanAgrees, LegAgrees, c
  <2>2. \A d \in Callers : CallerAgrees(d)'
    BY <1>1, <1>3, <1>4, <1>5, <2>1, SMTT(20) DEF DispInv, RanAgrees, CallerAgrees
  <2> QED BY <1>1, <2>2 DEF DispInv, RanAgrees, CallerAgrees
<1>12. Owed' BY <1>1, <1>5, <1>9 DEF DispInv, Owed
<1> QED BY <1>6, <1>7, <1>8, <1>10, <1>11, <1>12 DEF DispInv

\* The dispatcher puts a leg that nobody waits for any more aside.
LEMMA FreeEntryInv ==
    ASSUME DispInv, FreeEntry
    PROVE  DispInv'
<1> USE DEF FreeEntry
<1>1. Busy /\ ~Busy' /\ ~Handling /\ ~Handling' /\ ~InHand /\ ~InHand' BY DEF Busy, Handling, InHand
<1>2. mpsc' = mpsc /\ in_flight_calls' = in_flight_calls /\ g_disp_pending' = g_disp_pending
      /\ cpc' = cpc /\ ran' = ran /\ reply_rc' = reply_rc /\ reply_buf' = reply_buf
  BY DEF queueVars, callVars
<1>3. DTypeOK' BY <1>1, <1>2 DEF DispInv, DTypeOK, callVars, adminVars
<1>4. CountsAgree'
  <2> DEFINE n == CountIn(mpsc, Replies)
  <2>1. n \in Nat BY CountType, Zenon DEF DispInv, DTypeOK
  <2>2. pool_inuse = n + 1 BY <1>1 DEF DispInv, CountsAgree, One
  <2>3. pool_inuse' = n + 0 BY <2>1, <2>2
  <2>4. pool_inuse' = CountIn(mpsc', Replies) + One(Busy' /\ msg'.kind = "reply")
    BY <1>1, <1>2, <2>3 DEF One
  <2>5. \A s \in Slots : One(Handling' /\ Dst(msg') = s) = One(Handling /\ Dst(msg) = s)
    BY <1>1 DEF One
  <2> QED BY <1>2, <2>4, <2>5 DEF DispInv, CountsAgree
<1>5. HandlerOnBoundImpl' /\ DispatcherAwake' /\ NoPanic'
  BY DEF HandlerOnBoundImpl, DispatcherAwake, NoPanic
<1>6. \A d : Outstanding(d)' <=> Outstanding(d) BY <1>1, <1>2 DEF Outstanding
<1>7. OneLeg' BY <1>1, <1>2, <1>6 DEF DispInv, OneLeg
<1>8. RanAgrees' BY <1>2 DEF DispInv, RanAgrees
<1>9. Owed' BY <1>2, <1>6 DEF DispInv, Owed
<1> QED BY <1>3, <1>4, <1>5, <1>7, <1>8, <1>9 DEF DispInv
=============================================================================
