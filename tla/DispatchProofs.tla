---------------------------- MODULE DispatchProofs ----------------------------
(***************************************************************************)
(* The safety properties of Dispatch, for every set of callers, services   *)
(* and admins, any mix of kernel threads, killable tasks, pause policies   *)
(* and aborting hooks.                                                     *)
(***************************************************************************)
EXTENDS DispatchEnqueueProofs, DispatchStepProofs

\* Every step of the callers, the dispatcher and the admins keeps the invariant.
LEMMA NextInv == DispInv /\ [Next]_vars => DispInv'
<1> SUFFICES ASSUME DispInv, [Next]_vars PROVE DispInv' OBVIOUS
<1>1. ASSUME NEW c \in Callers, CallerStep(c) PROVE DispInv'
  <2>1. ASSUME NEW s \in Services, CallRefused(c, s) PROVE DispInv'
    BY <2>1, ReturnEarlyInv DEF CallRefused
  <2>2. ASSUME NEW s \in Services, CallHeld(c, s) PROVE DispInv' BY <2>2, CallHeldInv
  <2>3. ASSUME NEW s \in Services, CallAborted(c, s) PROVE DispInv'
    <3>1. PICK r \in {"EINVAL"} \cup (IF "send" \in Aborts THEN {"EABORT"} ELSE {}) :
              ReturnEarly(c, s, r)
      BY <2>3 DEF CallAborted
    <3>2. r \in {"EBUSY", "ENOENT", "EINVAL", "EABORT"} BY <3>1
    <3>3. cpc[c] = "user" BY <2>3 DEF CallAborted
    <3> QED BY <3>1, <3>2, <3>3, ReturnEarlyInv
  <2>4. ASSUME NEW s \in Services, Call(c, s) PROVE DispInv' BY <2>4, CallInv
  <2>5. ASSUME NEW s \in Services, KCheck(c, s) PROVE DispInv' BY <2>5, KCheckInv
  <2>6. CASE KEnqueue(c) BY <2>6, KEnqueueInv
  <2>7. CASE KWait(c) BY <2>7, KWaitInv
  <2>8. CASE CallReturn(c) BY <2>8, CallReturnInv
  <2>9. CASE ExitCaller(c) BY <2>9, ExitCallerInv
  <2> QED BY <1>1, <2>1, <2>2, <2>3, <2>4, <2>5, <2>6, <2>7, <2>8, <2>9 DEF CallerStep
<1>2. CASE DispatcherStep
  BY <1>2, PopInv, PopNothingInv, SleepInv, RecvAbortInv, InvokeInv, InvokeNoneInv,
     HandleRequestInv, HandleReplyInv, RetireInv, PostReplyInv, FreeEntryInv DEF DispatcherStep
<1>3. ASSUME NEW a \in Admins, AdminStep(a) PROVE DispInv'
  BY <1>3, CutoffInv, PauseFailsInv, ReplaceInv DEF AdminStep
<1>4. CASE UNCHANGED vars
  <2>1. UNCHANGED <<queueVars, msg, callVars, adminVars, pool_inuse>> /\ dpc' = dpc /\ impl' = impl
    BY <1>4 DEF vars, dispVars
  <2>2. mpsc' = mpsc /\ in_flight_calls' = in_flight_calls /\ g_disp_pending' = g_disp_pending
        /\ cpc' = cpc /\ svc' = svc /\ ran' = ran /\ reply_rc' = reply_rc /\ reply_buf' = reply_buf
        /\ apc' = apc /\ tgt' = tgt /\ active' = active /\ msg' = msg /\ pool_inuse' = pool_inuse
    BY <2>1 DEF queueVars, callVars, adminVars
  <2>3. DTypeOK' BY <2>1, <2>2 DEF DispInv, DTypeOK, Busy
  <2>4. CountsAgree' BY <2>1, <2>2 DEF DispInv, CountsAgree, Busy, Handling
  <2>5. HandlerOnBoundImpl' /\ DispatcherAwake' /\ NoPanic'
    BY <2>1, <2>2 DEF DispInv, HandlerOnBoundImpl, DispatcherAwake, NoPanic, PoolPerCaller
  <2>6. \A d : Outstanding(d)' <=> Outstanding(d) BY <2>1, <2>2 DEF Outstanding, InHand, Busy
  <2>7. OneLeg' BY <2>1, <2>2, <2>6 DEF DispInv, OneLeg, InHand, Busy
  <2>8. RanAgrees' BY <2>1, <2>2 DEF DispInv, RanAgrees
  <2>9. Owed' BY <2>2, <2>6 DEF DispInv, Owed, PoolPerCaller
  <2> QED BY <2>3, <2>4, <2>5, <2>7, <2>8, <2>9 DEF DispInv
<1> QED BY <1>1, <1>2, <1>3, <1>4 DEF Next

\* DispInv holds in every reachable state: the counts of dispatcher.c count
\* what they stand for, and a caller never has two legs on their way.
THEOREM DispatchInvariant == SafetySpec => []DispInv
BY InitInv, NextInv, PTL DEF SafetySpec

\* in_flight_calls counts exactly the legs of a slot between their enqueue and
\* the end of their handler.
THEOREM InFlightCounts == SafetySpec => []InFlightExact
<1>1. DispInv => InFlightExact
  <2> SUFFICES ASSUME DispInv, NEW s \in Slots
               PROVE  in_flight_calls[s] = Cardinality({i \in DOMAIN mpsc : Dst(mpsc[i]) = s})
                        + One(dpc \in {"recv", "handle", "handled"} /\ Dst(msg) = s)
    BY DEF InFlightExact, Queued
  <2>1. {i \in DOMAIN mpsc : mpsc[i] \in ToSlot(s)} = {i \in DOMAIN mpsc : Dst(mpsc[i]) = s}
    BY DEF DispInv, DTypeOK, ToSlot
  <2> QED BY <2>1 DEF DispInv, CountsAgree, CountIn, Handling
<1> QED BY <1>1, DispatchInvariant, PTL

\* With an entry per caller reply_pool_alloc never fails, and every entry claimed
\* belongs to a reply that is queued or in the dispatcher's hands.
THEOREM PoolNeverExhausted == ASSUME PoolPerCaller PROVE SafetySpec => []PoolSuffices
<1>1. DispInv => PoolSuffices
  <2> SUFFICES ASSUME DispInv PROVE PoolSuffices OBVIOUS
  <2>1. {i \in DOMAIN mpsc : mpsc[i] \in Replies} = {i \in DOMAIN mpsc : mpsc[i].kind = "reply"}
    BY DEF DispInv, DTypeOK, Replies
  <2>2. Queued(LAMBDA l : l.kind = "reply") = CountIn(mpsc, Replies)
    BY <2>1 DEF Queued, CountIn
  <2>3. Busy <=> msg # NoLeg BY DispatchAssumption DEF DispInv, DTypeOK
  <2>4. dpc # "panic" BY DEF DispInv, NoPanic
  <2> QED BY <2>2, <2>3, <2>4 DEF DispInv, CountsAgree, PoolSuffices, One
<1> QED BY <1>1, DispatchInvariant, PTL

\* The dispatcher never sleeps on a queue with a leg in it: its wait tests
\* g_disp_pending, which is the length of the queue.
THEOREM NeverAsleepOnWork == SafetySpec => []DispatcherAwake
<1>1. DispInv => DispatcherAwake BY DEF DispInv
<1> QED BY <1>1, DispatchInvariant, PTL

\* A call runs a handler at most once, returns OK only if that returned OK, and
\* otherwise returns what the handler did unless the reply did not fit.
THEOREM CallsAtMostOnce == SafetySpec => []AtMostOnce
<1>1. DispInv => AtMostOnce BY DEF DispInv, RanAgrees, AtMostOnce, Ended
<1> QED BY <1>1, DispatchInvariant, PTL

\* A handler runs on the component that is bound to its slot.
THEOREM HandlerKeepsImpl == SafetySpec => []HandlerOnBoundImpl
<1>1. DispInv => HandlerOnBoundImpl BY DEF DispInv
<1> QED BY <1>1, DispatchInvariant, PTL

\* Unless a hook aborts replies or the pool is too small, a user task parked on
\* its reply_waitq has exactly one leg on its way.
THEOREM ParkedTaskIsOwed ==
    ASSUME PoolPerCaller, "reply" \notin Aborts
    PROVE  SafetySpec => []ParkedIsOwedReply
<1>1. DispInv => ParkedIsOwedReply
  <2> SUFFICES ASSUME DispInv, NEW c \in Callers \ Kcallers, cpc[c] = "reply_wait"
               PROVE  Cardinality({i \in DOMAIN mpsc : mpsc[i].caller = c})
                        + One(dpc \in {"recv", "handle", "handled", "post"} /\ msg.caller = c
                              /\ ~(msg.kind = "reply" /\ dpc \in {"handled", "post"})) = 1
    BY DEF ParkedIsOwedReply, Queued
  <2> DEFINE T == {i \in DOMAIN mpsc : mpsc[i].caller = c}
             h == One(dpc \in {"recv", "handle", "handled", "post"} /\ msg.caller = c
                      /\ ~(msg.kind = "reply" /\ dpc \in {"handled", "post"}))
  <2>1. h = IF InHand /\ msg.caller = c THEN 1 ELSE 0 BY DEF InHand, Busy, One
  <2>2. Outstanding(c) BY DEF DispInv, Owed
  <2>3. CASE InHand /\ msg.caller = c
    <3>1. T = {} BY <2>3 DEF DispInv, OneLeg
    <3>2. Cardinality(T) = 0 BY <3>1, FS_EmptySet
    <3> QED BY <2>1, <2>3, <3>2
  <2>4. CASE ~(InHand /\ msg.caller = c)
    <3>1. PICK i \in DOMAIN mpsc : mpsc[i].caller = c BY <2>2, <2>4 DEF Outstanding
    <3>2. T = {i} BY <3>1 DEF DispInv, OneLeg
    <3>3. Cardinality(T) = 1 BY <3>2, FS_Singleton
    <3> QED BY <2>1, <2>4, <3>3
  <2> QED BY <2>3, <2>4
<1> QED BY <1>1, DispatchInvariant, PTL

\* A component is replaced only when no leg for its slot is queued, about to be
\* handled or being handled: the drain waits for an exact count.
THEOREM ReplacesQuietSlots == SafetySpec => ReplacedQuiet
<1> DEFINE Quiet == \A s \in Services : active'[s] # active[s] =>
                      /\ \A i \in DOMAIN mpsc : Dst(mpsc[i]) # s
                      /\ ~(dpc \in {"recv", "handle", "handled"} /\ Dst(msg) = s)
<1>1. DispInv /\ [Next]_vars => [Quiet]_vars
  <2> SUFFICES ASSUME DispInv, Next PROVE Quiet OBVIOUS
  <2>1. ASSUME NEW a \in Admins, Replace(a) PROVE Quiet
    <3>1. Drained(a) /\ active' = [active EXCEPT ![tgt[a]] = IF @ = old[a] THEN @ + 1 ELSE @]
      BY <2>1 DEF Replace
    <3>2. \A s \in Services : active'[s] # active[s] => s = tgt[a]
      BY <3>1 DEF DispInv, DTypeOK
    <3> QED BY <3>1, <3>2, DrainedQuiet DEF Handling
  <2>2. ASSUME NEW c \in Callers, CallerStep(c) PROVE active' = active
    <3>1. UNCHANGED adminVars
      BY <2>2 DEF CallerStep, CallRefused, CallHeld, CallAborted, ReturnEarly, Call, KCheck,
                  KEnqueue, KWait, CallReturn, ExitCaller
    <3> QED BY <3>1 DEF adminVars
  <2>3. ASSUME DispatcherStep PROVE active' = active
    <3>1. UNCHANGED adminVars
      BY <2>3 DEF DispatcherStep, Pop, PopNothing, Sleep, RecvAbort, Invoke, InvokeNone,
                  HandleRequest, HandleReply, Retire, PostReply, FreeEntry
    <3> QED BY <3>1 DEF adminVars
  <2>4. ASSUME NEW a \in Admins, AdminStep(a), ~Replace(a) PROVE active' = active
    BY <2>4 DEF AdminStep, Cutoff, PauseFails
  <2> QED BY <2>1, <2>2, <2>3, <2>4 DEF Next
<1> QED BY <1>1, DispatchInvariant, PTL DEF SafetySpec, ReplacedQuiet
=============================================================================
