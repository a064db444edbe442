------------------------------- MODULE Dispatch -------------------------------
(***************************************************************************)
(* Blocking slot calls: the caller's side (framework/slot_call.c), the     *)
(* dispatcher thread (framework/dispatcher.c), the reply leg through       *)
(* components/posix_shim, and the live replacement of a service component  *)
(* (framework/recompose.c over the pause protocol of framework/component.c)*)
(*                                                                         *)
(* A leg is a message in the dispatcher's queue: a request from a caller   *)
(* to a service slot, stored on the caller's kernel stack, or the reply to *)
(* the caller's own slot, stored in the reply pool.                        *)
(*                                                                         *)
(* One CPU.  A user task calls from a system call, with IRQs masked until  *)
(* it parks: the call is one action.  The dispatcher is a preemptible      *)
(* thread, and so are the callers in Kcallers: their steps interleave with *)
(* everything.  The task that recomposes gives the CPU away only in the    *)
(* drain loop (it is in a system call, and the timer is paused).           *)
(* The message queue is the FIFO that Mpsc implements; parking and waking  *)
(* are those of Sched.                                                     *)
(***************************************************************************)
EXTENDS Integers, Sequences, FiniteSets

CONSTANTS
    Callers,     \* tasks with a caller_slot
    Kcallers,    \* those among them that are kernel threads
    Killable,    \* user tasks that may be sent SIGKILL or SIGTERM
    Services,    \* service slots
    Policy,      \* pause policy of the edges to a service; "none": no edge
    Spares,      \* READY alternative components of a service
    Admins,      \* tasks that replace components (sys_config_swap)
    Aborts,      \* hook chains that may return NX_HOOK_ABORT
    Results,     \* what the handlers of services may return
    Deaf,        \* <<service, component>> pairs without a handle_msg
    PoolSize,    \* NX_REPLY_POOL_SIZE
    NoLeg,       \* NULL
    NoSlot       \* NULL

\* Return codes: "OK" is any that is not negative, "EINVAL" also stands for the
\* errors that are not told apart.
Rcs == {"OK", "EABORT", "EBUSY", "ENOENT", "EINVAL"}

\* The legs of blocking calls: struct nx_ipc_message, and the result the reply
\* carries or will carry.
Legs == [kind : {"req", "reply"}, caller : Callers, svc : Services, rc : Rcs]

ASSUME DispatchAssumption ==
    /\ Callers \cap Services = {}
    /\ Kcallers \subseteq Callers /\ Killable \subseteq Callers \ Kcallers
    /\ Policy \in [Services -> {"queue", "reject", "redirect", "none"}]
    /\ Spares \in [Services -> Nat]
    /\ Aborts \subseteq {"send", "req", "reply"}
    /\ Results \subseteq Rcs
    /\ PoolSize \in Nat
    /\ NoSlot \notin Services /\ NoLeg \notin Legs

Slots == Callers \cup Services

VARIABLES
    mpsc,           \* g_disp_mpsc, oldest leg first
    g_disp_pending,
    in_flight_calls,
    pause_state,
    active,         \* slot->active: the number of replacements so far
    pool_inuse,     \* entries claimed in g_reply_pool_inuse
    dpc,            \* where the dispatcher thread is
    msg,            \* the leg it is processing
    impl,           \* the component whose handler it runs
    cpc,            \* where a caller is
    svc,            \* the service it calls
    reply_buf,      \* in_flight_reply_buf is not NULL
    reply_rc,       \* in_flight_reply_rc, then the value the call returned
    ran,            \* what the handlers run for the current call returned
    apc,            \* where an admin is
    tgt,            \* the slot it recomposes
    old             \* the component it found there

callVars  == <<cpc, svc, reply_buf, reply_rc, ran>>
dispVars  == <<dpc, msg, impl>>
queueVars == <<mpsc, g_disp_pending, in_flight_calls>>
adminVars == <<apc, tgt, old, pause_state, active>>
vars == <<queueVars, dispVars, callVars, adminVars, pool_inuse>>

\* The slot a leg is addressed to.
Dst(l) == IF l.kind = "req" THEN l.svc ELSE l.caller

Leg(k, c, s, r) == [kind |-> k, caller |-> c, svc |-> s, rc |-> r]

Init ==
    /\ mpsc = <<>> /\ g_disp_pending = 0
    /\ in_flight_calls = [s \in Slots |-> 0]
    /\ pause_state = [s \in Services |-> "NONE"]
    /\ active = [s \in Services |-> 0]
    /\ pool_inuse = 0
    /\ dpc = "pump" /\ msg = NoLeg /\ impl = 0
    /\ cpc = [c \in Callers |-> "user"]
    /\ svc = [c \in Callers |-> NoSlot]
    /\ reply_buf = [c \in Callers |-> FALSE]
    /\ reply_rc = [c \in Callers |-> "none"]
    /\ ran = [c \in Callers |-> <<>>]
    /\ apc = [a \in Admins |-> "idle"]
    /\ tgt = [a \in Admins |-> NoSlot]
    /\ old = [a \in Admins |-> 0]
-----------------------------------------------------------------------------
(* nx_dispatcher_enqueue: count the leg, push it, wake the dispatcher.  The *)
(* caller states the dispatcher's next position in d.                       *)

EnqueueUncounted(l, d) ==
    /\ mpsc' = Append(mpsc, l)
    /\ g_disp_pending' = g_disp_pending + 1
    /\ dpc' = IF d = "asleep" THEN "pump" ELSE d
    /\ UNCHANGED in_flight_calls

Enqueue(l, d) ==
    /\ mpsc' = Append(mpsc, l)
    /\ g_disp_pending' = g_disp_pending + 1
    /\ in_flight_calls' = [in_flight_calls EXCEPT ![Dst(l)] = @ + 1]
    /\ dpc' = IF d = "asleep" THEN "pump" ELSE d
-----------------------------------------------------------------------------
(* nx_slot_call_blocking *)

\* A call that returns without having reached the dispatcher.
ReturnEarly(c, s, r) ==
    /\ svc' = [svc EXCEPT ![c] = NoSlot]
    /\ reply_buf' = [reply_buf EXCEPT ![c] = FALSE]
    /\ reply_rc' = [reply_rc EXCEPT ![c] = r]
    /\ ran' = [ran EXCEPT ![c] = <<>>]
    /\ cpc' = [cpc EXCEPT ![c] = "user"]
    /\ UNCHANGED <<queueVars, dispVars, adminVars, pool_inuse>>

\* The slot is paused and the edge's policy does not queue, or there is no edge.
CallRefused(c, s) ==
    /\ cpc[c] = "user"
    /\ pause_state[s] # "NONE"
    /\ Policy[s] # "queue"
    /\ ReturnEarly(c, s, IF Policy[s] = "reject" THEN "EBUSY" ELSE "ENOENT")

\* Where a task is after parking: a signal found by the reschedule of its own
\* wait ends its process there (sched_check_resched).
Parked(c, where) == IF c \in Killable THEN {where, "dead"} ELSE {where}

\* QUEUE policy: park on the slot's resume_waitq.
CallHeld(c, s) ==
    /\ cpc[c] = "user"
    /\ pause_state[s] # "NONE"
    /\ Policy[s] = "queue"
    /\ \E p \in Parked(c, "resume_wait") : cpc' = [cpc EXCEPT ![c] = p]
    /\ svc' = [svc EXCEPT ![c] = s]
    /\ UNCHANGED <<queueVars, dispVars, adminVars, pool_inuse, reply_buf, reply_rc, ran>>

\* The IPC_SEND chain aborts the call, or its capabilities name no edge.
CallAborted(c, s) ==
    /\ cpc[c] = "user"
    /\ pause_state[s] = "NONE"
    /\ \E r \in {"EINVAL"} \cup (IF "send" \in Aborts THEN {"EABORT"} ELSE {}) :
          ReturnEarly(c, s, r)

\* What the call stashes on the task before it enqueues.
Stash(c, s) ==
    /\ svc' = [svc EXCEPT ![c] = s]
    /\ reply_buf' = [reply_buf EXCEPT ![c] = TRUE]
    /\ reply_rc' = [reply_rc EXCEPT ![c] = "OK"]
    /\ ran' = [ran EXCEPT ![c] = <<>>]

CallUnpaused(c, s) ==
    /\ cpc[c] = "user" /\ c \notin Kcallers
    /\ Stash(c, s)
    /\ Enqueue(Leg("req", c, s, "OK"), dpc)
    /\ \E p \in Parked(c, "reply_wait") : cpc' = [cpc EXCEPT ![c] = p]
    /\ UNCHANGED <<msg, impl, adminVars, pool_inuse>>

\* The whole call of a user task, up to its wait on reply_waitq.
Call(c, s) ==
    /\ cpc[c] = "user" /\ c \notin Kcallers
    /\ pause_state[s] = "NONE"
    /\ Stash(c, s)
    /\ Enqueue(Leg("req", c, s, "OK"), dpc)
    /\ \E p \in Parked(c, "reply_wait") : cpc' = [cpc EXCEPT ![c] = p]
    /\ UNCHANGED <<msg, impl, adminVars, pool_inuse>>

\* A kernel thread makes the same call and may be preempted on the way: after
\* it has seen the slot unpaused, and between the enqueue and the wait.
KCheck(c, s) ==
    /\ cpc[c] = "user" /\ c \in Kcallers
    /\ pause_state[s] = "NONE"
    /\ Stash(c, s)
    /\ cpc' = [cpc EXCEPT ![c] = "checked"]
    /\ UNCHANGED <<queueVars, dispVars, adminVars, pool_inuse>>

KEnqueue(c) ==
    /\ cpc[c] = "checked"
    /\ Enqueue(Leg("req", c, svc[c], "OK"), dpc)
    /\ cpc' = [cpc EXCEPT ![c] = "enqueued"]
    /\ UNCHANGED <<msg, impl, svc, reply_buf, reply_rc, ran, adminVars, pool_inuse>>

KWait(c) ==
    /\ cpc[c] = "enqueued"
    /\ cpc' = [cpc EXCEPT ![c] = "reply_wait"]
    /\ UNCHANGED <<queueVars, dispVars, svc, reply_buf, reply_rc, ran, adminVars, pool_inuse>>

\* The task has been woken: clear the in-flight state, return the rc.
CallReturn(c) ==
    /\ cpc[c] = "woken"
    /\ cpc' = [cpc EXCEPT ![c] = "user"]
    /\ svc' = [svc EXCEPT ![c] = NoSlot]
    /\ reply_buf' = [reply_buf EXCEPT ![c] = FALSE]
    /\ UNCHANGED <<queueVars, dispVars, adminVars, pool_inuse, reply_rc, ran>>

\* A user task ends its own process between calls.
ExitCaller(c) ==
    /\ cpc[c] = "user" /\ c \in Killable
    /\ cpc' = [cpc EXCEPT ![c] = "dead"]
    /\ UNCHANGED <<queueVars, dispVars, adminVars, pool_inuse, svc, reply_buf, reply_rc, ran>>

-----------------------------------------------------------------------------
(* The dispatcher thread *)

\* nx_dispatcher_pump_once takes the oldest leg.
Pop ==
    /\ dpc = "pump" /\ mpsc # <<>>
    /\ msg' = Head(mpsc) /\ mpsc' = Tail(mpsc)
    /\ g_disp_pending' = g_disp_pending - 1
    /\ dpc' = "recv"
    /\ UNCHANGED <<in_flight_calls, impl, callVars, adminVars, pool_inuse>>

\* The queue is empty: pump_once returns 0.
PopNothing ==
    /\ dpc = "pump" /\ mpsc = <<>>
    /\ dpc' = "drained"
    /\ UNCHANGED <<queueVars, msg, impl, callVars, adminVars, pool_inuse>>

SleepRegardless ==
    /\ dpc = "drained"
    /\ dpc' = "asleep"
    /\ UNCHANGED <<queueVars, msg, impl, callVars, adminVars, pool_inuse>>

\* nx_waitq_wait_unless(&g_disp_wq, 0, disp_has_pending, NULL)
Sleep ==
    /\ dpc = "drained"
    /\ dpc' = IF g_disp_pending > 0 THEN "pump" ELSE "asleep"
    /\ UNCHANGED <<queueVars, msg, impl, callVars, adminVars, pool_inuse>>

RecvAbortFallsThrough ==
    /\ dpc = "recv" /\ msg.kind \in Aborts \cap {"req"}
    /\ mpsc' = Append(mpsc, Leg("reply", msg.caller, msg.svc, "EABORT"))
    /\ g_disp_pending' = g_disp_pending + 1
    /\ in_flight_calls' = [in_flight_calls EXCEPT ![msg.svc] = @ - 1, ![msg.caller] = @ + 1]
    /\ pool_inuse' = pool_inuse + 1
    /\ dpc' = "handle"
    /\ UNCHANGED <<msg, impl, callVars, adminVars>>

\* The IPC_RECV chain aborts the leg.  A request will be answered EABORT.
RecvAbort ==
    /\ dpc = "recv" /\ msg.kind \in Aborts
    /\ in_flight_calls' = [in_flight_calls EXCEPT ![Dst(msg)] = @ - 1]
    /\ msg' = [msg EXCEPT !.rc = "EABORT"]
    /\ dpc' = "post"
    /\ UNCHANGED <<mpsc, g_disp_pending, impl, callVars, adminVars, pool_inuse>>

\* The slot of the leg has no component that handles messages.
Unhandled(l) == l.kind = "req" /\ <<l.svc, active[l.svc]>> \in Deaf

\* invoke_handler reads dst->active and calls its handle_msg.
Invoke ==
    /\ dpc = "recv" /\ ~Unhandled(msg)
    /\ impl' = IF msg.kind = "req" THEN active[msg.svc] ELSE 0
    /\ dpc' = "handle"
    /\ UNCHANGED <<queueVars, msg, callVars, adminVars, pool_inuse>>

\* invoke_handler finds none to call.
InvokeNone ==
    /\ dpc = "recv" /\ Unhandled(msg)
    /\ msg' = [msg EXCEPT !.rc = "ENOENT"]
    /\ dpc' = "handled"
    /\ UNCHANGED <<queueVars, impl, callVars, adminVars, pool_inuse>>

\* The handler of a service returns a result, which the reply will carry.
HandleRequest ==
    /\ dpc = "handle" /\ msg.kind = "req"
    /\ \E r \in Results :
          /\ ran' = [ran EXCEPT ![msg.caller] = Append(@, r)]
          /\ msg' = [msg EXCEPT !.rc = r]
    /\ dpc' = "handled"
    /\ UNCHANGED <<queueVars, impl, cpc, svc, reply_buf, reply_rc, adminVars, pool_inuse>>

HandleReplyUnbuffered ==
    LET c == msg.caller IN
    /\ dpc = "handle" /\ msg.kind = "reply"
    /\ dpc' = "handled"
    /\ reply_rc' = [reply_rc EXCEPT ![c] = msg.rc]
    /\ UNCHANGED <<queueVars, msg, impl, cpc, svc, reply_buf, ran, adminVars, pool_inuse>>

\* posix_shim_handle_msg: store the rc, EINVAL if the payload does not fit the
\* caller's buffer, and wake the caller, if it is parked.
HandleReply ==
    LET c == msg.caller IN
    /\ dpc = "handle" /\ msg.kind = "reply"
    /\ dpc' = "handled"
    /\ IF reply_buf[c]
       THEN /\ \E r \in {msg.rc, "EINVAL"} : reply_rc' = [reply_rc EXCEPT ![c] = r]
            /\ cpc' = [cpc EXCEPT ![c] = IF @ = "reply_wait" THEN "woken" ELSE @]
       ELSE UNCHANGED <<reply_rc, cpc>>
    /\ UNCHANGED <<queueVars, msg, impl, svc, reply_buf, ran, adminVars, pool_inuse>>

\* invoke_handler has returned: the slot has one leg less in flight.
Retire ==
    /\ dpc = "handled"
    /\ in_flight_calls' = [in_flight_calls EXCEPT ![Dst(msg)] = @ - 1]
    /\ dpc' = "post"
    /\ UNCHANGED <<mpsc, g_disp_pending, msg, impl, callVars, adminVars, pool_inuse>>

\* build_reply claims a pool entry (the kernel stops if there is none) and the
\* reply is enqueued.
PostReply ==
    /\ dpc = "post" /\ msg.kind = "req"
    /\ msg' = NoLeg
    /\ IF pool_inuse < PoolSize
       THEN /\ pool_inuse' = pool_inuse + 1
            /\ Enqueue(Leg("reply", msg.caller, msg.svc, msg.rc), "pump")
       ELSE /\ dpc' = "panic"
            /\ UNCHANGED <<pool_inuse, queueVars>>
    /\ UNCHANGED <<impl, callVars, adminVars>>

ForgetEntry ==
    /\ dpc = "post" /\ msg.kind = "reply"
    /\ msg' = NoLeg
    /\ dpc' = "pump"
    /\ UNCHANGED <<queueVars, impl, callVars, adminVars, pool_inuse>>

\* A processed reply gives its pool entry back.
FreeEntry ==
    /\ dpc = "post" /\ msg.kind = "reply"
    /\ msg' = NoLeg
    /\ pool_inuse' = pool_inuse - 1
    /\ dpc' = "pump"
    /\ UNCHANGED <<queueVars, impl, callVars, adminVars>>

DispatcherStep ==
    \/ Pop \/ PopNothing \/ Sleep \/ RecvAbort \/ Invoke \/ InvokeNone \/ HandleRequest
    \/ HandleReply \/ Retire \/ PostReply \/ FreeEntry
-----------------------------------------------------------------------------
(* nx_config_swap_component: nx_recompose with one NX_SLOT_REPLACE *)

\* Validate the plan; nx_component_pause sets CUTTING, then DRAINING, and finds
\* its way to the drain loop.
Cutoff(a, s) ==
    /\ apc[a] = "idle"
    /\ active[s] < Spares[s]
    /\ apc' = [apc EXCEPT ![a] = "draining"]
    /\ tgt' = [tgt EXCEPT ![a] = s]
    /\ old' = [old EXCEPT ![a] = active[s]]
    /\ pause_state' = [pause_state EXCEPT ![s] = "DRAINING"]
    /\ UNCHANGED <<active, queueVars, dispVars, callVars, pool_inuse>>

DrainedByQueue(a) ==
    apc[a] = "draining" /\ \A i \in DOMAIN mpsc : Dst(mpsc[i]) # tgt[a]

\* The drain loop (slot_drain_cb) is left when nothing is in flight.
Drained(a) == apc[a] = "draining" /\ in_flight_calls[tgt[a]] = 0

\* Back from nx_recompose; a slot still bound to the component goes to p.
RecomposeReturns(a, p) ==
    /\ apc' = [apc EXCEPT ![a] = "idle"]
    /\ tgt' = [tgt EXCEPT ![a] = NoSlot]
    /\ pause_state' = [pause_state EXCEPT ![tgt[a]] = IF active[tgt[a]] = old[a] THEN p ELSE @]
    /\ UNCHANGED <<old, queueVars, dispVars, callVars, pool_inuse>>

\* pause_hook or ops->pause fails: rollback_pause.
PauseFails(a) ==
    /\ Drained(a)
    /\ RecomposeReturns(a, "NONE")
    /\ UNCHANGED active

\* DONE; disable the old component, bind the new one, destroy the old one,
\* enable the new one, slot_clear_pause.  If another admin has replaced the
\* component meanwhile, the transition to PAUSED is refused with ESTATE.
Replace(a) ==
    /\ Drained(a)
    /\ RecomposeReturns(a, "NONE")
    /\ active' = [active EXCEPT ![tgt[a]] = IF @ = old[a] THEN @ + 1 ELSE @]
-----------------------------------------------------------------------------
CallerStep(c) ==
    \/ \E s \in Services :
          CallRefused(c, s) \/ CallHeld(c, s) \/ CallAborted(c, s) \/ Call(c, s) \/ KCheck(c, s)
    \/ KEnqueue(c) \/ KWait(c) \/ CallReturn(c) \/ ExitCaller(c)

AdminStep(a) == (\E s \in Services : Cutoff(a, s)) \/ PauseFails(a) \/ Replace(a)

Next ==
    \/ \E c \in Callers : CallerStep(c)
    \/ DispatcherStep
    \/ \E a \in Admins : AdminStep(a)

SafetySpec == Init /\ [][Next]_vars

\* nx_recompose masks the timer from before its pauses to after its resumes.
TimerPaused == \E a \in Admins : apc[a] = "draining"

\* While the timer runs, the dispatcher gets the CPU again and again as long as
\* it has work: a parked caller is unblocked only by the dispatcher, and the tick
\* takes the CPU from a task that computes and ends the wfi of the idle task.
\* During a drain nothing does: the dispatcher runs if the tasks that get the CPU
\* by the yields of the drain loop give it back, which idle in its wfi does not.
DispatcherFairness == WF_vars(~TimerPaused /\ DispatcherStep)

\* Every task that is on the run queue keeps getting the CPU.  This is more than
\* the system promises (see also QueuedRuns in Sched): what fails even so does not
\* fail because somebody stopped.
Fairness ==
    /\ WF_vars(DispatcherStep)
    /\ \A c \in Callers : WF_vars(KEnqueue(c) \/ KWait(c) \/ CallReturn(c))
    /\ \A a \in Admins : WF_vars(PauseFails(a) \/ Replace(a))

Spec == SafetySpec /\ Fairness

\* The same system with no more than the dispatcher's fairness.
SpecDispatcher == SafetySpec /\ DispatcherFairness

-----------------------------------------------------------------------------
\* Legs in the dispatcher's queue that satisfy P.
Queued(P(_)) == Cardinality({i \in DOMAIN mpsc : P(mpsc[i])})

One(b) == IF b THEN 1 ELSE 0

\* in_flight_calls of a slot is the number of its legs between enqueue and the
\* end of their handler, whatever the hooks, deaths and replacements: the drain
\* of the pause protocol waits for exactly this (dispatcher.c, component.c).
InFlightExact ==
    \A s \in Slots :
        in_flight_calls[s] = Queued(LAMBDA l : Dst(l) = s)
                             + One(dpc \in {"recv", "handle", "handled"} /\ Dst(msg) = s)

\* Every claimed entry of the reply pool holds a reply that is queued or being
\* processed, and a pool with an entry per task is never exhausted, even while
\* replies to dead tasks are on their way (reply_pool_alloc, reply_pool_free).
PoolSuffices ==
    /\ dpc # "panic"
    /\ pool_inuse = Queued(LAMBDA l : l.kind = "reply") + One(msg # NoLeg /\ msg.kind = "reply")

\* While a leg is queued the dispatcher is not asleep, although its test for an
\* empty queue and its wait are separate steps (the wait's predicate).
DispatcherAwake == mpsc # <<>> => dpc # "asleep"

\* A user task parked on its reply_waitq has exactly one leg on its way: it will
\* be woken, and by the reply to this call (slot_call.c, posix_shim).
ParkedIsOwedReply ==
    \A c \in Callers \ Kcallers : cpc[c] = "reply_wait" =>
        Queued(LAMBDA l : l.caller = c)
        + One(dpc \in {"recv", "handle", "handled", "post"} /\ msg.caller = c
              /\ ~(msg.kind = "reply" /\ dpc \in {"handled", "post"})) = 1

\* A call runs a handler at most once.  It returns OK only if its handler ran and
\* said so, and if its handler ran it returns what that said, or EINVAL when the
\* reply did not fit (slot_call.h, "Returns the handler's int rc").
AtMostOnce ==
    \A c \in Callers :
        /\ Len(ran[c]) <= 1
        /\ cpc[c] = "user" /\ reply_rc[c] = "OK" => ran[c] = <<"OK">>
        /\ cpc[c] = "user" /\ ran[c] # <<>> => reply_rc[c] \in {ran[c][1], "EINVAL"}

\* A handler runs on the component that is bound to its slot: it is not
\* replaced, and so not destroyed, under the handler (drain before swap).
HandlerOnBoundImpl ==
    dpc = "handle" /\ msg.kind = "req" => impl = active[msg.svc]

\* A component is replaced only when no request for its slot is queued, about
\* to be handled or being handled: registry.h, "guaranteeing no handler is
\* running on the slot when a swap proceeds".
ReplacedQuiet ==
    [][\A s \in Services : active'[s] # active[s] =>
          /\ \A i \in DOMAIN mpsc : Dst(mpsc[i]) # s
          /\ ~(dpc \in {"recv", "handle", "handled"} /\ Dst(msg) = s)]_vars

\* Once drains are over for good, a user task parked for a reply is woken, also
\* one whose call was queued before or during a drain, whatever the other callers
\* do and whether or not they go on (dispatcher.c, posix_shim.c).
CallAnswered ==
    <>[]~TimerPaused =>
        \A c \in Callers \ Kcallers : cpc[c] = "reply_wait" ~> cpc[c] # "reply_wait"

\* If the dispatcher gets the CPU during drains as well, what a drain loop waits
\* for comes about: callers cannot keep a paused slot busy, even if they keep
\* calling and the loop is never scheduled in between (component.c, "yield until
\* the dispatcher kthread has processed every message").  That it gets the CPU is
\* a hypothesis here: ktest_live_swap.c speaks of "the deadlock that would occur
\* inside nx_recompose when timer_pause() + drain + idle-wfi interact".
DrainSettles ==
    WF_vars(DispatcherStep) =>
        \A a \in Admins : apc[a] = "draining" ~> apc[a] = "idle" \/ Drained(a)

\* A caller held by a pause is released when the slot is resumed: slot_call.c,
\* "the slot's resume path's nx_waitq_wake_all will release us".
HeldCallerReleased ==
    \A c \in Callers : cpc[c] = "resume_wait" ~> cpc[c] # "resume_wait"
=============================================================================
