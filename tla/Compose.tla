------------------------------ MODULE Compose ------------------------------
(***************************************************************************)
(* The framework as its clients drive it: the boot, then calls in any      *)
(* order that send and handle messages, pause, resume, replace and rewire, *)
(* hook in, observe, and create and destroy tasks.  In the host build a    *)
(* call runs to its end on the caller's thread, so a call is one step; any *)
(* operation of a component, any allocation and any hook may fail in it.   *)
(***************************************************************************)
EXTENDS Recompose

CONSTANTS
    Sections,    \* orders of the descriptor section
    Tasks,       \* tasks that come and go, by their caller_slot
    Fails,       \* operations of components that may fail
    Memories,    \* allocations that a task creation may have left
    Scarce,      \* allocations that another call may have left
    Swaps,       \* replacements asked for, as <<slot, component>>
    Rewires,     \* edges whose mode is switched, as <<from, to>>
    Plans,       \* other plans
    Pauses,      \* components paused and resumed by hand
    HandHooks,   \* hooks registered and unregistered outside of callbacks
    Fallbacks,   \* fallbacks set, as <<slot, slot>>
    MaxConns,    \* bound on the connections before a plan
    Clients      \* the kinds of call that are made after boot, a set of sets

NoFail == <<NoComp, "none">>

Plenty == 100

VARIABLES
    k,           \* the globals of the framework
    booted,
    client,      \* the kinds of call of this behaviour
    tasks,       \* the live tasks
    sent         \* the messages that nx_ipc_send took, in order

vars == <<k, booted, client, tasks, sent>>

Init ==
    /\ k = [slots |-> <<>>, active |-> [s \in SlotIds |-> NoComp],
            pause |-> [s \in SlotIds |-> "NONE"], fallback |-> [s \in SlotIds |-> NoSlot],
            comps |-> <<>>, state |-> [c \in CompIds |-> "UNINIT"], conns |-> <<>>,
            subs |-> [i \in 1..MaxSubs |-> NoView], mem |-> Plenty, rc |-> "OK",
            chain |-> [p \in Points |-> <<>>], dead |-> {}, action |-> "CONTINUE",
            inbox |-> [s \in SlotIds |-> <<>>], hold |-> <<>>,
            dst |-> [m \in DOMAIN MsgDef |-> MsgDef[m].dst], claimed |-> {},
            queues |-> {}, done |-> <<>>, lost |-> {}, left |-> {}, fail |-> NoFail]
    /\ booted = FALSE /\ client \in Clients /\ tasks = {} /\ sent = <<>>

\* The world after a call: what was chosen for the call alone is put back.
After(r) == [r EXCEPT !.fail = NoFail, !.mem = Plenty, !.rc = "OK", !.action = "CONTINUE"]

Failing1(f, mem) == [k EXCEPT !.fail = f, !.mem = mem]

\* The operation that fails in a call, among those that the call may run.
May(ops) == {NoFail} \cup {f \in Fails : f[2] \in ops}

Calls(kind) == booted /\ kind \in client

\* The allocations a call may have left, where memory runs short.
Left == IF "memory" \in client THEN Scarce ELSE {Plenty}

Boot(section, f) ==
    /\ ~booted /\ booted' = TRUE
    /\ k' = After(nx_framework_bootstrap(Failing1(f, Plenty), section))
    /\ UNCHANGED <<client, tasks, sent>>

Send(m, mem) ==
    /\ Calls("send") /\ ~Contains(sent, m) /\ slot_node_for(k, MsgDef[m].src)
    /\ \E r \in {nx_ipc_send(Failing1(NoFail, mem), m)} :
          /\ k' = After(r)
          /\ sent' = IF r.rc = "OK" \/ Len(r.done) > Len(k.done) THEN Append(sent, m) ELSE sent
    /\ UNCHANGED <<booted, client, tasks>>

Pump(s) ==
    /\ k.inbox[s] # <<>>
    /\ k' = After(nx_ipc_dispatch(k, s, 1))
    /\ UNCHANGED <<booted, client, tasks, sent>>

Pause(c, f, mem) ==
    /\ Calls("pause")
    /\ k' = After(nx_component_pause(Failing1(f, mem), c))
    /\ UNCHANGED <<booted, client, tasks, sent>>

Resume(c, f, mem) ==
    /\ Calls("pause")
    /\ k' = After(nx_component_resume(Failing1(f, mem), c))
    /\ UNCHANGED <<booted, client, tasks, sent>>

Swap(s, c, f, mem) ==
    /\ Calls("swap")
    /\ k' = After(nx_config_swap_component(Failing1(f, mem), s, c))
    /\ UNCHANGED <<booted, client, tasks, sent>>

Rewire(e, mode, mem) ==
    /\ Calls("rewire")
    /\ k' = After(nx_config_set_conn_mode(Failing1(NoFail, mem), e[1], e[2], mode))
    /\ UNCHANGED <<booted, client, tasks, sent>>

Plan(plan, mem) ==
    /\ Calls("plan") /\ Len(k.conns) < MaxConns
    /\ k' = After(nx_recompose(Failing1(NoFail, mem), plan))
    /\ UNCHANGED <<booted, client, tasks, sent>>

Forget(c) ==
    /\ Calls("swap") /\ k.state[c] = "DESTROYED"
    /\ k' = After(nx_component_unregister(k, c))
    /\ UNCHANGED <<booted, client, tasks, sent>>

SetFallback(s, f) ==
    /\ Calls("fallback")
    /\ k' = After(nx_slot_set_fallback(k, s, f))
    /\ UNCHANGED <<booted, client, tasks, sent>>

\* A component gives back the slot that message m passed to it.
Release(m) ==
    /\ m \in k.claimed
    /\ k' = [nx_slot_ref_release(k, k.dst[m], MsgDef[m].cap) EXCEPT !.claimed = @ \ {m}]
    /\ UNCHANGED <<booted, client, tasks, sent>>

HookOn(h) ==
    /\ Calls("hook") /\ ~InChain(k, h)
    /\ k' = nx_hook_register(k, h)
    /\ UNCHANGED <<booted, client, tasks, sent>>

HookOff(h) ==
    /\ Calls("hook") /\ InChain(k, h)
    /\ k' = nx_hook_unregister(k, h, 0)
    /\ UNCHANGED <<booted, client, tasks, sent>>

Subscribe ==
    /\ "observe" \in client
    /\ k' = After(nx_graph_subscribe(k))
    /\ UNCHANGED <<booted, client, tasks, sent>>

Unsubscribe(i) ==
    /\ k.subs[i] # NoView
    /\ k' = nx_graph_unsubscribe(k, i)
    /\ UNCHANGED <<booted, client, tasks, sent>>

TaskCreate(t, mem) ==
    /\ Calls("task") /\ t \notin tasks
    /\ \E r \in {wire_caller_slot([k EXCEPT !.mem = mem], t)} :
          /\ k' = After(r)
          /\ tasks' = IF r.rc = "OK" THEN tasks \cup {t} ELSE tasks
    /\ UNCHANGED <<booted, client, sent>>

TaskDestroy(t) ==
    /\ t \in tasks /\ tasks' = tasks \ {t}
    /\ k' = IF slot_node_for(k, t) THEN After(unwire_caller_slot(k, t)) ELSE k
    /\ UNCHANGED <<booted, client, sent>>

Next ==
    \/ \E section \in Sections, f \in May({"init", "enable"}) : Boot(section, f)
    \/ \E m \in DOMAIN MsgDef : Release(m) \/ \E mem \in Left : Send(m, mem)
    \/ \E s \in SlotIds : Pump(s)
    \/ \E c \in Pauses, mem \in Left : \/ \E f \in May({"pause_hook", "pause"}) : Pause(c, f, mem)
                                       \/ \E f \in May({"resume"}) : Resume(c, f, mem)
    \/ \E x \in Swaps, f \in May({"pause", "disable", "enable"}), mem \in Left : Swap(x[1], x[2], f, mem)
    \/ \E e \in Rewires, mode \in {"SYNC", "ASYNC"}, mem \in Left : Rewire(e, mode, mem)
    \/ \E plan \in Plans, mem \in Left : Plan(plan, mem)
    \/ \E c \in CompIds : Forget(c)
    \/ \E x \in Fallbacks : SetFallback(x[1], x[2])
    \/ \E h \in HandHooks : HookOn(h) \/ HookOff(h)
    \/ Subscribe
    \/ \E i \in 1..MaxSubs : Unsubscribe(i)
    \/ \E t \in Tasks : TaskDestroy(t) \/ \E mem \in Memories : TaskCreate(t, mem)

Spec == Init /\ [][Next]_vars

(***************************************************************************)
(* Properties.                                                             *)
(***************************************************************************)
Handled(m) == m \in {k.done[i].m : i \in 1..Len(k.done)}

Held(m) == \E i \in 1..Len(k.hold) : Contains(k.hold[i].q, m)

Queued(m) == \E s \in SlotIds : Contains(k.inbox[s], m)

Lost(m) == m \in {x[1] : x \in k.lost}

\* An observer that applied the events to the snapshot it began with has the
\* graph of the registry: every change of slots, components and connections is
\* announced, through boots that fail, rollbacks and replacements.
ObserverExact ==
    \A i \in 1..MaxSubs : k.subs[i] # NoView => k.subs[i] = nx_graph_snapshot_take(k)

\* nx_slot_unregister refuses a slot with edges: both ends of every connection
\* are registered slots, registered slots are bound to registered components
\* that were not destroyed, and the slot of a task is registered as long as
\* the task lives, also when its creation failed half way.
GraphClosed ==
    /\ \A i \in 1..Len(k.conns) :
          {k.conns[i].from, k.conns[i].to} \subseteq Range(k.slots) \cup {NoSlot}
    /\ \A s \in Range(k.slots) :
          k.active[s] # NoComp => component_node_for(k, k.active[s]) /\ k.state[k.active[s]] # "DESTROYED"
    /\ Range(k.slots) \cap Tasks \subseteq tasks

\* A message that the router took is in exactly one place: an inbox, a hold
\* queue, handled, or given up; a hold queue keeps messages only while its
\* slot is paused, so none is left behind by a resume, a rollback or a
\* replacement.  One is given up only when a hook dropped it, or in the flush
\* of a hold queue, which ignores what nx_ipc_send returns: when its connection
\* or that of its capability was removed while it was held, or when it is the
\* first for its slot and there is no memory for the inbox.  A pause policy
\* (EBUSY, ELOOP) or a failing handler gives none up.
MessagesAccounted ==
    /\ \A i \in 1..Len(sent) :
          Cardinality({x \in {"handled", "held", "queued", "lost"} :
              CASE x = "handled" -> Handled(sent[i])
                [] x = "held"    -> Held(sent[i])
                [] x = "queued"  -> Queued(sent[i])
                [] x = "lost"    -> Lost(sent[i])}) = 1
    /\ \A i \in 1..Len(k.hold) : k.pause[k.hold[i].dst] # "NONE"
    /\ \A x \in k.lost : x[2] \in {"EABORT", "ENOENT", "EINVAL", "ENOMEM"}

\* Messages of one sender are handled at one slot in the order in which they
\* were sent, across pauses, hold queues, replacements and changes of mode:
\* a receiver is drained before its edge becomes synchronous.  Only a message
\* that is left in the inbox because the handler of one before it failed, which
\* ends the drain (ipc.c:378), can be overtaken, and only by one that was not.
SendOrder ==
    \A i, j \in 1..Len(k.done) :
        /\ i < j
        /\ MsgDef[k.done[i].m].src = MsgDef[k.done[j].m].src /\ k.done[i].at = k.done[j].at
        /\ Contains(sent, k.done[i].m) /\ Contains(sent, k.done[j].m)
        => \/ SelectInSeq(sent, LAMBDA m : m = k.done[i].m) < SelectInSeq(sent, LAMBDA m : m = k.done[j].m)
           \/ k.done[j].m \in k.left /\ k.done[i].m \notin k.left

\* The slots of a component that is ACTIVE are open: a pause that fails puts
\* them back, and a resume or a replacement opens them.
ActiveIsOpen ==
    \A s \in Range(k.slots) : StateAt(k, s) = "ACTIVE" => k.pause[s] = "NONE"

\* A component that is up has, in every slot it requires, a component that was
\* initialised: boot goes in the order of the dependencies whatever the order
\* of the section, also when it fails, and no replacement leaves a hole.
DependenciesUp ==
    \A s \in Range(BootSlots) :
        StateAt(k, s) \in {"READY", "ACTIVE", "PAUSED"} =>
            \A i \in 1..Len(Deps[k.active[s]]) :
                LET d == Deps[k.active[s]][i]
                IN  d.required => StateAt(k, d.slot) \in {"READY", "ACTIVE", "PAUSED"}

\* Outside of a dispatch no hook is marked dead, chains are in order of
\* priority, and no hook is in its chain twice.
HookChains ==
    /\ k.dead = {}
    /\ \A p \in Points :
          /\ IsInjective(k.chain[p])
          /\ \A i, j \in 1..Len(k.chain[p]) :
                i < j => HookDef[k.chain[p][i]].priority <= HookDef[k.chain[p][j]].priority
=============================================================================
