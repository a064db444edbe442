----------------------------- MODULE Recompose -----------------------------
(***************************************************************************)
(* Changing the composition: framework/recompose.c, framework/config.c on  *)
(* top of it, the boot of framework/bootstrap.c, and the slot by which a   *)
(* task takes part in the graph (core/sched/task.c).                       *)
(*                                                                         *)
(* A plan is [changes, conns]: the slots to rebind, as <<slot, component>>,*)
(* and connections [action, from, to, mode].  The on_dep_swapped callbacks *)
(* at the end of nx_recompose change a component's own state, not the      *)
(* graph's: those of posix_shim are in Posix.                              *)
(***************************************************************************)
EXTENDS Lifecycle

CONSTANTS
    BootSlots,   \* nx_boot_slots, a sequence of slots
    Impl,        \* [slot -> component], impl_name
    Deps,        \* [component -> sequence of [slot, required, mode, policy]]
    Frozen,      \* slots with NX_MUT_FROZEN
    PosixShim    \* the slot "posix_shim"

(***************************************************************************)
(* nx_recompose.                                                           *)
(***************************************************************************)
\* The slots of the plan, then the receivers of the edges to be retuned.
PlanSlots(plan) ==
    FoldLeft(LAMBDA a, c : IF c.action # "REWIRE" \/ Contains(a, c.to) THEN a ELSE Append(a, c.to),
             [i \in 1..Len(plan.changes) |-> plan.changes[i][1]], plan.conns)

\* A slot of the set may be paused once those that depend on it are.
scan_dep_cb(k, set, order, s) ==
    \A i \in 1..Len(k.conns) :
        k.conns[i].to = s /\ Contains(set, k.conns[i].from) => Contains(order, k.conns[i].from)

\* Dependents first.  Shorter than the set when the edges have a cycle.
build_pause_order(k, set) ==
    LET Pass(o, n) == FoldLeft(LAMBDA a, s : IF ~Contains(a, s) /\ scan_dep_cb(k, set, a, s)
                                             THEN Append(a, s) ELSE a,
                               o, set)
    IN  FoldLeft(Pass, <<>>, [i \in 1..Len(set) |-> i])

validate(k, plan, order) ==
    IF \E i \in 1..Len(plan.changes) : plan.changes[i][1] \in Frozen THEN "EPERM"
    ELSE IF \E i \in 1..Len(plan.changes) : k.state[plan.changes[i][2]] # "READY" THEN "ESTATE"
    ELSE IF Len(order) < Len(PlanSlots(plan)) THEN "EINVAL"
    ELSE "OK"

StateAt(k, s) == IF k.active[s] = NoComp THEN "none" ELSE k.state[k.active[s]]

ResumeIfPaused(k, s) ==
    IF StateAt(k, s) = "PAUSED" THEN nx_component_resume(k, k.active[s]) ELSE k

RECURSIVE PauseFrom(_, _, _)

\* A pause that fails takes back those before it.
PausedOne(r, order, i) ==
    IF r.rc = "OK" THEN PauseFrom(r, order, i + 1)
    ELSE Ret(FoldLeft(ResumeIfPaused, r, Reverse(SubSeq(order, 1, i - 1))), r.rc)

PauseFrom(k, order, i) ==
    IF i > Len(order) THEN Ret(k, "OK")
    ELSE IF StateAt(k, order[i]) # "ACTIVE" THEN PauseFrom(k, order, i + 1)
    ELSE PausedOne(nx_component_pause(k, k.active[order[i]]), order, i)

DestroyOld(k, old) == IF old = NoComp THEN k ELSE nx_component_destroy(k, old)

\* Disable the old component, bind the new one, destroy the old one unless it
\* is still bound to another slot.
Replace(k, change) ==
    LET old == k.active[change[1]]
    IN  DestroyOld(nx_slot_swap(IF StateAt(k, change[1]) \in {"PAUSED", "ACTIVE"}
                                THEN nx_component_disable(k, old) ELSE k,
                                change[1], change[2]),
                   old)

ConnRemove(k, c) ==
    LET i == find_edge(k, c.from, c.to)
    IN  IF c.action # "REMOVE" \/ i = 0 THEN k ELSE nx_connection_unregister(k, i)

ConnAddOrRetune(k, c) ==
    LET i == find_edge(k, c.from, c.to)
    IN  CASE c.action = "ADD" -> nx_connection_register(k, c.from, c.to, c.mode, "QUEUE")
          [] c.action = "REWIRE" /\ i # 0 -> nx_connection_retune(k, i, c.mode)
          [] OTHER -> k

slot_clear_pause(k, s) == nx_ipc_flush_hold_queue(nx_slot_set_pause_state(k, s, "NONE"), s)

ResumeSlot(k, s) ==
    CASE StateAt(k, s) = "READY"  -> slot_clear_pause(nx_component_enable(k, k.active[s]), s)
      [] StateAt(k, s) = "PAUSED" -> nx_component_resume(k, k.active[s])
      [] OTHER -> k

Rebind(k, plan) ==
    FoldLeft(ConnAddOrRetune,
             FoldLeft(Replace, FoldLeft(ConnRemove, k, plan.conns), plan.changes), plan.conns)

\* Errors after the pauses are not looked at: the call then returns NX_OK.
RunPlan(k, plan, order) ==
    IF validate(k, plan, order) # "OK" THEN Ret(k, validate(k, plan, order))
    ELSE OnOk(PauseFrom(k, order, 1),
              LAMBDA p : Ret(FoldLeft(ResumeSlot, Rebind(p, plan), Reverse(order)), "OK"))

nx_recompose(k, plan) ==
    RunPlan(k, plan, build_pause_order(k, PlanSlots(plan)))

nx_config_swap_component(k, s, manifest) ==
    LET c == SelectSeq(k.comps, LAMBDA x : x = manifest /\ k.state[x] = "READY")
    IN  IF ~slot_node_for(k, s) THEN Ret(k, "ENOENT")
        ELSE IF s \in Frozen THEN Ret(k, "EPERM")
        ELSE IF c = <<>> THEN Ret(k, "ENOENT")
        ELSE nx_recompose(k, [changes |-> <<<<s, c[1]>>>>, conns |-> <<>>])

nx_config_set_conn_mode(k, from, to, mode) ==
    IF ~slot_node_for(k, from) \/ ~slot_node_for(k, to) THEN Ret(k, "ENOENT")
    ELSE nx_recompose(k, [changes |-> <<>>,
             conns |-> <<[action |-> "REWIRE", from |-> from, to |-> to, mode |-> mode]>>])

(***************************************************************************)
(* Bootstrap.                                                              *)
(***************************************************************************)
find_slot_for(c) ==
    LET i == SelectInSeq(BootSlots, LAMBDA s : Impl[s] = c)
    IN  IF i = 0 THEN NoSlot ELSE BootSlots[i]

\* Mutant: a dependency counts as ready as soon as its slot is bound.
deps_bound(k, c, visited) ==
    \A i \in 1..Len(Deps[c]) :
        LET d == Deps[c][i]
        IN  d.required => slot_node_for(k, d.slot) /\ k.active[d.slot] # NoComp

deps_ready(k, c, visited) ==
    \A i \in 1..Len(Deps[c]) :
        LET d == Deps[c][i]
        IN  d.required => /\ slot_node_for(k, d.slot) /\ k.active[d.slot] # NoComp
                          /\ k.active[d.slot] \in visited

BootRegister(k, c) ==
    IF k.rc # "OK" THEN k
    ELSE OnOk(nx_component_register(k, c),
              LAMBDA r : IF find_slot_for(c) = NoSlot THEN r ELSE nx_slot_swap(r, find_slot_for(c), c))

\* Resolve, initialise and, if bound, enable one component.  The first error
\* ends the boot, which leaves what is up as it is.
BootComponent(k, c) ==
    OnOk(OnOk(nx_resolve_deps(k, Deps[c], find_slot_for(c)), LAMBDA r : nx_component_init(r, c)),
         LAMBDA r : IF find_slot_for(c) = NoSlot THEN r ELSE nx_component_enable(r, c))

\* One pass of the topological sort; b is [k, visited].
BootPass(b, section) ==
    FoldLeft(LAMBDA a, c :
                 IF a.k.rc # "OK" \/ c \in a.visited \/ ~deps_ready(a.k, c, a.visited) THEN a
                 ELSE [k |-> BootComponent(a.k, c), visited |-> a.visited \cup {c}],
             b, section)

BootEnd(b, section) ==
    IF b.k.rc # "OK" \/ b.visited = Range(section) THEN b.k ELSE Ret(b.k, "ELOOP")

nx_framework_bootstrap(k, section) ==
    LET slots == FoldLeft(nx_slot_register, k, BootSlots)
        comps == FoldLeft(BootRegister, slots, section)
    IN  BootEnd(FoldLeft(LAMBDA b, n : BootPass(b, section),
                         [k |-> comps, visited |-> {}], [i \in 1..Len(section) |-> i]),
                section)

(***************************************************************************)
(* The caller slot of a task.                                              *)
(***************************************************************************)
clone_edge_cb(k, t, e) ==
    IF k.rc # "OK" THEN k ELSE nx_connection_register(k, t, e.to, e.mode, e.policy)

\* Mutant: the edges stay.
KeepEdges(k, t) == k

\* The first outgoing edge, again and again.
unwire_caller_slot_edges(k, t) ==
    FoldLeft(LAMBDA a, e : nx_connection_unregister(a, SelectInSeq(a.conns, LAMBDA x : x.from = t)),
             k, nx_slot_foreach_dependency(k, t))

unwire_caller_slot(k, t) ==
    nx_slot_unregister(nx_slot_swap(unwire_caller_slot_edges(k, t), t, NoComp), t)

UnwireOnError(k, t) == IF k.rc = "OK" THEN k ELSE Ret(unwire_caller_slot(k, t), k.rc)

\* Registered, bound to the component of posix_shim, and given the edges of
\* its slot; taken back when memory runs out on the way.  Without posix_shim
\* the task has no slot.
wire_caller_slot(k, t) ==
    LET edges == nx_slot_foreach_dependency(k, PosixShim)
    IN  IF ~slot_node_for(k, PosixShim) \/ k.active[PosixShim] = NoComp THEN Ret(k, "OK")
        ELSE OnOk(nx_slot_register([k EXCEPT !.active[t] = NoComp], t),
                  LAMBDA r : UnwireOnError(
                      FoldLeft(LAMBDA a, e : clone_edge_cb(a, t, e),
                               nx_slot_swap(r, t, k.active[PosixShim]), edges),
                      t))
=============================================================================
