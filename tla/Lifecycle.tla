----------------------------- MODULE Lifecycle -----------------------------
(***************************************************************************)
(* framework/component.c: the life of a component and the pause protocol.  *)
(* k.fail names the operation of a component that fails in the current     *)
(* call, as <<component, operation>>.                                      *)
(***************************************************************************)
EXTENDS Router

nx_lifecycle_transition_legal(from, to) ==
    <<from, to>> \in {<<"UNINIT", "INIT">>, <<"UNINIT", "READY">>, <<"INIT", "READY">>,
                      <<"READY", "ACTIVE">>, <<"READY", "DESTROYED">>,
                      <<"ACTIVE", "PAUSED">>, <<"ACTIVE", "READY">>,
                      <<"PAUSED", "ACTIVE">>, <<"PAUSED", "READY">>}

transition_from(k, c, expected, to) ==
    IF k.state[c] # expected \/ ~nx_lifecycle_transition_legal(expected, to)
    THEN Ret(k, "ESTATE")
    ELSE nx_component_state_set(k, c, to)

\* The hook chain of a transition, then the component's own operation.
Step(k, c, point, op) ==
    Unvetoed(nx_hook_dispatch(k, point),
             LAMBDA h : Ret(h, IF k.fail = <<c, op>> THEN "EIO" ELSE "OK"))

nx_component_init(k, c) ==
    IF k.state[c] # "UNINIT" THEN Ret(k, "ESTATE")
    ELSE IF k.fail = <<c, "init">> THEN Ret(k, "EIO")
    ELSE transition_from(k, c, "UNINIT", "READY")

nx_component_enable(k, c) ==
    IF k.state[c] # "READY" THEN Ret(k, "ESTATE")
    ELSE OnOk(Step(k, c, "ENABLE", "enable"), LAMBDA r : transition_from(r, c, "READY", "ACTIVE"))

slot_cutoff_cb(k, s) == nx_slot_set_pause_state(k, s, "CUTTING")

\* Mutant: the inbox is left as it is.
NoDrain(k, s) == nx_slot_set_pause_state(k, s, "DRAINING")

slot_drain_cb(k, s) ==
    nx_ipc_dispatch(nx_slot_set_pause_state(k, s, "DRAINING"), s, Len(k.inbox[s]))

slot_done_cb(k, s) == nx_slot_set_pause_state(k, s, "DONE")

slot_resume_cb(k, s) == nx_ipc_flush_hold_queue(nx_slot_set_pause_state(k, s, "NONE"), s)

\* Mutant: the slots stay as the pause left them.
KeepPause(k, c) == k

rollback_pause(k, c) == FoldLeft(slot_resume_cb, k, nx_component_foreach_bound_slot(k, c))

cutoff_and_drain(k, bound) == FoldLeft(slot_drain_cb, FoldLeft(slot_cutoff_cb, k, bound), bound)

\* The component's pause_hook (which has a deadline) and its pause operation.
PauseOps(k, c, bound) ==
    IF k.fail \in {<<c, "pause_hook">>, <<c, "pause">>} THEN Ret(rollback_pause(k, c), "EIO")
    ELSE transition_from(FoldLeft(slot_done_cb, k, bound), c, "ACTIVE", "PAUSED")

\* Cut off and drain every slot of the component first.
nx_component_pause(k, c) ==
    LET bound == nx_component_foreach_bound_slot(k, c)
    IN  IF k.state[c] # "ACTIVE" THEN Ret(k, "ESTATE")
        ELSE Unvetoed(nx_hook_dispatch(k, "PAUSE"),
                      LAMBDA h : PauseOps(cutoff_and_drain(h, bound), c, bound))

nx_component_resume(k, c) ==
    IF k.state[c] # "PAUSED" THEN Ret(k, "ESTATE")
    ELSE OnOk(Step(k, c, "RESUME", "resume"),
              LAMBDA r : transition_from(rollback_pause(r, c), c, "PAUSED", "ACTIVE"))

nx_component_disable(k, c) ==
    IF k.state[c] \notin {"ACTIVE", "PAUSED"} THEN Ret(k, "ESTATE")
    ELSE OnOk(Step(k, c, "DISABLE", "disable"), LAMBDA r : nx_component_state_set(r, c, "READY"))

nx_component_destroy(k, c) ==
    IF k.state[c] # "READY" THEN Ret(k, "ESTATE")
    ELSE IF nx_component_is_bound(k, c) THEN Ret(k, "EBUSY")
    ELSE transition_from(k, c, "READY", "DESTROYED")

\* The edges from a slot (NoSlot for a component that no slot names) to the
\* slots its component depends on.  A missing slot is an error only for a
\* required dependency.
nx_resolve_deps(k, deps, self) ==
    FoldLeft(LAMBDA a, d :
                 IF a.rc # "OK" THEN a
                 ELSE IF ~slot_node_for(a, d.slot) THEN Ret(a, IF d.required THEN "ENOENT" ELSE "OK")
                 ELSE nx_connection_register(a, self, d.slot, d.mode, d.policy),
             Ret(k, "OK"), deps)
=============================================================================
