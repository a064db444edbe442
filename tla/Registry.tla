------------------------------ MODULE Registry ------------------------------
(***************************************************************************)
(* framework/registry.c: the graph of slots, components and connections,   *)
(* and its observers.  The lists have their newest node first.  Fields of  *)
(* k: slots, active, pause, fallback (the registered slots, and what their *)
(* structs hold), comps, state, conns, subs (g_subscribers; an observer is *)
(* its copy of the graph), mem (allocations before calloc fails), rc.      *)
(* An operation returns k, with its result in rc.                          *)
(***************************************************************************)
EXTENDS Hooks, Functions, TLC

CONSTANTS
    SlotIds,     \* struct nx_slot: those of the boot table and of the tasks
    CompIds,     \* struct nx_component
    NoSlot,      \* NULL
    NoComp,      \* NULL
    MaxSubs      \* NX_MAX_SUBSCRIBERS

Ret(k, rc) == [k EXCEPT !.rc = rc]

\* Go on only if a call went well, or only if no hook vetoed.
OnOk(r, F(_)) == IF r.rc = "OK" THEN F(r) ELSE r

Unvetoed(h, F(_)) == IF h.action = "ABORT" THEN Ret(h, "EABORT") ELSE F(h)

NoView == <<>>

slot_node_for(k, s) == Contains(k.slots, s)

component_node_for(k, c) == Contains(k.comps, c)

nx_component_is_bound(k, c) == \E i \in 1..Len(k.slots) : k.active[k.slots[i]] = c

nx_component_foreach_bound_slot(k, c) == SelectSeq(k.slots, LAMBDA s : k.active[s] = c)

nx_slot_foreach_dependency(k, s) == SelectSeq(k.conns, LAMBDA e : e.from = s)

(***************************************************************************)
(* Observers.                                                              *)
(***************************************************************************)
\* The edges between each pair of slots are counted.
nx_graph_snapshot_take(k) ==
    [slots |-> [s \in Range(k.slots) |-> k.active[s]],
     comps |-> [c \in Range(k.comps) |-> k.state[c]],
     edges |-> [p \in {<<e.from, e.to>> : e \in Range(k.conns)} |->
                  Len(SelectSeq(k.conns, LAMBDA e : <<e.from, e.to>> = p))]]

\* What an observer makes of an event.
Observe(v, ev) ==
    LET p == <<ev.x, ev.y>>
        n == IF p \in DOMAIN v.edges THEN v.edges[p] ELSE 0
    IN  CASE ev.type = "SLOT_CREATED"   -> [v EXCEPT !.slots = (ev.x :> NoComp) @@ @]
          [] ev.type = "SLOT_SWAPPED"   -> [v EXCEPT !.slots[ev.x] = ev.y]
          [] ev.type = "SLOT_DESTROYED" -> [v EXCEPT !.slots = Restrict(@, DOMAIN @ \ {ev.x})]
          [] ev.type = "COMPONENT_REGISTERED"   -> [v EXCEPT !.comps = (ev.x :> ev.y) @@ @]
          [] ev.type = "COMPONENT_UNREGISTERED" -> [v EXCEPT !.comps = Restrict(@, DOMAIN @ \ {ev.x})]
          [] ev.type = "COMPONENT_STATE"        -> [v EXCEPT !.comps[ev.x] = ev.y]
          [] ev.type = "CONNECTION_ADDED"    -> [v EXCEPT !.edges = (p :> (n + 1)) @@ @]
          [] ev.type = "CONNECTION_RETUNED"  -> v
          [] ev.type = "CONNECTION_REMOVED"  ->
                 [v EXCEPT !.edges = IF n = 1 THEN Restrict(@, DOMAIN @ \ {p})
                                     ELSE (p :> (n - 1)) @@ @]

emit_event(k, type, x, y) ==
    [k EXCEPT !.subs = [i \in 1..MaxSubs |->
        IF @[i] = NoView THEN NoView ELSE Observe(@[i], [type |-> type, x |-> x, y |-> y])]]

\* An observer subscribes and takes a snapshot to start from.
nx_graph_subscribe(k) ==
    LET free == {i \in 1..MaxSubs : k.subs[i] = NoView}
    IN  IF free = {} THEN Ret(k, "ENOMEM")
        ELSE Ret([k EXCEPT !.subs[CHOOSE i \in free : \A j \in free : i <= j] =
                      nx_graph_snapshot_take(k)], "OK")

nx_graph_unsubscribe(k, i) == [k EXCEPT !.subs[i] = NoView]

(***************************************************************************)
(* Slots.                                                                  *)
(***************************************************************************)
nx_slot_register(k, s) ==
    IF slot_node_for(k, s) THEN Ret(k, "EEXIST")
    ELSE IF k.mem = 0 THEN Ret(k, "ENOMEM")
    ELSE Ret(emit_event([k EXCEPT !.slots = <<s>> \o @, !.pause[s] = "NONE",
                                  !.fallback[s] = NoSlot, !.mem = @ - 1],
                        "SLOT_CREATED", s, NoComp), "OK")

\* The hooks that hear of a swap cannot veto it.
nx_slot_swap(k, s, c) ==
    IF ~slot_node_for(k, s) \/ (c # NoComp /\ ~component_node_for(k, c)) THEN Ret(k, "ENOENT")
    ELSE Ret(nx_hook_dispatch(emit_event([k EXCEPT !.active[s] = c], "SLOT_SWAPPED", s, c),
                              "SLOT_SWAPPED"), "OK")

nx_slot_set_fallback(k, s, f) ==
    IF ~slot_node_for(k, s) \/ ~slot_node_for(k, f) THEN Ret(k, "ENOENT")
    ELSE IF f = s THEN Ret(k, "EINVAL")
    ELSE Ret([k EXCEPT !.fallback[s] = f], "OK")

nx_slot_set_pause_state(k, s, st) ==
    IF slot_node_for(k, s) THEN [k EXCEPT !.pause[s] = st] ELSE k

HasEdges(k, s) == \E i \in 1..Len(k.conns) : s \in {k.conns[i].from, k.conns[i].to}

nx_slot_unregister(k, s) ==
    IF ~slot_node_for(k, s) THEN Ret(k, "ENOENT")
    ELSE IF HasEdges(k, s) THEN Ret(k, "EBUSY")
    ELSE Ret(emit_event([k EXCEPT !.slots = Remove(@, s)], "SLOT_DESTROYED", s, NoComp), "OK")

(***************************************************************************)
(* Components.                                                             *)
(***************************************************************************)
nx_component_register(k, c) ==
    IF component_node_for(k, c) THEN Ret(k, "EEXIST")
    ELSE IF k.mem = 0 THEN Ret(k, "ENOMEM")
    ELSE Ret(emit_event([k EXCEPT !.comps = <<c>> \o @, !.mem = @ - 1],
                        "COMPONENT_REGISTERED", c, k.state[c]), "OK")

nx_component_unregister(k, c) ==
    IF ~component_node_for(k, c) THEN Ret(k, "ENOENT")
    ELSE IF nx_component_is_bound(k, c) THEN Ret(k, "EBUSY")
    ELSE Ret(emit_event([k EXCEPT !.comps = Remove(@, c)],
                        "COMPONENT_UNREGISTERED", c, NoComp), "OK")

\* Mutant: the state is set and nobody is told.
StateSetSilent(k, c, st) ==
    IF ~component_node_for(k, c) THEN Ret(k, "ENOENT") ELSE Ret([k EXCEPT !.state[c] = st], "OK")

nx_component_state_set(k, c, st) ==
    IF ~component_node_for(k, c) THEN Ret(k, "ENOENT")
    ELSE Ret(emit_event([k EXCEPT !.state[c] = st], "COMPONENT_STATE", c, st), "OK")

(***************************************************************************)
(* Connections.                                                            *)
(***************************************************************************)
nx_connection_register(k, from, to, mode, policy) ==
    IF ~slot_node_for(k, to) \/ (from # NoSlot /\ ~slot_node_for(k, from)) THEN Ret(k, "ENOENT")
    ELSE IF k.mem = 0 THEN Ret(k, "ENOMEM")
    ELSE Ret(emit_event(
                 [k EXCEPT !.conns = <<[from |-> from, to |-> to, mode |-> mode,
                                        policy |-> policy]>> \o @,
                           !.mem = @ - 1],
                 "CONNECTION_ADDED", from, to), "OK")

\* Connections are named by their place in the list.
nx_connection_retune(k, i, mode) ==
    emit_event([k EXCEPT !.conns[i].mode = mode],
               "CONNECTION_RETUNED", k.conns[i].from, k.conns[i].to)

nx_connection_unregister(k, i) ==
    emit_event([k EXCEPT !.conns = RemoveAt(@, i)],
               "CONNECTION_REMOVED", k.conns[i].from, k.conns[i].to)
=============================================================================
