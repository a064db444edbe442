------------------------------- MODULE Router -------------------------------
(***************************************************************************)
(* framework/ipc.c as the host build has it, where a slot has an inbox and *)
(* the caller of nx_ipc_dispatch runs the handlers (the kernel's queue and *)
(* its thread are in Dispatch).  Fields of k: inbox, hold (g_holds, newest *)
(* entry first), dst (dst_slot of each message, which a redirect rewrites),*)
(* claimed (the messages whose cap was claimed), queues (the slots that    *)
(* have an entry in g_queues); and for the properties done (handler runs,  *)
(* in order), lost (messages that a queue gave up, each with the error     *)
(* nobody saw) and left (messages still in an inbox when a handler that    *)
(* failed ended the drain that was to take them).                          *)
(***************************************************************************)
EXTENDS Registry

CONSTANTS
    MsgDef,          \* [message -> [src, dst, cap]], cap a slot, or NoSlot
    Failing,         \* messages that their handler fails on
    RedirectMax      \* NX_IPC_REDIRECT_DEPTH_MAX

\* Place of the newest connection between two slots, or 0.
find_edge(k, from, to) ==
    IF from = NoSlot THEN 0
    ELSE SelectInSeq(k.conns, LAMBDA e : e.from = from /\ e.to = to)

\* A message may pass on only a slot that its sender is connected to.
nx_ipc_scan_send_caps(k, m) ==
    MsgDef[m].cap = NoSlot \/ find_edge(k, MsgDef[m].src, MsgDef[m].cap) # 0

(***************************************************************************)
(* Slot references.                                                        *)
(***************************************************************************)
nx_slot_ref_retain(k, self, m) ==
    IF m \in k.claimed THEN Ret(k, "EINVAL")
    ELSE OnOk(nx_connection_register(k, self, MsgDef[m].cap, "ASYNC", "QUEUE"),
              LAMBDA r : [r EXCEPT !.claimed = @ \cup {m}])

nx_slot_ref_release(k, self, target) ==
    LET i == find_edge(k, self, target)
    IN  IF i = 0 THEN k ELSE nx_connection_unregister(k, i)

\* The handler of a component, which keeps the slot that a message passes on.
HandleMsg(k, s, m) ==
    LET r == IF MsgDef[m].cap = NoSlot THEN k ELSE nx_slot_ref_retain(k, s, m)
    IN  Ret([r EXCEPT !.done = Append(@, [m |-> m, at |-> s])],
            IF m \in Failing THEN "EIO" ELSE "OK")

invoke_handler(k, s, m) ==
    IF k.active[s] = NoComp THEN Ret(k, "ENOENT") ELSE HandleMsg(k, s, m)

(***************************************************************************)
(* Sending.                                                                *)
(***************************************************************************)
hold_entry_for(k, src, d) == SelectInSeq(k.hold, LAMBDA e : e.src = src /\ e.dst = d)

\* The first message of an edge needs memory for the entry.
hold_enqueue(k, m) ==
    LET i == hold_entry_for(k, MsgDef[m].src, k.dst[m])
    IN  IF i # 0 THEN Ret([k EXCEPT !.hold[i].q = Append(@, m)], "OK")
        ELSE IF k.mem = 0 THEN Ret(k, "ENOMEM")
        ELSE Ret([k EXCEPT !.hold = <<[src |-> MsgDef[m].src, dst |-> k.dst[m], q |-> <<m>>]>> \o @,
                           !.mem = @ - 1], "OK")

\* The entry of a slot in g_queues stays once it is there.
queue_for(k, s) ==
    IF s \in k.queues THEN Ret(k, "OK")
    ELSE IF k.mem = 0 THEN Ret(k, "ENOMEM")
    ELSE Ret([k EXCEPT !.queues = @ \cup {s}, !.mem = @ - 1], "OK")

enqueue(k, m) ==
    OnOk(queue_for(k, k.dst[m]), LAMBDA r : [r EXCEPT !.inbox[k.dst[m]] = Append(@, m)])

RECURSIVE do_send(_, _, _)

\* The policy of the edge decides while the destination is paused, its mode
\* otherwise.
Route(h, m, depth) ==
    LET d == h.dst[m]
        i == find_edge(h, MsgDef[m].src, d)
        paused == h.pause[d] # "NONE"
    IN  IF i = 0 THEN Ret(h, "ENOENT")
        ELSE IF ~nx_ipc_scan_send_caps(h, m) THEN Ret(h, "EINVAL")
        ELSE IF paused /\ h.conns[i].policy = "QUEUE" THEN hold_enqueue(h, m)
        ELSE IF paused /\ h.conns[i].policy = "REJECT" THEN Ret(h, "EBUSY")
        ELSE IF paused /\ depth >= RedirectMax THEN Ret(h, "ELOOP")
        ELSE IF paused /\ h.fallback[d] = NoSlot THEN Ret(h, "ENOENT")
        ELSE IF paused THEN do_send([h EXCEPT !.dst[m] = h.fallback[d]], m, depth + 1)
        ELSE IF h.conns[i].mode = "SYNC" THEN invoke_handler(h, d, m)
        ELSE enqueue(h, m)

do_send(k, m, depth) ==
    Unvetoed(nx_hook_dispatch(k, "IPC_SEND"), LAMBDA h : Route(h, m, depth))

nx_ipc_send(k, m) == do_send(k, m, 0)

(***************************************************************************)
(* Draining an inbox and a hold queue.                                     *)
(***************************************************************************)
\* A message that no handler saw.
Account(k, m) ==
    IF k.rc = "OK" \/ m \in {k.done[i].m : i \in 1..Len(k.done)} THEN k
    ELSE [k EXCEPT !.lost = @ \cup {<<m, k.rc>>}]

RECURSIVE nx_ipc_dispatch(_, _, _)

\* A hook that aborts drops the message; a handler that fails ends the drain.
DrainOn(r, s, m, max) ==
    IF r.rc \in {"OK", "EABORT"} THEN nx_ipc_dispatch(Account(r, m), s, max - 1)
    ELSE [Account(r, m) EXCEPT !.left = @ \cup {r.inbox[s][i] : i \in 1..Min({max - 1, Len(r.inbox[s])})}]

\* At most max messages.
nx_ipc_dispatch(k, s, max) ==
    IF max = 0 \/ k.inbox[s] = <<>> THEN k
    ELSE DrainOn(Unvetoed(nx_hook_dispatch([k EXCEPT !.inbox[s] = Tail(@)], "IPC_RECV"),
                          LAMBDA h : invoke_handler(h, s, Head(k.inbox[s]))),
                 s, Head(k.inbox[s]), max)

\* A held message is sent again; when that fails nobody hears of it.
Resend(k, m) == Account(nx_ipc_send(k, m), m)

\* Mutant: only the first message of each queue is sent again.
FlushHeads(k, d) ==
    FoldLeft(LAMBDA a, e : IF e.dst = d THEN Resend(a, Head(e.q)) ELSE a,
             [k EXCEPT !.hold = SelectSeq(@, LAMBDA e : e.dst # d)], k.hold)

nx_ipc_flush_hold_queue(k, d) ==
    FoldLeft(Resend, [k EXCEPT !.hold = SelectSeq(@, LAMBDA e : e.dst # d)],
             FoldLeft(LAMBDA q, e : IF e.dst = d THEN q \o e.q ELSE q, <<>>, k.hold))
=============================================================================
