------------------------------- MODULE Hooks -------------------------------
(***************************************************************************)
(* framework/hook.c.  k is the record of the framework's globals; here its *)
(* fields chain (g_chains, one sequence of hooks per hook point), dead     *)
(* (the hooks whose _dead is set) and action (what the last dispatch       *)
(* returned).  A callback may unregister and register hooks.               *)
(***************************************************************************)
EXTENDS Naturals, Sequences, FiniteSets, SequencesExt

CONSTANTS
    Points,      \* hook points
    HookDef      \* [hook -> [point, priority, action, drops, adds]]: a hook
                 \* and what its callback does

ASSUME HooksAssumption ==
    \A h \in DOMAIN HookDef : HookDef[h].point \in Points /\ HookDef[h].priority \in Nat

NoHook == "NULL"

InChain(k, h) == Contains(k.chain[HookDef[h].point], h)

\* Behind every hook of lower or equal priority; one already there is refused.
nx_hook_register(k, h) ==
    LET c == k.chain[HookDef[h].point]
        n == Len(SelectSeq(c, LAMBDA x : HookDef[x].priority <= HookDef[h].priority))
    IN  IF InChain(k, h) THEN k
        ELSE [k EXCEPT !.chain[HookDef[h].point] = InsertAt(c, n + 1, h),
                       !.dead = @ \ {h}]

chain_unlink(k, h) == [k EXCEPT !.chain[HookDef[h].point] = Remove(@, h)]

\* Mutant: only the chain that was walked is swept.
SweepOne(k, point) ==
    [k EXCEPT !.chain[point] = SelectSeq(@, LAMBDA h : h \notin k.dead),
              !.dead = {h \in k.dead : HookDef[h].point # point}]

sweep_dead(k, point) ==
    [k EXCEPT !.chain = [p \in Points |-> SelectSeq(@[p], LAMBDA h : h \notin k.dead)],
              !.dead = {}]

\* While a chain is being walked (in a callback) a hook is only marked.
nx_hook_unregister(k, h, g_dispatching) ==
    IF ~InChain(k, h) THEN k
    ELSE IF g_dispatching > 0 THEN [k EXCEPT !.dead = @ \cup {h}]
    ELSE chain_unlink(k, h)

CallHook(k, h) ==
    IF h \in k.dead THEN k
    ELSE [FoldLeft(nx_hook_register,
                   FoldLeft(LAMBDA a, d : nx_hook_unregister(a, d, 1), k, HookDef[h].drops),
                   HookDef[h].adds)
            EXCEPT !.action = HookDef[h].action]

\* The hooks of a chain after h, with NoHook for its end.
After1(chain, h) ==
    LET i == SelectInSeq(chain, LAMBDA x : x = h)
    IN  IF i = Len(chain) THEN NoHook ELSE chain[i + 1]

\* The walk goes on with the hook that was next before the callback ran: it
\* misses one that the callback put in between, and meets one behind that.
RECURSIVE Walk(_, _, _)
Walk(k, point, h) ==
    IF h = NoHook \/ k.action = "ABORT" THEN k
    ELSE Walk(CallHook(k, h), point, After1(k.chain[point], h))

nx_hook_dispatch(k, point) ==
    sweep_dead(Walk([k EXCEPT !.action = "CONTINUE"], point,
                    IF k.chain[point] = <<>> THEN NoHook ELSE k.chain[point][1]),
               point)
=============================================================================
