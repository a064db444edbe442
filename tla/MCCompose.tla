----------------------------- MODULE MCCompose -----------------------------
(***************************************************************************)
(* An instance of Compose: posix_shim p, a service v with a spare          *)
(* component, and a service w whose messages to v may be redirected to p.  *)
(***************************************************************************)
EXTENDS Compose

MCSlotIds == {"p", "v", "w", "t"}
MCCompIds == {"shim", "v1", "v2", "w1"}
MCBootSlots == <<"p", "v", "w">>
MCImpl == [p |-> "shim", v |-> "v1", w |-> "w1"]

Dep(s, r, policy) == [slot |-> s, required |-> r, mode |-> "ASYNC", policy |-> policy]

MCDeps == [shim |-> <<Dep("v", TRUE, "QUEUE"), Dep("w", FALSE, "REJECT")>>,
           v1 |-> <<>>, v2 |-> <<>>,
           w1 |-> <<Dep("v", TRUE, "REDIRECT"), Dep("p", FALSE, "QUEUE")>>]

MCSections == {<<"shim", "w1", "v1", "v2">>, <<"v2", "v1", "shim", "w1">>}

MCMsgDef == [m1 |-> [src |-> "p", dst |-> "v", cap |-> "w"],
             m2 |-> [src |-> "p", dst |-> "v", cap |-> NoSlot],
             m3 |-> [src |-> "w", dst |-> "v", cap |-> NoSlot]]

MCPoints == {"IPC_SEND", "IPC_RECV", "SLOT_SWAPPED", "ENABLE", "PAUSE", "RESUME", "DISABLE"}

Hook(point, priority, action, drops, adds) ==
    [point |-> point, priority |-> priority, action |-> action, drops |-> drops, adds |-> adds]

\* once unhooks itself and veto and puts late behind itself.
MCHookDef == [once |-> Hook("PAUSE", 1, "CONTINUE", <<"once", "veto">>, <<"late">>),
              late |-> Hook("PAUSE", 2, "ABORT", <<"late">>, <<"late">>),
              veto |-> Hook("RESUME", 1, "ABORT", <<>>, <<>>),
              shut |-> Hook("IPC_RECV", 1, "ABORT", <<>>, <<>>)]
MCHandHooks == {"once", "veto", "shut"}

MCFails == {<<"v1", "init">>, <<"v1", "pause">>, <<"v1", "disable">>, <<"v1", "resume">>}
MCMemories == {1, 2, 100}
MCSwaps == {<<"v", "v1">>, <<"v", "v2">>}
MCRewires == {<<"p", "v">>}
MCPlans == {[changes |-> <<>>, conns |-> <<[action |-> a, from |-> "p", to |-> "v", mode |-> "ASYNC"]>>] :
                a \in {"ADD", "REMOVE"}}
MCPauses == {"v1"}
\* Messages across pauses, replacements and changes of mode; across removed
\* and redirected edges; and the graph with its observers.
MCClients == {{"send", "pause", "swap", "rewire", "hook"},
              {"send", "pause", "swap", "plan", "fallback", "memory"},
              {"task", "observe", "pause", "swap", "plan", "hook"}}
MCFallbacks == {<<"v", "p">>}
=============================================================================
