------------------------------- MODULE MCPosix -------------------------------
(***************************************************************************)
(* What Posix promises, and its instances for TLC: a shell (pid 1) that    *)
(* sets up pipes and files, forks, signals and reaps, and the children it  *)
(* forks one after the other.                                              *)
(***************************************************************************)
EXTENDS Posix, TLC

CONSTANTS s1, s2

MCSpaces   == {s1, s2}
MCSymmetry == Permutations(MCSpaces)

Shell == {"pipe", "open", "fork", "wait", "signal", "close", "poll", "exec", "io"}
Stage == {"dup", "close", "exit", "io", "wait"}
MCOps == [p \in Pids |-> CASE p = 1 -> Shell
                           [] p = 2 -> Stage
                           [] OTHER -> {"exit", "channel", "fcntl"}]

\* The slots whose entry is settled: a dup3 that waits for the VFS has closed
\* the object of its target slot and not yet overwritten the entry.
Settled(p) == Idx \ (IF task[p].op = "dup" THEN {task[p].on.at} ELSE {})

\* The reference count of an endpoint is the number of settled entries that
\* refer to it in all handle tables, whatever mix of pipe, fork, dup3, fcntl, close,
\* exit and kill led there; the endpoint is closed exactly when it is zero,
\* and a channel is freed when nothing refers to either end.
Handles(e) == MapThenSumSet(LAMBDA p : Held(proc[p].tbl, Settled(p))[e], Pids)
EndpointRefs ==
    \A e \in Ends :
        /\ chan[e].refs = Handles(e)
        /\ chan[e].live => (chan[e].closed <=> chan[e].refs = 0)
        /\ chan[e].live => chan[e].refs + chan[Peer(e)].refs > 0

\* Every settled handle to an endpoint or a file has its object: an allocated
\* and open endpoint, or an open the current VFS component knows, with a
\* reference for each handle that names it.  Directories are not among them:
\* copies share a cursor that the first close gives back.
FileHandles(f) == MapThenSumSet(LAMBDA p : FilesIn(proc[p].tbl, Settled(p), f), Pids)
HandlesBacked ==
    \A p \in Pids : \A i \in Settled(p) :
        LET x == proc[p].tbl[i] IN
        /\ IsEnd(x)  => chan[x.obj].live /\ ~chan[x.obj].closed
        /\ IsFile(x) => x.obj[3] = epoch /\ opens[x.obj[2]] >= FileHandles(x.obj[2])
        /\ x.type = "RESOURCE" => IsFile(x) \/ x.obj = Con

\* Nobody sleeps through the event it waits for: a reader sleeps on an empty
\* ring whose writers are not all gone, a ppoll on endpoints none of which is
\* ready, a sys_wait for children on ones that have not exited.  (A wait for a
\* process that is not a child is not woken by its exit.)
SleepersNotReady ==
    \A p \in Pids : (proc[p].st = "ACTIVE" /\ task[p].slp) =>
        CASE task[p].op = "read" -> WouldBlock(chan, task[p].on)
          [] task[p].op = "poll" ->
                \A e \in task[p].on[1] : Readiness(chan, e, task[p].on[2]) = {}
          [] task[p].op = "wait" ->
                \A q \in Children(p) : task[p].on[2] \in {NoPid, q} => proc[q].st = "ACTIVE"

\* An address space belongs to exactly one process in the table, and to one
\* from its creation to the reaping: fork, exec, its roll-backs and sys_wait
\* neither leak one, nor free one in use, nor share one.
SpacesOwned ==
    LET known == {p \in Pids : proc[p].st # "NONE"} IN
    /\ spaces = {proc[p].root : p \in known}
    /\ \A p, q \in known : proc[p].root = proc[q].root => p = q
    /\ known = {ptab[k] : k \in 1 .. PTabCap} \ {NoPid}
=============================================================================
