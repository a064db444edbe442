-------------------------------- MODULE Posix --------------------------------
(***************************************************************************)
(* Processes and the objects behind their handles: framework/process.c and *)
(* the process, pipe and descriptor system calls of framework/syscall.c,   *)
(* over the handle tables of HandleTable and the endpoints of Channel.     *)
(*                                                                         *)
(* One CPU, and a system call runs with IRQs masked: a call is one action  *)
(* up to the point where it sleeps or waits for the VFS, and another one   *)
(* from there.  sys_handle_close is one action although it waits to close  *)
(* a file: the slot it frees when it runs again is the one a replacement   *)
(* of the VFS in the meantime has freed the same way.                      *)
(*                                                                         *)
(* A signal only sets a bit.  The task dies of it at its next              *)
(* sched_check_resched: in user mode, or inside a system call when that    *)
(* call gives the CPU away.  The second kind leaves the call half done.    *)
(***************************************************************************)
EXTENDS HandleTable, Channel

CONSTANTS
    MaxPid,      \* processes a behaviour creates
    PTabCap,     \* NX_PROCESS_TABLE_CAPACITY
    Spaces,      \* address spaces the page allocator has room for
    NFiles,      \* the VFS's pool of open files
    MaxMade,     \* bound on the objects a behaviour creates: channels and opens
    MaxGen,      \* bound on the generation of a slot that is closed
    VfsSwaps,    \* how often the component behind the vfs slot is replaced
    HandleArgs,  \* the handle values programs pass
    DupTo,       \* the newfd values of dup3
    DupFloors,   \* the slots F_DUPFD starts its search at
    PollWants,   \* the event masks ppoll is called with
    Victims,     \* the processes that are sent a signal
    Ops,         \* the system calls a process makes
    Races        \* "forkfail": task creation may fail in fork; "swapcall": VfsSwap inside a call

ASSUME PosixAssumption ==
    /\ MaxPid \in Nat \ {0} /\ PTabCap \in Nat \ {0} /\ NFiles \in Nat /\ MaxGen \in Nat /\ MaxMade \in Nat
    /\ NSlots > 4 /\ MaxGen < HandleGens
    /\ Victims \subseteq 1 .. MaxPid
    /\ HandleArgs \cup DupTo \subseteq Nat /\ DupFloors \subseteq Idx
    /\ \A w \in PollWants : w \subseteq {"IN", "OUT"}
    /\ Races \subseteq {"forkfail", "swapcall"}

Pids  == 1 .. MaxPid
Files == 1 .. NFiles
NoPid == 0

VARIABLES
    ptab,       \* g_process_table: a pid per slot, or 0
    nextpid,    \* g_pid_next
    proc,       \* the process structs
    task,       \* what the main task of a process is doing
    chan,       \* the endpoints
    lst,        \* pollset_listeners of an endpoint: the pids that registered
    opens,      \* references of each open of the VFS's pool; 0 is free
    epoch,      \* replacements of the VFS so far
    made,       \* objects created so far (only for the bound)
    spaces      \* allocated address spaces

vars == <<ptab, nextpid, proc, task, chan, lst, opens, epoch, made, spaces>>

\* Parts of the state that an action leaves alone.
tableVars == <<ptab, nextpid>>
fileVars  == <<opens, epoch, made>>

Con == <<"con">>                     \* id 0 on the char_device slot
Idle(op) == [op |-> op, on |-> NoObj, slp |-> FALSE]

\* nx_process_create: the console at handles 1, 2 and 3.
FreshTable ==
    Install(Install(Install([i \in Idx |-> FreeEntry(0)],
        0, "RESOURCE", {"W"}, Con), 1, "RESOURCE", {"W"}, Con), 2, "RESOURCE", {"R"}, Con)
NoProc == [st |-> "NONE", parent |-> NoPid, tbl |-> [i \in Idx |-> FreeEntry(0)],
           root |-> NoObj, sig |-> FALSE]
NewProc(par, t, s) == [st |-> "ACTIVE", parent |-> par, tbl |-> t, root |-> s, sig |-> FALSE]

Init ==
    /\ ptab = [k \in 1 .. PTabCap |-> IF k = 1 THEN 1 ELSE NoPid]
    /\ nextpid = 2
    /\ \E s \in Spaces :
          /\ proc = [p \in Pids |-> IF p = 1 THEN NewProc(NoPid, FreshTable, s) ELSE NoProc]
          /\ spaces = {s}
    /\ task = [p \in Pids |-> Idle(IF p = 1 THEN "user" ELSE "none")]
    /\ chan = [e \in Ends |-> NoEnd]
    /\ lst = [e \in Ends |-> {}]
    /\ opens = [f \in Files |-> 0] /\ epoch = 0 /\ made = 0
-----------------------------------------------------------------------------
(* What the system calls share. *)

Running(p) == proc[p].st = "ACTIVE" /\ task[p].op = "user"
In(p, op)  == proc[p].st = "ACTIVE" /\ task[p].op = op /\ ~task[p].slp

\* A handle value names a slot; 0 is stdin, slot 2 whatever its generation.
Named(t, h) ==
    IF h = 0 THEN IF IsLive(t, 2) THEN 2 ELSE -1
    ELSE IF Resolve(t, h) = "OK" THEN DecodeIdx(h) ELSE -1

IsEnd(x)  == x.type = "CHANNEL"
IsFile(x) == x.type = "RESOURCE" /\ x.obj[1] = "file"
OnVfs(x)  == IsFile(x) \/ (x.type = "DIR" /\ x.obj[1] = "dir")    \* entry->target is the vfs slot
Unbound(obj) == <<"stale", obj>>                                    \* the object of a lost target
Held(t, I) == [e \in Ends |-> Cardinality({i \in I : IsEnd(t[i]) /\ t[i].obj = e})]
FilesIn(t, I, f) == Cardinality({i \in I : IsFile(t[i]) /\ t[i].obj[2] = f})

\* nx_vfs_retain and nx_vfs_close, on ids the component may not know.
VfsRetainNot(o, t, I) == o
VfsRetain(o, t, I) == [f \in Files |-> IF o[f] > 0 THEN o[f] + FilesIn(t, I, f) ELSE 0]
VfsClose(o, f)     == [o EXCEPT ![f] = IF @ > 0 THEN @ - 1 ELSE 0]
CloseFileAt(t, i)  == IF IsFile(t[i]) THEN VfsClose(opens, t[i].obj[2]) ELSE opens

\* nx_pollset_wake_all, over the listeners of the endpoints in E.
Woken(tk, P) == [p \in Pids |-> IF p \in P THEN [tk[p] EXCEPT !.slp = FALSE] ELSE tk[p]]
Listening(l, E) == UNION {l[e] : e \in E}

\* A system call that returns to user mode.
ReturnTo(tk, p) == task' = [tk EXCEPT ![p] = Idle("user")]
Return(p) == ReturnTo(task, p)

\* nx_process_exit, with the state the system call has reached: endpoints are
\* closed, every slot is freed, the parent's exit_waitq is woken.  Opens and
\* directory cursors are left to themselves.
ExitFrom(p, tk, pr, ch, o, l) ==
    LET t == pr[p].tbl
        held == Held(t, Idx)
        parent == {q \in Pids : q = pr[p].parent /\ pr[q].st # "NONE" /\ tk[q].op = "wait"}
    IN /\ chan' = Close(ch, held)
       /\ proc' = [pr EXCEPT ![p].st = "EXITED", ![p].tbl = Invalidate(t, LiveIdx(t))]
       /\ task' = [Woken(tk, Listening(l, CloseWakes(ch, held)) \cup parent)
                     EXCEPT ![p] = Idle("dead")]
       /\ opens' = o /\ lst' = l

\* The task gives the CPU away inside a call: it sleeps, or dies of a signal.
SleepOrDie(p, tk, l) ==
    IF proc[p].sig
    THEN ExitFrom(p, task, proc, chan, opens, l)
    ELSE task' = [task EXCEPT ![p] = tk] /\ lst' = l /\ UNCHANGED <<proc, chan, opens>>

\* The task waits in the call op for the VFS, which has by then done what it
\* was asked (o); with a signal pending it dies there instead.
Await(p, tk, pr, op, on, ch, o) ==
    IF pr[p].sig
    THEN ExitFrom(p, tk, pr, ch, o, lst)
    ELSE /\ task' = [tk EXCEPT ![p] = [op |-> op, on |-> on, slp |-> FALSE]]
         /\ proc' = pr /\ chan' = ch /\ opens' = o /\ UNCHANGED lst

SysExit(p) ==
    /\ "exit" \in Ops[p] /\ Running(p)
    /\ ExitFrom(p, task, proc, chan, opens, lst)
    /\ UNCHANGED <<tableVars, epoch, made, spaces>>
-----------------------------------------------------------------------------
(* Pipes and channels. *)

\* sys_pipe and sys_channel_create: two handles, or an unwind that leaves the
\* generation of the slots it had taken bumped.  ok: the user pointer is good.
MakeChannel(p, c, r0, r1, ok) ==
    LET t  == proc[p].tbl
        i  == FirstFree(t)
        t1 == Install(t, i, "CHANNEL", r0, <<"end", c, 0>>)
        j  == FirstFree(t1)
        t2 == Install(t1, j, "CHANNEL", r1, <<"end", c, 1>>)
        undo == Invalidate(t, {i} \cup (IF j = -1 THEN {} ELSE {j}))
        both == i # -1 /\ j # -1 /\ ok
    IN /\ Running(p) /\ \A e \in Ends : e[2] = c => ~chan[e].live
       /\ i # -1 => t[i].gen < MaxGen
       /\ chan' = IF both THEN Create(chan, c) ELSE chan
       /\ lst' = [e \in Ends |-> IF e[2] = c THEN {} ELSE lst[e]]
       /\ proc' = [proc EXCEPT ![p].tbl = IF i = -1 THEN t ELSE IF both THEN t2 ELSE undo]
       /\ made < MaxMade /\ made' = made + 1
       /\ Return(p)
       /\ UNCHANGED <<tableVars, opens, epoch, spaces>>

SysPipe(p) ==
    /\ "pipe" \in Ops[p]
    /\ \E c \in Chans, ok \in BOOLEAN : MakeChannel(p, c, {"R"}, {"W"}, ok)
SysChannelCreate(p) ==
    /\ "channel" \in Ops[p]
    /\ \E c \in Chans, ok \in BOOLEAN : MakeChannel(p, c, {"R", "W"}, {"R", "W"}, ok)

\* The entry a handle names, when it is an endpoint with the right r.
EndWith(p, h, r) ==
    LET i == Named(proc[p].tbl, h) IN
    i # -1 /\ IsEnd(proc[p].tbl[i]) /\ r \in proc[p].tbl[i].rights
EndAt(p, h) == proc[p].tbl[Named(proc[p].tbl, h)].obj

\* sys_channel_send and the channel arm of sys_write; NX_EBUSY changes nothing.
SysWrite(p, h) ==
    /\ "io" \in Ops[p] /\ Running(p) /\ EndWith(p, h, "W")
    /\ CanSend(chan, EndAt(p, h))
    /\ chan' = Send(chan, EndAt(p, h))
    /\ ReturnTo(Woken(task, lst[Peer(EndAt(p, h))]), p)
    /\ UNCHANGED <<tableVars, proc, lst, fileVars, spaces>>

\* The channel arm of sys_read: the listener is linked before the first
\* nx_channel_recv, and stays linked while the task sleeps.
ReadFrom(p, e) ==
    LET gone == [lst EXCEPT ![e] = @ \ {p}] IN
    \/ /\ HasData(chan, e)
       /\ chan' \in RecvOutcomes(chan, e) /\ lst' = gone
       /\ Return(p) /\ UNCHANGED <<proc, opens>>
    \/ /\ AtEof(chan, e) \/ chan[e].closed
       /\ lst' = gone /\ Return(p) /\ UNCHANGED <<chan, proc, opens>>
    \/ /\ WouldBlock(chan, e)
       /\ SleepOrDie(p, [op |-> "read", on |-> e, slp |-> TRUE], [lst EXCEPT ![e] = @ \cup {p}])

SysRead(p, h) ==
    /\ "io" \in Ops[p] /\ Running(p) /\ EndWith(p, h, "R")
    /\ ReadFrom(p, EndAt(p, h))
    /\ UNCHANGED <<tableVars, epoch, made, spaces>>

ReadResume(p) ==
    /\ In(p, "read")
    /\ ReadFrom(p, task[p].on)
    /\ UNCHANGED <<tableVars, epoch, made, spaces>>

\* sys_channel_recv is the same without the sleep.
SysChannelRecv(p, h) ==
    /\ "channel" \in Ops[p] /\ Running(p) /\ EndWith(p, h, "R")
    /\ HasData(chan, EndAt(p, h))
    /\ chan' \in RecvOutcomes(chan, EndAt(p, h))
    /\ Return(p)
    /\ UNCHANGED <<tableVars, proc, lst, fileVars, spaces>>

\* sys_ppoll over the handles H: listeners first, then readiness; one sleep,
\* one recheck, and the listeners are gone.  A file, a directory or a bad
\* handle is always ready; polling the console is left out.
PollEnds(p, H) == {EndAt(p, h) : h \in {x \in H : LET i == Named(proc[p].tbl, x) IN
                                                   i # -1 /\ IsEnd(proc[p].tbl[i])}}
PollReady(p, H, w) ==
    \/ \E h \in H : LET i == Named(proc[p].tbl, h) IN
           i = -1 \/ ~IsEnd(proc[p].tbl[i])
    \/ \E e \in PollEnds(p, H) : Readiness(chan, e, w) # {}

SysPpoll(p, H, w, timeout) ==
    /\ "poll" \in Ops[p] /\ Running(p)
    /\ \A h \in H : LET i == Named(proc[p].tbl, h) IN i # -1 => proc[p].tbl[i].obj # Con
    /\ IF PollReady(p, H, w) \/ timeout = "zero"
       THEN Return(p) /\ UNCHANGED <<proc, chan, opens, lst>>
       ELSE /\ SleepOrDie(p, [op |-> "poll", on |-> <<PollEnds(p, H), w, timeout>>, slp |-> TRUE],
                          [e \in Ends |-> IF e \in PollEnds(p, H) THEN lst[e] \cup {p} ELSE lst[e]])
    /\ UNCHANGED <<tableVars, epoch, made, spaces>>

PpollResume(p) ==
    /\ In(p, "poll")
    /\ lst' = [e \in Ends |-> lst[e] \ {p}]
    /\ Return(p)
    /\ UNCHANGED <<tableVars, proc, chan, fileVars, spaces>>

\* sched_tick expires the deadline of a sleeping ppoll.
DeadlinePasses(p) ==
    /\ task[p].op = "poll" /\ task[p].slp /\ task[p].on[3] = "some"
    /\ task' = [task EXCEPT ![p].slp = FALSE]
    /\ UNCHANGED <<tableVars, proc, chan, lst, fileVars, spaces>>
-----------------------------------------------------------------------------
(* Descriptors. *)

\* sys_handle_close drops the object, then the slot.  Closing a file waits for
\* the VFS: with a signal pending the task dies there, the close done.  The
\* cursor of a directory is given back whatever copies of the handle remain.
SysHandleClose(p, h) ==
    LET t == proc[p].tbl
        i == Named(t, h)
        one == Held(t, {i})
    IN /\ "close" \in Ops[p] /\ Running(p) /\ i # -1 /\ t[i].gen < MaxGen
       /\ IF IsFile(t[i]) /\ proc[p].sig
          THEN ExitFrom(p, task, proc, chan, CloseFileAt(t, i), lst)
          ELSE /\ chan' = Close(chan, one)
               /\ opens' = CloseFileAt(t, i)
               /\ proc' = [proc EXCEPT ![p].tbl = CloseIdx(t, i)]
               /\ ReturnTo(Woken(task, Listening(lst, CloseWakes(chan, one))), p)
               /\ UNCHANGED lst
       /\ UNCHANGED <<tableVars, epoch, made, spaces>>

\* The end of sys_dup3 and F_DUPFD: slot d.at becomes a copy of the entry the
\* call looked up at its start, with the target slot d.from has now: none, if
\* the VFS was replaced while the call waited.
DupInstall(p, d, tk, ch) ==
    /\ proc' = [proc EXCEPT ![p].tbl[d.at] =
                  [d.src EXCEPT !.gen = d.gen,
                                !.obj = IF IsLive(proc[p].tbl, d.from) THEN @ ELSE Unbound(@)]]
    /\ chan' = ch
    /\ ReturnTo(tk, p)
    /\ UNCHANGED <<opens, lst>>

\* Before it the source is retained; for a file that is a wait.
DupRetain(p, d, tk, ch) ==
    LET t == proc[p].tbl IN
    IF IsFile(t[d.from])
    THEN Await(p, tk, proc, "dup", [d EXCEPT !.step = "retain"], ch, VfsRetain(opens, t, {d.from}))
    ELSE DupInstall(p, d, tk, Retain(ch, Held(t, {d.from})))

\* sys_dup3: close what the target slot holds, which for a file is a wait,
\* retain the source, overwrite the slot with the generation of newfd.  A task
\* that dies in a wait leaves the target's object closed and its entry in the
\* table.
SysDup3(p, old, new) ==
    LET t == proc[p].tbl
        i == DecodeIdx(old)
        j == IF new = 0 THEN 2 ELSE DecodeIdx(new)
        g == IF new = 0 THEN 0 ELSE DecodeGen(new)
        d == [step |-> "close", src |-> t[i], from |-> i, at |-> j, gen |-> g]
        drop == Held(t, {j})
    IN /\ "dup" \in Ops[p] /\ Running(p) /\ old # new
       /\ Resolve(t, old) = "OK" /\ j # -1
       /\ IF IsFile(t[j])
          THEN Await(p, task, proc, "dup", d, chan, CloseFileAt(t, j))
          ELSE DupRetain(p, d, Woken(task, Listening(lst, CloseWakes(chan, drop))), Close(chan, drop))
       /\ UNCHANGED <<tableVars, epoch, made, spaces>>

\* sys_fcntl, F_DUPFD: the first free slot at or above a floor, generation 0.
SysFcntlDup(p, fd, floor) ==
    LET t == proc[p].tbl
        i == DecodeIdx(fd)
        room == {k \in Idx : k >= floor /\ ~IsLive(t, k)}
    IN /\ "fcntl" \in Ops[p] /\ Running(p) /\ Resolve(t, fd) = "OK" /\ room # {}
       /\ DupRetain(p, [step |-> "close", src |-> t[i], from |-> i, at |-> Min(room), gen |-> 0],
                    task, chan)
       /\ UNCHANGED <<tableVars, epoch, made, spaces>>

DupResume(p) ==
    /\ In(p, "dup")
    /\ IF task[p].on.step = "close"
       THEN DupRetain(p, task[p].on, task, chan)
       ELSE DupInstall(p, task[p].on, task, chan)
    /\ UNCHANGED <<tableVars, epoch, made, spaces>>

\* sys_open on a file asks the VFS to stat and to open, and installs the id it
\* got when it runs again.  A signal ends it at the first wait, or at the
\* second with the file open.
SysOpen(p) ==
    /\ "open" \in Ops[p] /\ Running(p)
    /\ \E f \in Files :
          /\ opens[f] = 0
          /\ \/ /\ proc[p].sig
                /\ \E o \in {opens, [opens EXCEPT ![f] = 1]} : ExitFrom(p, task, proc, chan, o, lst)
             \/ /\ ~proc[p].sig
                /\ opens' = [opens EXCEPT ![f] = 1]
                /\ task' = [task EXCEPT ![p] =
                               [op |-> "open", on |-> <<"file", f, epoch>>, slp |-> FALSE]]
                /\ UNCHANGED <<proc, chan, lst>>
    /\ made < MaxMade /\ made' = made + 1
    /\ UNCHANGED <<tableVars, epoch, spaces>>

OpenResume(p) ==
    LET t == proc[p].tbl
        f == task[p].on
    IN /\ In(p, "open")
       /\ IF FirstFree(t) = -1
          THEN opens' = VfsClose(opens, f[2]) /\ UNCHANGED proc
          ELSE /\ proc' = [proc EXCEPT ![p].tbl = Install(t, FirstFree(t), "RESOURCE", {"R", "W"}, f)]
               /\ UNCHANGED opens
       /\ Return(p)
       /\ UNCHANGED <<tableVars, chan, lst, epoch, made, spaces>>

\* sys_open on a directory: a cursor, given back if the table is full.
SysOpenDir(p) ==
    LET t == proc[p].tbl IN
    /\ "open" \in Ops[p] /\ Running(p) /\ ~proc[p].sig
    /\ proc' = IF FirstFree(t) = -1 THEN proc
               ELSE [proc EXCEPT ![p].tbl = Install(t, FirstFree(t), "DIR", {"R"}, <<"dir">>)]
    /\ made < MaxMade /\ made' = made + 1
    /\ Return(p)
    /\ UNCHANGED <<tableVars, chan, lst, opens, epoch, spaces>>

\* The vfs slot is rebound: the new component starts with an empty pool, and
\* posix_shim's on_dep_swapped invalidates the handles of every process whose
\* target is that slot, those of directories included.
VfsSwap ==
    /\ epoch < VfsSwaps
    /\ (\E p \in Pids : task[p].op \in {"open", "exec", "dup"}) => "swapcall" \in Races
    /\ epoch' = epoch + 1
    /\ opens' = [f \in Files |-> 0]
    /\ proc' = [p \in Pids |-> [proc[p] EXCEPT !.tbl =
                   Invalidate(@, {i \in Idx : OnVfs(proc[p].tbl[i])})]]
    /\ UNCHANGED <<tableVars, task, chan, lst, made, spaces>>
-----------------------------------------------------------------------------
(* Processes. *)

FreeRows == {k \in 1 .. PTabCap : ptab[k] = NoPid}

\* nx_process_destroy, in the state a call has reached: the row and the address
\* space of z are given back, what its table still holds gets no destructor.
Destroy(z, pr, pt, sp) ==
    /\ proc' = [pr EXCEPT ![z] = NoProc]
    /\ ptab' = [k \in 1 .. PTabCap |-> IF pt[k] = z THEN NoPid ELSE pt[k]]
    /\ spaces' = sp \ {pr[z].root}

\* The loop of sys_fork from a slot on: endpoints are retained and copied to
\* the same slot of the child c, up to the next file, whose retain is a wait.
\* Past the last slot comes the task; when it cannot be created
\* nx_process_destroy takes the child back.
ForkFrom(p, c, pr, pt, sp, from) ==
    LET t == pr[p].tbl
        files == {i \in from .. NSlots - 1 : IsFile(t[i])}
        stop == IF files = {} THEN NSlots ELSE Min(files)
        ends == {i \in from .. stop - 1 : IsEnd(t[i])}
        copied == [pr EXCEPT ![c].tbl = [i \in Idx |-> IF i \in ends THEN t[i] ELSE @[i]]]
        ch == Retain(chan, Held(t, ends))
    IN IF files # {}
       THEN /\ Await(p, task, copied, "fork", <<c, stop>>, ch, VfsRetain(opens, t, {stop}))
            /\ ptab' = pt /\ spaces' = sp
       ELSE \E fails \in BOOLEAN :
            /\ fails => "forkfail" \in Races
            /\ chan' = ch
            /\ IF fails THEN Destroy(c, pr, pt, sp)
               ELSE proc' = copied /\ ptab' = pt /\ spaces' = sp
            /\ ReturnTo(IF fails THEN task ELSE [task EXCEPT ![c] = Idle("user")], p)
            /\ UNCHANGED <<opens, lst>>

\* sys_fork: nx_process_fork, then the loop.
SysFork(p) ==
    LET c == nextpid IN
    /\ "fork" \in Ops[p] /\ Running(p) /\ c \in Pids /\ FreeRows # {}
    /\ \E s \in Spaces \ spaces :
          ForkFrom(p, c, [proc EXCEPT ![c] = NewProc(p, FreshTable, s)],
                   [ptab EXCEPT ![Min(FreeRows)] = c], spaces \cup {s}, 0)
    /\ nextpid' = c + 1
    /\ UNCHANGED <<epoch, made>>

\* After the wait the entry is copied as it is now: free, if the VFS was
\* replaced meanwhile.
ForkResume(p) ==
    LET c == task[p].on[1]
        i == task[p].on[2]
    IN /\ In(p, "fork")
       /\ ForkFrom(p, c, [proc EXCEPT ![c].tbl[i] = proc[p].tbl[i]], ptab, spaces, i + 1)
       /\ UNCHANGED <<nextpid, epoch, made>>

\* No address space left: the child leaves the table, its pid is used up.
SysForkNoMemStays(p) ==
    /\ "fork" \in Ops[p] /\ Running(p) /\ nextpid \in Pids /\ FreeRows # {} /\ spaces = Spaces
    /\ ptab' = [ptab EXCEPT ![Min(FreeRows)] = nextpid]
    /\ nextpid' = nextpid + 1
    /\ Return(p)
    /\ UNCHANGED <<proc, chan, lst, fileVars, spaces>>
SysForkNoMem(p) ==
    /\ "fork" \in Ops[p] /\ Running(p) /\ nextpid \in Pids /\ FreeRows # {} /\ spaces = Spaces
    /\ nextpid' = nextpid + 1
    /\ Return(p)
    /\ UNCHANGED <<ptab, proc, chan, lst, fileVars, spaces>>

\* sys_wait, from its call and after every wake-up.  w is the pid asked for,
\* 0 for any child; exited children are taken in table order.  A sleeper whose
\* target another process has collected looks at freed memory when it is woken;
\* the model takes the call to return.
Rows(P) == {k \in 1 .. PTabCap : ptab[k] \in P}
Children(p) == {q \in Pids : proc[q].st # "NONE" /\ proc[q].parent = p}
WaitFor(p, w) ==
    LET done == {q \in (IF w = NoPid THEN Children(p) ELSE {w}) : proc[q].st = "EXITED"}
        live == {q \in (IF w = NoPid THEN Children(p) ELSE {w}) : proc[q].st = "ACTIVE"}
        z == ptab[Min(Rows(done))]
    IN \/ /\ done # {}
          /\ Destroy(z, proc, ptab, spaces)
          /\ ReturnTo([task EXCEPT ![z] = Idle("none")], p)
          /\ UNCHANGED <<chan, lst, opens>>
       \/ /\ done = {} /\ live # {}
          /\ SleepOrDie(p, [op |-> "wait", on |-> <<"pid", w>>, slp |-> TRUE], lst)
          /\ UNCHANGED <<ptab, spaces>>
       \/ /\ done = {} /\ live = {}
          /\ Return(p)
          /\ UNCHANGED <<ptab, proc, chan, lst, opens, spaces>>

\* The pid need not be a child's, but the sleep is on the caller's own
\* exit_waitq, which only the exit of a child wakes.  Waiting for itself is
\* NX_EINVAL.
SysWait(p, w) ==
    /\ "wait" \in Ops[p] /\ Running(p) /\ w # p
    /\ WaitFor(p, w)
    /\ UNCHANGED <<nextpid, epoch, made>>

WaitResume(p) ==
    /\ In(p, "wait")
    /\ WaitFor(p, task[p].on[2])
    /\ UNCHANGED <<nextpid, epoch, made>>

\* sys_exec opens the file and waits for the VFS; a signal ends it there.
SysExec(p) ==
    /\ "exec" \in Ops[p] /\ Running(p)
    /\ \E f \in Files :
          /\ opens[f] = 0
          /\ IF proc[p].sig
             THEN ExitFrom(p, task, proc, chan, [opens EXCEPT ![f] = 1], lst)
             ELSE /\ opens' = [opens EXCEPT ![f] = 1]
                  /\ task' = [task EXCEPT ![p] =
                                 [op |-> "exec", on |-> <<"file", f, epoch>>, slp |-> FALSE]]
                  /\ UNCHANGED <<proc, chan, lst>>
    /\ made < MaxMade /\ made' = made + 1
    /\ UNCHANGED <<tableVars, epoch, spaces>>

\* The rest of sys_exec after its reads: a bad file, no address space or a
\* failed load leave the old image; otherwise the new root replaces the old
\* one (TrapFrame models what it does to the saved frame).
ExecResume(p) ==
    LET o == VfsClose(opens, task[p].on[2])
        old == proc[p].root
    IN /\ In(p, "exec")
       /\ \/ /\ proc[p].sig
             /\ ExitFrom(p, task, proc, chan, opens, lst)
             /\ UNCHANGED spaces
          \/ /\ ~proc[p].sig
             /\ opens' = o /\ Return(p)
             /\ UNCHANGED <<proc, chan, lst, spaces>>
          \/ /\ ~proc[p].sig
             /\ \E s \in Spaces \ spaces :
                   /\ proc' = [proc EXCEPT ![p].root = s]
                   /\ spaces' = (spaces \cup {s}) \ {old}
             /\ opens' = o /\ Return(p)
             /\ UNCHANGED <<chan, lst>>
       /\ UNCHANGED <<tableVars, epoch, made>>

\* sys_signal posts SIGTERM or SIGKILL to any process in the table.
SysSignal(p, q) ==
    /\ "signal" \in Ops[p] /\ Running(p) /\ proc[q].st # "NONE"
    /\ proc' = [proc EXCEPT ![q].sig = TRUE]
    /\ Return(p)
    /\ UNCHANGED <<tableVars, chan, lst, fileVars, spaces>>

\* sched_check_resched at the tail of an IRQ taken in user mode.
Deliver(p) ==
    /\ Running(p) /\ proc[p].sig
    /\ ExitFrom(p, task, proc, chan, opens, lst)
    /\ UNCHANGED <<tableVars, epoch, made, spaces>>

Syscall(p) ==
    \/ SysExit(p) \/ SysPipe(p) \/ SysChannelCreate(p)
    \/ SysFork(p) \/ SysForkNoMem(p) \/ SysExec(p) \/ SysOpen(p) \/ SysOpenDir(p)
    \/ \E h \in HandleArgs :
          \/ SysWrite(p, h) \/ SysRead(p, h) \/ SysChannelRecv(p, h) \/ SysHandleClose(p, h)
          \/ \E w \in PollWants, k \in {"none", "some", "zero"} : SysPpoll(p, {h}, w, k)
          \/ \E new \in DupTo : SysDup3(p, h, new)
          \/ \E floor \in DupFloors : SysFcntlDup(p, h, floor)
    \/ \E q \in Victims : SysSignal(p, q)
    \/ \E w \in Pids \cup {NoPid} : SysWait(p, w)

Resume(p) ==
    ReadResume(p) \/ PpollResume(p) \/ OpenResume(p) \/ DupResume(p)
    \/ ForkResume(p) \/ WaitResume(p) \/ ExecResume(p)

Next ==
    \/ VfsSwap
    \/ \E p \in Pids : Syscall(p) \/ Resume(p) \/ Deliver(p) \/ DeadlinePasses(p)

Spec == Init /\ [][Next]_vars
=============================================================================
