------------------------------- MODULE Procfs -------------------------------
(***************************************************************************)
(* components/procfs: /proc, read-only, made from the table of processes   *)
(* at the time of each call.  The line of /proc/<pid>/stat is the record   *)
(* of its fields that are not always zero.                                 *)
(***************************************************************************)
EXTENDS Paths, FiniteSets, FiniteSetsExt, TLC

CONSTANT MaxProcOpen     \* PROCFS_MAX_OPEN

ASSUME ProcfsAssumption == MaxProcOpen \in Nat \ {0}

FreeProcOpen == [buf |-> <<>>, cursor |-> 0, refs |-> 0]

IsProcOpen(s, id) == id \in 1..MaxProcOpen /\ s[id].refs > 0

NoProc == [pid |-> 0, state |-> "FREE", parent |-> 0]

KernelProc == [pid |-> 0, state |-> "ACTIVE", parent |-> 0]

\* What nx_process_for_each visits, in its order: the kernel process, then the
\* used slots of the table.
nx_process_for_each(ptab) == <<KernelProc>> \o SelectSeq(ptab, LAMBDA q : q # NoProc)

procfs_path_is_root(p) == p = <<"proc">>

\* procfs_parse_pid and the lookup that follows it: the processes that the
\* digits after "/proc/" name, none when they are not digits.
procfs_parse_pid(procs, p) ==
    {i \in 1..Len(procs) : Len(p) > 1 /\ p[1] = "proc" /\ p[2] = ToString(procs[i].pid)}

procfs_find_nth(procs, n) == IF n < Len(procs) THEN n + 1 ELSE 0

procfs_render_stat(proc) ==
    [pid   |-> proc.pid,
     state |-> IF proc.state = "EXITED" THEN "Z" ELSE "R",
     ppid  |-> proc.parent]

IsStatPath(p) == Len(p) = 3 /\ p[3] = "stat"

procfs_alloc_open(s) ==
    LET free == {i \in 1..MaxProcOpen : s[i].refs = 0}
    IN  IF free = {} THEN 0 ELSE Min(free)

procfs_op_open(s, procs, p, flags) ==
    LET who == procfs_parse_pid(procs, p)
        id  == procfs_alloc_open(s)
    IN  IF flags \cap {"WRITE", "CREATE", "APPEND"} # {} \/ ~IsStatPath(p) \/ who = {} \/ id = 0
        THEN [s |-> s, rc |-> 0]
        ELSE [s  |-> [s EXCEPT ![id] = [buf |-> <<procfs_render_stat(procs[Min(who)])>>,
                                        cursor |-> 0, refs |-> 1]],
              rc |-> id]

procfs_op_close(s, id) ==
    IF ~IsProcOpen(s, id) THEN s
    ELSE IF s[id].refs > 1 THEN [s EXCEPT ![id].refs = @ - 1]
    ELSE [s EXCEPT ![id] = FreeProcOpen]

procfs_op_retain(s, id) ==
    IF IsProcOpen(s, id) THEN [s EXCEPT ![id].refs = @ + 1] ELSE s

procfs_op_read(s, id, cap) ==
    LET n == Min({cap, Len(s[id].buf) - s[id].cursor})
    IN  IF ~IsProcOpen(s, id) THEN [s |-> s, rc |-> NX_EINVAL]
        ELSE [s |-> [s EXCEPT ![id].cursor = @ + n], rc |-> n]

procfs_op_write(s) == [s |-> s, rc |-> NX_EPERM]

procfs_op_seek(s, id, offset, whence) ==
    LET pos == offset + CASE whence = "SET" -> 0
                          [] whence = "CUR" -> s[id].cursor
                          [] whence = "END" -> Len(s[id].buf)
    IN  IF ~IsProcOpen(s, id) \/ pos \notin 0..Len(s[id].buf) THEN [s |-> s, rc |-> NX_EINVAL]
        ELSE [s |-> [s EXCEPT ![id].cursor = pos], rc |-> pos]

\* Neither "." nor ".." here; the cookie of /proc counts processes.
procfs_op_readdir(procs, dir, cookie) ==
    LET nth == procfs_find_nth(procs, cookie)
    IN  IF procfs_path_is_root(dir) /\ nth # 0
        THEN [rc |-> "OK", cookie |-> cookie + 1, name |-> ToString(procs[nth].pid)]
        ELSE IF Len(dir) = 2 /\ procfs_parse_pid(procs, dir) # {} /\ cookie = 0
        THEN [rc |-> "OK", cookie |-> 1, name |-> "stat"]
        ELSE [rc |-> "ENOENT", cookie |-> cookie, name |-> ""]

procfs_op_mkdir(s) == [s |-> s, rc |-> "EPERM"]

procfs_op_stat(procs, p) ==
    LET known == procfs_parse_pid(procs, p) # {}
    IN  CASE procfs_path_is_root(p) \/ (known /\ Len(p) = 2) -> [kind |-> "DIR", size |-> 0]
          [] known /\ IsStatPath(p) -> [kind |-> "FILE", size |-> 1]
          [] OTHER -> [kind |-> "NONE", size |-> 0]

procfs_init == [id \in 1..MaxProcOpen |-> FreeProcOpen]
=============================================================================
