------------------------------ MODULE TrapFrame ------------------------------
(***************************************************************************)
(* g_current_tf, the one stash through which sys_exec and sys_fork reach   *)
(* the trap frame of the task that called them (framework/syscall.c).      *)
(* nx_syscall_dispatch points it at the frame of the caller and clears it  *)
(* when the call returns.  System calls run with IRQs masked, but a call   *)
(* that waits (for the VFS, a pipe, a child) gives the CPU to tasks that   *)
(* make system calls of their own.                                         *)
(***************************************************************************)
EXTENDS Integers

CONSTANTS
    Tasks,       \* user tasks
    NoTask,      \* NULL
    MaxImages    \* bound on the images loaded, so on the execs that succeed

VARIABLES
    g_current_tf,   \* the task whose frame it points to
    in,             \* the call a task is inside of, waiting
    img,            \* the image in the address space of a task
    frame,          \* the image the pc of its saved frame belongs to
    images          \* images loaded so far

vars == <<g_current_tf, in, img, frame, images>>

Init ==
    /\ g_current_tf = NoTask
    /\ in = [t \in Tasks |-> "user"]
    /\ img = [t \in Tasks |-> 0] /\ frame = [t \in Tasks |-> 0]
    /\ images = 0

\* nx_syscall_dispatch for a call that does not wait, or that the
\* SYSCALL_ENTER hook aborts: the stash is set and cleared.
Quick(t) ==
    /\ in[t] = "user"
    /\ g_current_tf' = NoTask
    /\ UNCHANGED <<in, img, frame, images>>

\* A call that waits: the stash still points to the frame of t.
Wait(t, call) ==
    /\ in[t] = "user" /\ call \in {"exec", "other"}
    /\ in' = [in EXCEPT ![t] = call]
    /\ g_current_tf' = t
    /\ UNCHANGED <<img, frame, images>>

Resume(t) ==
    /\ in[t] = "other"
    /\ in' = [in EXCEPT ![t] = "user"]
    /\ g_current_tf' = NoTask
    /\ UNCHANGED <<img, frame, images>>

\* sys_exec after its last read: the frame of nx_syscall_current_tf is made to
\* start the new image, and the address space is replaced.
ExecDone(t) ==
    /\ in[t] = "exec" /\ images < MaxImages
    /\ images' = images + 1
    /\ frame' = IF g_current_tf = NoTask THEN frame
                ELSE [frame EXCEPT ![g_current_tf] = images + 1]
    /\ img' = [img EXCEPT ![t] = images + 1]
    /\ in' = [in EXCEPT ![t] = "user"]
    /\ g_current_tf' = NoTask

ExecFails(t) ==
    /\ in[t] = "exec"
    /\ in' = [in EXCEPT ![t] = "user"]
    /\ g_current_tf' = NoTask
    /\ UNCHANGED <<img, frame, images>>

Next ==
    \E t \in Tasks :
        \/ Quick(t) \/ Resume(t) \/ ExecDone(t) \/ ExecFails(t)
        \/ \E call \in {"exec", "other"} : Wait(t, call)

Spec == Init /\ [][Next]_vars

\* "Single-CPU v1 so a plain static suffices": a task returns to user mode at
\* a pc of the image its address space holds.
FrameMatchesImage == \A t \in Tasks : in[t] = "user" => frame[t] = img[t]
=============================================================================
