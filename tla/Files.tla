------------------------------- MODULE Files -------------------------------
(***************************************************************************)
(* The system calls on files and directories (framework/syscall.c) of      *)
(* processes that share one vfs.  A call waits for the answer to each      *)
(* message it sends to the vfs slot, and the dispatcher answers messages   *)
(* one at a time: a step is one message together with what the call does   *)
(* up to its next one.  sys_open sends a stat and then an open,            *)
(* sys_getdents64 and sys_writev one message per entry or buffer, so the   *)
(* calls of other processes come in between.                               *)
(***************************************************************************)
EXTENDS Vfs

CONSTANTS
    Procs,       \* the calling processes, by pid
    Archive,     \* the initramfs
    Programs,    \* what the processes run: [process -> [fds, open, mkdir, chdir,
                 \* ops]], the size of the handle table, the paths passed to
                 \* each call, as [abs, segs] (to openat with Linux flags, a set
                 \* of "O_..." names), and the calls made on handles
    IoMax,       \* NX_FILE_IO_MAX
    Counts,      \* lengths of reads and writes
    Seeks,       \* offsets and whences of seeks
    Rooms,       \* capacities of getdents64
    Wide,        \* names whose record takes two units of it; others take one
    Vectors      \* buffer lengths of a writev or readv

ASSUME FilesAssumption ==
    /\ Procs = 1..Cardinality(Procs)
    /\ \A g \in Programs : DOMAIN g = Procs /\ \A p \in Procs : g[p].fds \in Nat \ {0}
    /\ IoMax \in Nat \ {0} /\ Counts \subseteq Nat \ {0}

VARIABLES
    prog,      \* the programs of this behaviour
    fs,        \* the vfs, its file systems and the table of processes
    fd,        \* handle tables
    cur,       \* struct nx_dir_cursor, by number
    cwd,       \* nx_process.cwd
    pc         \* the call a process is inside of

vars == <<prog, fs, fd, cur, cwd, pc>>

Fds(p) == 1..prog[p].fds

NoFd == [type |-> "FREE"]

User == [at |-> "user"]

\* One cursor for each handle that there can be.
Cursors == 1..FoldFunction(LAMBDA g, n : g.fds + n, 0, prog)

NoCursor == [path |-> <<"none">>]

Dangling(t) == {c \in Cursors : \A p \in Procs : \A h \in Fds(p) : t[p][h] # [type |-> "DIR", cur |-> c]}

FirstFd(p) == Least({h \in Fds(p) : fd[p][h] = NoFd})

Init ==
    /\ prog \in Programs
    /\ fs = [wrap |-> [i \in 1..MaxWrap |-> FreeWrap], ram |-> ramfs_init(Archive),
             proc |-> procfs_init, active |-> {"filesystem.root", "filesystem.proc"},
             ptab |-> [i \in Procs |-> [pid |-> i, state |-> "ACTIVE", parent |-> 0]]]
    /\ fd = [p \in Procs |-> [h \in Fds(p) |-> NoFd]]
    /\ cur = [c \in Cursors |-> NoCursor]
    /\ cwd = [p \in Procs |-> Root]
    /\ pc = [p \in Procs |-> User]

(***************************************************************************)
(* Opening and closing.                                                    *)
(***************************************************************************)
\* sys_openat: the access mode, O_CREAT and O_APPEND; O_TRUNC and the others
\* are dropped.
NxFlags(lin) ==
    (IF "O_WRONLY" \in lin THEN {"WRITE"} ELSE {"READ"})
      \cup (IF "O_RDWR" \in lin THEN {"WRITE"} ELSE {})
      \cup (IF "O_CREAT" \in lin THEN {"CREATE"} ELSE {})
      \cup (IF "O_APPEND" \in lin THEN {"APPEND"} ELSE {})

Rights(flags) == LET rw == flags \cap {"READ", "WRITE"}
                 IN  IF rw = {} THEN {} ELSE rw \cup {"SEEK"}

\* The names below dir that a path of some entry goes through.
Children(f, dir) ==
    {ramfs_match_child(f.ram, i, dir) : i \in 1..Len(f.ram.files)} \ {""}

\* cur->path and cur->cookie; seen are the names given to the program so far,
\* due the children at the time of the open.  The last call returned 0 when
\* done is set, because its buffer was too small for the next record when cut
\* is set as well.
NewDir(path) ==
    [path |-> path, cookie |-> 0,
     seen |-> <<>>, due |-> Children(fs, path), done |-> FALSE, cut |-> FALSE]

\* sys_open up to its stat.  A directory gets a cursor, if there is a handle.
sys_open(p, path, lin) ==
    LET k == path_make_absolute(cwd[p], path)
        c == Min(Dangling(fd))
    IN  /\ pc[p] = User
        /\ IF nx_vfs_stat(fs, k).kind = "DIR"
           THEN /\ FirstFd(p) # 0
                /\ fd' = [fd EXCEPT ![p][FirstFd(p)] = [type |-> "DIR", cur |-> c]]
                /\ cur' = [cur EXCEPT ![c] = NewDir(k)]
                /\ UNCHANGED pc
           ELSE /\ pc' = [pc EXCEPT ![p] = [at |-> "open", path |-> k, flags |-> NxFlags(lin)]]
                /\ UNCHANGED <<fd, cur>>
        /\ UNCHANGED <<fs, cwd>>

\* sys_open from its stat to its open.  With no handle left the open is closed
\* again by a message of its own.
OpenResume(p) ==
    LET r == nx_vfs_open(fs, pc[p].path, pc[p].flags)
        h == FirstFd(p)
    IN  /\ pc[p].at = "open"
        /\ fs' = r.fs
        /\ IF r.rc # 0 /\ h # 0
           THEN fd' = [fd EXCEPT ![p][h] = [type |-> "FILE", id |-> r.rc, path |-> pc[p].path,
                                            rights |-> Rights(pc[p].flags)]]
           ELSE UNCHANGED fd
        /\ pc' = [pc EXCEPT ![p] = IF r.rc # 0 /\ h = 0 THEN [at |-> "undo", id |-> r.rc]
                                   ELSE User]
        /\ UNCHANGED <<cur, cwd>>

OpenUndo(p) ==
    /\ pc[p].at = "undo"
    /\ fs' = nx_vfs_close(fs, pc[p].id)
    /\ pc' = [pc EXCEPT ![p] = User]
    /\ UNCHANGED <<fd, cur, cwd>>

\* The cursor of a directory is freed although a copy of the handle may be
\* left.  free of so small a block does nothing and malloc never gives it out
\* again (kheap.c), so the copy goes on with the cursor it shared; a cursor
\* that no handle names any more is forgotten.
sys_handle_close(p, h) ==
    /\ pc[p] = User /\ fd[p][h] # NoFd
    /\ fs' = IF fd[p][h].type = "FILE" THEN nx_vfs_close(fs, fd[p][h].id) ELSE fs
    /\ fd' = [fd EXCEPT ![p][h] = NoFd]
    /\ cur' = [c \in Cursors |-> IF c \in Dangling(fd') THEN NoCursor ELSE cur[c]]
    /\ UNCHANGED <<cwd, pc>>

\* fcntl(F_DUPFD): the lowest free handle.  A file is retained; the cursor of a
\* directory is shared by both handles and nothing counts them.
sys_fcntl(p, h) ==
    /\ pc[p] = User /\ fd[p][h] # NoFd /\ FirstFd(p) # 0
    /\ fs' = IF fd[p][h].type = "FILE" THEN nx_vfs_retain(fs, fd[p][h].id) ELSE fs
    /\ fd' = [fd EXCEPT ![p][FirstFd(p)] = fd[p][h]]
    /\ UNCHANGED <<cur, cwd, pc>>

(***************************************************************************)
(* Reading, writing, seeking.                                              *)
(***************************************************************************)
\* lookup_file_object
lookup_file_object(p, h, right) == fd[p][h].type = "FILE" /\ right \in fd[p][h].rights

sys_read(p, h, cap) ==
    /\ pc[p] = User /\ lookup_file_object(p, h, "READ")
    /\ fs' = nx_vfs_read(fs, fd[p][h].id, Min({cap, IoMax})).fs
    /\ UNCHANGED <<fd, cur, cwd, pc>>

sys_write(p, h, len) ==
    /\ pc[p] = User /\ lookup_file_object(p, h, "WRITE")
    /\ fs' = nx_vfs_write(fs, fd[p][h].id, p, Min({len, IoMax})).fs
    /\ UNCHANGED <<fd, cur, cwd, pc>>

sys_seek(p, h, offset, whence) ==
    /\ pc[p] = User /\ lookup_file_object(p, h, "SEEK")
    /\ fs' = nx_vfs_seek(fs, fd[p][h].id, offset, whence).fs
    /\ UNCHANGED <<fd, cur, cwd, pc>>

\* sys_writev: the buffers that are left.
sys_writev(p, h, lens) ==
    /\ pc[p] = User /\ lookup_file_object(p, h, "WRITE")
    /\ pc' = [pc EXCEPT ![p] = [at |-> "writev", h |-> h, lens |-> lens]]
    /\ UNCHANGED <<fs, fd, cur, cwd>>

\* One buffer.  A short write or an error ends the call.
WritevResume(p) ==
    LET r == nx_vfs_write(fs, fd[p][pc[p].h].id, p, Min({Head(pc[p].lens), IoMax}))
        rest == Tail(pc[p].lens)
    IN  /\ pc[p].at = "writev"
        /\ fs' = r.fs
        /\ pc' = [pc EXCEPT ![p] = IF r.rc = Head(pc[p].lens) /\ rest # <<>>
                                   THEN [@ EXCEPT !.lens = rest] ELSE User]
        /\ UNCHANGED <<fd, cur, cwd>>

\* sys_readv
sys_readv(p, h, lens) ==
    /\ pc[p] = User /\ lookup_file_object(p, h, "READ")
    /\ pc' = [pc EXCEPT ![p] = [at |-> "readv", h |-> h, lens |-> lens]]
    /\ UNCHANGED <<fs, fd, cur, cwd>>

ReadvResume(p) ==
    LET r == nx_vfs_read(fs, fd[p][pc[p].h].id, Min({Head(pc[p].lens), IoMax}))
        rest == Tail(pc[p].lens)
    IN  /\ pc[p].at = "readv"
        /\ fs' = r.fs
        /\ pc' = [pc EXCEPT ![p] = IF r.rc = Head(pc[p].lens) /\ rest # <<>>
                                   THEN [@ EXCEPT !.lens = rest] ELSE User]
        /\ UNCHANGED <<fd, cur, cwd>>

(***************************************************************************)
(* Directories.                                                            *)
(***************************************************************************)
sys_getdents64(p, h, room) ==
    /\ pc[p] = User /\ fd[p][h].type = "DIR"
    /\ pc' = [pc EXCEPT ![p] = [at |-> "getdents", h |-> h, room |-> room, out |-> <<>>]]
    /\ UNCHANGED <<fs, fd, cur, cwd>>

\* Mutant: the cookie of an entry that did not fit is not taken back.
CookieKept(cookie) == cookie

RewindCookie(cookie) == cookie - 1

\* d_reclen, and the room that records take up.
RecLen(name) == IF name \in Wide THEN 2 ELSE 1

Used(out) == FoldLeft(LAMBDA n, name : n + RecLen(name), 0, out)

\* One entry.  An entry that does not fit is put back by decrementing the
\* cookie; the call then returns what it has, which is 0 also when there was
\* not even room for one.
GetdentsResume(p) ==
    LET c == fd[p][pc[p].h].cur
        r == nx_vfs_readdir(fs, cur[c].path, cur[c].cookie)
        full == r.rc = "OK" /\ Used(pc[p].out) + RecLen(r.name) > pc[p].room
    IN  /\ pc[p].at = "getdents"
        /\ IF r.rc = "OK" /\ ~full
           THEN /\ pc' = [pc EXCEPT ![p].out = Append(@, r.name)]
                /\ cur' = [cur EXCEPT ![c].cookie = r.cookie]
           ELSE /\ pc' = [pc EXCEPT ![p] = User]
                /\ cur' = [cur EXCEPT ![c].cookie = IF full THEN RewindCookie(r.cookie) ELSE @,
                                      ![c].seen = @ \o pc[p].out,
                                      ![c].done = pc[p].out = <<>>,
                                      ![c].cut = full /\ pc[p].out = <<>>]
        /\ UNCHANGED <<fs, fd, cwd>>

sys_mkdirat(p, path) ==
    /\ pc[p] = User
    /\ fs' = nx_vfs_mkdir(fs, path_make_absolute(cwd[p], path)).fs
    /\ UNCHANGED <<fd, cur, cwd, pc>>

sys_chdir(p, path) ==
    LET k == path_make_absolute(cwd[p], path)
    IN  /\ pc[p] = User /\ nx_vfs_stat(fs, k).kind = "DIR"
        /\ cwd' = [cwd EXCEPT ![p] = k]
        /\ UNCHANGED <<fs, fd, cur, pc>>

\* sys_fstatat: the kind of a path, or the Linux error.
sys_fstatat(f, k) ==
    LET st == nx_vfs_stat(f, k)
    IN  CASE st.kind = "NONE"            -> "ENOENT"
          [] st.kind \in {"FILE", "DIR"} -> st.kind
          [] OTHER                       -> "EINVAL"

\* sys_readdir, the older call, lists the root with a cookie that the program
\* keeps.
sys_readdir(f, cookie) == nx_vfs_readdir(f, Root, cookie)

Call(p) ==
    \/ \E a \in prog[p].open : sys_open(p, a[1], a[2])
    \/ \E path \in prog[p].mkdir : sys_mkdirat(p, path)
    \/ \E path \in prog[p].chdir : sys_chdir(p, path)
    \/ \E h \in Fds(p) :
          \/ "close"  \in prog[p].ops /\ sys_handle_close(p, h)
          \/ "dup"    \in prog[p].ops /\ sys_fcntl(p, h)
          \/ "read"   \in prog[p].ops /\ \E n \in Counts : sys_read(p, h, n)
          \/ "write"  \in prog[p].ops /\ \E n \in Counts : sys_write(p, h, n)
          \/ "seek"   \in prog[p].ops /\ \E s \in Seeks : sys_seek(p, h, s[1], s[2])
          \/ "readv"  \in prog[p].ops /\ \E v \in Vectors : sys_readv(p, h, v)
          \/ "writev" \in prog[p].ops /\ \E v \in Vectors : sys_writev(p, h, v)
          \/ "list"   \in prog[p].ops /\ \E r \in Rooms : sys_getdents64(p, h, r)

Resume(p) == OpenResume(p) \/ OpenUndo(p) \/ ReadvResume(p) \/ WritevResume(p) \/ GetdentsResume(p)

Next == UNCHANGED prog /\ \E p \in Procs : Call(p) \/ Resume(p)

Spec == Init /\ [][Next]_vars

(***************************************************************************)
(* Properties.                                                             *)
(***************************************************************************)
\* Every path that a process can name in the instance or that the archive
\* holds, and those above it.
Names ==
    LET dirs == {Root} \cup {path_make_absolute(Root, d) : d \in UNION {prog[p].chdir : p \in Procs}}
        args == UNION {{a[1] : a \in prog[p].open} \cup prog[p].mkdir : p \in Procs}
        whole == {path_make_absolute(d, a) : d \in dirs, a \in args} \cup {Archive[i].name : i \in 1..Len(Archive)}
    IN  UNION {{SubSeq(q, 1, n) : n \in 1..Len(q)} : q \in whole}

FileFds == {x \in UNION {{p} \X Fds(p) : p \in Procs} : fd[x[1]][x[2]].type = "FILE"}

DriverRefs(mount, id) ==
    IF mount = "filesystem.proc" THEN fs.proc[id].refs ELSE fs.ram.opens[id].refs

\* Three tables agree on who refers to what.  A slot of vfs_simple counts the
\* handles that name it, one under way in sys_open included; the slot of the
\* driver that it forwards to has the same count (close and retain are passed
\* on one by one), and a slot of a driver that is in use belongs to exactly one
\* slot of vfs_simple: dup, close and failed opens leak no slot and free none
\* early.
OpenChain ==
    /\ \A w \in 1..MaxWrap :
          fs.wrap[w].refs = Cardinality({x \in FileFds : fd[x[1]][x[2]].id = w})
                          + Cardinality({p \in Procs : pc[p].at = "undo" /\ pc[p].id = w})
    /\ \A w \in 1..MaxWrap : IsWrap(fs, w) =>
          DriverRefs(fs.wrap[w].mount, fs.wrap[w].driver_id) = fs.wrap[w].refs
    /\ \A v, w \in 1..MaxWrap : IsWrap(fs, v) /\ v # w =>
          <<fs.wrap[v].mount, fs.wrap[v].driver_id>> # <<fs.wrap[w].mount, fs.wrap[w].driver_id>>
    /\ Cardinality({i \in 1..MaxOpen : IsOpen(fs.ram, i)})
         + Cardinality({i \in 1..MaxProcOpen : IsProcOpen(fs.proc, i)})
       = Cardinality({w \in 1..MaxWrap : IsWrap(fs, w)})

\* A listing of a directory of the root file system, through any number of
\* getdents64 calls with buffers of any size, on any copy of the handle, and
\* whatever other processes create in it meanwhile, gives every name once, "."
\* and ".." first, and has left out none that was there at the open when a call
\* returns 0.  The exception is a call whose buffer cannot hold even the next
\* record: it returns 0 as well, and a later call with room goes on there.
ListingExact ==
    \A c \in Cursors \ Dangling(fd) :
        mount_for_path(cur[c].path) = "filesystem.root" =>
            /\ IsInjective(cur[c].seen)
            /\ IsPrefix(cur[c].seen, <<".", "..">>) \/ IsPrefix(<<".", "..">>, cur[c].seen)
            /\ cur[c].done /\ ~cur[c].cut => cur[c].due \cup {".", ".."} \subseteq Range(cur[c].seen)

\* What a program finds with stat it finds by listing the directory above it,
\* and the other way round: ramfs keeps whole paths and makes up the
\* directories above them in two different loops.  This is about paths that
\* fit into RAMFS_NAME_MAX: stat of a longer one finds the file whose name is
\* its beginning (ramfs.c:134), which no listing shows.
NamespaceConsistent ==
    LET listed == {sys_readdir(fs, c).name : c \in 0..MaxFiles+1}
    IN  \A q \in Names :
            mount_for_path(q) = "filesystem.root" /\ Len(q) <= NameMax =>
                (sys_fstatat(fs, q) # "ENOENT" <=>
                    Last(q) \in (IF Len(q) = 1 THEN listed ELSE Children(fs, Parent(q))))

\* A write through an open with O_APPEND adds to the file and overwrites
\* nothing, whoever else writes to it between two writes.
AppendOnly ==
    [][\A i \in 1..MaxOpen :
          LET o == fs.ram.opens[i]
          IN  "APPEND" \in o.flags /\ IsOpen(fs'.ram, i) /\ fs'.ram.opens[i].cursor # o.cursor =>
              IsPrefix(fs.ram.files[o.file].data, fs'.ram.files[o.file].data)]_vars
=============================================================================
