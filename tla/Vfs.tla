-------------------------------- MODULE Vfs --------------------------------
(***************************************************************************)
(* What one message to the vfs slot does: components/vfs_simple, with its  *)
(* table of opens, over the file systems it forwards to by direct calls    *)
(* (framework/fs_call.c), ramfs at / and procfs at /proc.  The dispatcher  *)
(* thread handles one message at a time, so a message is one step.         *)
(*                                                                         *)
(* fs is [wrap, ram, proc, ptab, active]: g_vfs_simple_opens, the state    *)
(* of the two file systems, the table of processes that procfs reads, and  *)
(* the mounts whose slot is bound.  A call returns [fs, rc].               *)
(***************************************************************************)
EXTENDS Ramfs, Procfs

CONSTANT MaxWrap     \* VFS_SIMPLE_MAX_OPEN

ASSUME VfsAssumption == MaxWrap \in Nat \ {0}

FreeWrap == [mount |-> "none", driver_id |-> 0, refs |-> 0]

(***************************************************************************)
(* The calls of fs_call.c.                                                 *)
(***************************************************************************)
\* nx_fs_dispatch runs the operation that a message names in the component the
\* slot of the mount is bound to: ram and proc are what it does in each.
nx_fs_dispatch(fs, mount, ram, proc) ==
    IF mount = "filesystem.proc" THEN [fs |-> [fs EXCEPT !.proc = proc.s], rc |-> proc.rc]
    ELSE [fs |-> [fs EXCEPT !.ram = ram.s], rc |-> ram.rc]

\* disp_resolve: with nothing bound to the slot the call returns at once.
disp_resolve(fs, mount, ram, proc, unbound) ==
    IF mount \in fs.active THEN nx_fs_dispatch(fs, mount, ram, proc)
    ELSE [fs |-> fs, rc |-> unbound]

nx_fs_open(fs, mount, path, flags) ==
    disp_resolve(fs, mount, ramfs_op_open(fs.ram, path, flags),
                 procfs_op_open(fs.proc, nx_process_for_each(fs.ptab), path, flags), 0)

nx_fs_close(fs, mount, id) ==
    disp_resolve(fs, mount, [s |-> ramfs_op_close(fs.ram, id), rc |-> 0],
                 [s |-> procfs_op_close(fs.proc, id), rc |-> 0], 0).fs

nx_fs_retain(fs, mount, id) ==
    disp_resolve(fs, mount, [s |-> ramfs_op_retain(fs.ram, id), rc |-> 0],
                 [s |-> procfs_op_retain(fs.proc, id), rc |-> 0], 0).fs

nx_fs_read(fs, mount, id, cap) ==
    disp_resolve(fs, mount, ramfs_op_read(fs.ram, id, cap),
                 procfs_op_read(fs.proc, id, cap), NX_EINVAL)

nx_fs_write(fs, mount, id, byte, len) ==
    disp_resolve(fs, mount, ramfs_op_write(fs.ram, id, byte, len),
                 procfs_op_write(fs.proc), NX_EINVAL)

nx_fs_seek(fs, mount, id, offset, whence) ==
    disp_resolve(fs, mount, ramfs_op_seek(fs.ram, id, offset, whence),
                 procfs_op_seek(fs.proc, id, offset, whence), NX_EINVAL)

nx_fs_readdir(fs, mount, path, cookie) ==
    disp_resolve(fs, mount, [s |-> fs.ram, rc |-> ramfs_op_readdir(fs.ram, path, cookie)],
                 [s |-> fs.proc, rc |-> procfs_op_readdir(nx_process_for_each(fs.ptab), path, cookie)],
                 [rc |-> "EINVAL", cookie |-> cookie, name |-> ""])

nx_fs_mkdir(fs, mount, path) ==
    disp_resolve(fs, mount, ramfs_op_mkdir(fs.ram, path), procfs_op_mkdir(fs.proc), "EINVAL")

nx_fs_stat(fs, mount, path) ==
    disp_resolve(fs, mount, [s |-> fs.ram, rc |-> ramfs_op_stat(fs.ram, path)],
                 [s |-> fs.proc, rc |-> procfs_op_stat(nx_process_for_each(fs.ptab), path)],
                 [kind |-> "EINVAL", size |-> 0])

(***************************************************************************)
(* vfs_simple.                                                             *)
(***************************************************************************)
mount_for_path(p) ==
    IF p # Root /\ p[1] = "proc" THEN "filesystem.proc" ELSE "filesystem.root"

IsWrap(fs, id) == id \in 1..MaxWrap /\ fs.wrap[id].refs > 0

vfs_simple_alloc_wrapper(fs) == Least({i \in 1..MaxWrap : fs.wrap[i].refs = 0})

vfs_simple_open(fs, path, flags) ==
    LET mount == mount_for_path(path)
        w == vfs_simple_alloc_wrapper(fs)
        r == nx_fs_open(fs, mount, path, flags)
    IN  IF w = 0 THEN [fs |-> fs, rc |-> 0]
        ELSE IF r.rc = 0 THEN r
        ELSE [fs |-> [r.fs EXCEPT !.wrap[w] =
                         [mount |-> mount, driver_id |-> r.rc, refs |-> 1]],
              rc |-> w]

\* Every close and every retain is passed on to the driver, which keeps a
\* count of its own.
vfs_simple_close(fs, id) ==
    LET w == fs.wrap[id]
        f == nx_fs_close(fs, w.mount, w.driver_id)
    IN  IF ~IsWrap(fs, id) THEN fs
        ELSE IF w.refs > 1 THEN [f EXCEPT !.wrap[id].refs = @ - 1]
        ELSE [f EXCEPT !.wrap[id] = FreeWrap]

\* Mutant: the driver counts the new reference, the wrapper does not.
RetainDriverOnly(fs, id) ==
    LET w == fs.wrap[id]
    IN  IF ~IsWrap(fs, id) \/ w.mount \notin fs.active THEN fs
        ELSE nx_fs_retain(fs, w.mount, w.driver_id)

vfs_simple_retain(fs, id) ==
    LET w == fs.wrap[id]
    IN  IF ~IsWrap(fs, id) \/ w.mount \notin fs.active THEN fs
        ELSE [nx_fs_retain(fs, w.mount, w.driver_id) EXCEPT !.wrap[id].refs = @ + 1]

vfs_simple_read(fs, id, cap) ==
    IF ~IsWrap(fs, id) THEN [fs |-> fs, rc |-> NX_EINVAL]
    ELSE nx_fs_read(fs, fs.wrap[id].mount, fs.wrap[id].driver_id, cap)

vfs_simple_write(fs, id, byte, len) ==
    IF ~IsWrap(fs, id) THEN [fs |-> fs, rc |-> NX_EINVAL]
    ELSE nx_fs_write(fs, fs.wrap[id].mount, fs.wrap[id].driver_id, byte, len)

vfs_simple_seek(fs, id, offset, whence) ==
    IF ~IsWrap(fs, id) THEN [fs |-> fs, rc |-> NX_EINVAL]
    ELSE nx_fs_seek(fs, fs.wrap[id].mount, fs.wrap[id].driver_id, offset, whence)

vfs_simple_readdir(fs, path, cookie) == nx_fs_readdir(fs, mount_for_path(path), path, cookie)

vfs_simple_mkdir(fs, path) == nx_fs_mkdir(fs, mount_for_path(path), path)

vfs_simple_stat(fs, path) == nx_fs_stat(fs, mount_for_path(path), path)

(***************************************************************************)
(* nx_vfs_dispatch, and the calls by which a task reaches it.              *)
(***************************************************************************)
nx_vfs_dispatch(fs, m) ==
    CASE m.op = "open"    -> vfs_simple_open(fs, m.path, m.flags)
      [] m.op = "close"   -> [fs |-> vfs_simple_close(fs, m.id), rc |-> 0]
      [] m.op = "retain"  -> [fs |-> vfs_simple_retain(fs, m.id), rc |-> 0]
      [] m.op = "read"    -> vfs_simple_read(fs, m.id, m.cap)
      [] m.op = "write"   -> vfs_simple_write(fs, m.id, m.byte, m.len)
      [] m.op = "seek"    -> vfs_simple_seek(fs, m.id, m.offset, m.whence)
      [] m.op = "readdir" -> vfs_simple_readdir(fs, m.path, m.cookie)
      [] m.op = "mkdir"   -> vfs_simple_mkdir(fs, m.path)
      [] m.op = "stat"    -> vfs_simple_stat(fs, m.path)

nx_vfs_open(fs, path, flags) ==
    nx_vfs_dispatch(fs, [op |-> "open", path |-> path, flags |-> flags])

nx_vfs_close(fs, id) == nx_vfs_dispatch(fs, [op |-> "close", id |-> id]).fs

nx_vfs_retain(fs, id) == nx_vfs_dispatch(fs, [op |-> "retain", id |-> id]).fs

nx_vfs_read(fs, id, cap) == nx_vfs_dispatch(fs, [op |-> "read", id |-> id, cap |-> cap])

nx_vfs_write(fs, id, byte, len) ==
    nx_vfs_dispatch(fs, [op |-> "write", id |-> id, byte |-> byte, len |-> len])

nx_vfs_seek(fs, id, offset, whence) ==
    nx_vfs_dispatch(fs, [op |-> "seek", id |-> id, offset |-> offset, whence |-> whence])

\* The cookie of the caller moves only when an entry was found.
nx_vfs_readdir(fs, path, cookie) ==
    LET r == nx_vfs_dispatch(fs, [op |-> "readdir", path |-> path, cookie |-> cookie]).rc
    IN  IF r.rc = "OK" THEN r ELSE [r EXCEPT !.cookie = cookie]

nx_vfs_mkdir(fs, path) == nx_vfs_dispatch(fs, [op |-> "mkdir", path |-> path])

nx_vfs_stat(fs, path) == nx_vfs_dispatch(fs, [op |-> "stat", path |-> path]).rc
=============================================================================
