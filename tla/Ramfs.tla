------------------------------- MODULE Ramfs -------------------------------
(***************************************************************************)
(* components/ramfs: the table of files, the pool of opens and the nine    *)
(* operations of nx_fs_ops, as operators on the state of the component.    *)
(* Files are never removed, so the used slots of the table are a sequence. *)
(* An operation returns [s, rc], the new state and what the call returns.  *)
(***************************************************************************)
EXTENDS Paths, FiniteSets, FiniteSetsExt

CONSTANTS
    MaxFiles,    \* RAMFS_MAX_FILES
    MaxOpen,     \* RAMFS_MAX_OPEN
    NameMax,     \* RAMFS_NAME_MAX - 1, in segments
    FileCap      \* RAMFS_FILE_CAP

ASSUME RamfsAssumption == {MaxFiles, MaxOpen, NameMax, FileCap} \subseteq Nat \ {0}

FreeOpen == [file |-> 0, flags |-> {}, cursor |-> 0, refs |-> 0]

IsOpen(s, id) == id \in 1..MaxOpen /\ s.opens[id].refs > 0

Least(S) == IF S = {} THEN 0 ELSE Min(S)

\* ramfs_find compares RAMFS_NAME_MAX - 1 characters: a longer path finds the
\* file whose name is its beginning.
ramfs_find(s, p) ==
    Least({i \in 1..Len(s.files) : s.files[i].name = SubSeq(p, 1, Min({Len(p), NameMax}))})

Fits(s, p) == Len(p) \in 1..NameMax /\ Len(s.files) < MaxFiles

ramfs_create_entry(s, p, kind) ==
    [s EXCEPT !.files = Append(@, [name |-> p, kind |-> kind, data |-> <<>>])]

ramfs_alloc_open(s) == Least({i \in 1..MaxOpen : s.opens[i].refs = 0})

\* Mutant: only the directories made by mkdir count as children.
HasChildDir(s, p) ==
    \E i \in 1..Len(s.files) : s.files[i].kind = "DIR" /\ IsStrictPrefix(p, s.files[i].name)

HasChild(s, p) == \E i \in 1..Len(s.files) : IsStrictPrefix(p, s.files[i].name)

\* ramfs_classify: an entry with this very name decides; without one, a path
\* that is above some entry is a directory.
ramfs_classify(s, p) ==
    LET own == {i \in 1..Len(s.files) : s.files[i].name = p}
    IN  CASE p = Root        -> "DIR"
          [] own # {}        -> s.files[Min(own)].kind
          [] HasChild(s, p)  -> "DIR"
          [] OTHER           -> "NONE"

\* The file is created before a slot for the open is looked for, and stays
\* when there is none.
ramfs_op_open(s, p, flags) ==
    LET f  == ramfs_find(s, p)
        s1 == IF f = 0 THEN ramfs_create_entry(s, p, "FILE") ELSE s
        g  == IF f = 0 THEN Len(s1.files) ELSE f
        id == ramfs_alloc_open(s1)
        refused == \/ f # 0 /\ s.files[f].kind = "DIR"
                   \/ f = 0 /\ ~("CREATE" \in flags /\ Fits(s, p))
    IN  IF refused THEN [s |-> s, rc |-> 0]
        ELSE IF id = 0 THEN [s |-> s1, rc |-> 0]
        ELSE [s  |-> [s1 EXCEPT !.opens[id] =
                        [file |-> g, flags |-> flags, cursor |-> 0, refs |-> 1]],
              rc |-> id]

ramfs_op_close(s, id) ==
    IF ~IsOpen(s, id) THEN s
    ELSE IF s.opens[id].refs > 1 THEN [s EXCEPT !.opens[id].refs = @ - 1]
    ELSE [s EXCEPT !.opens[id] = FreeOpen]

ramfs_op_retain(s, id) ==
    IF IsOpen(s, id) THEN [s EXCEPT !.opens[id].refs = @ + 1] ELSE s

\* rc is the number of bytes, or an error.
ramfs_op_read(s, id, cap) ==
    LET op   == s.opens[id]
        data == s.files[op.file].data
        n    == Min({cap, Max({0, Len(data) - op.cursor})})
    IN  IF ~IsOpen(s, id) THEN [s |-> s, rc |-> NX_EINVAL]
        ELSE IF "READ" \notin op.flags THEN [s |-> s, rc |-> NX_EPERM]
        ELSE [s |-> [s EXCEPT !.opens[id].cursor = @ + n], rc |-> n]

\* Mutant: O_APPEND moves the cursor to the end only while it is at the start.
WriteAtOnce(op, data) == IF "APPEND" \in op.flags /\ op.cursor = 0 THEN Len(data) ELSE op.cursor

WriteAt(op, data) == IF "APPEND" \in op.flags THEN Len(data) ELSE op.cursor

\* One byte b, written len times.
ramfs_op_write(s, id, b, len) ==
    LET op   == s.opens[id]
        data == s.files[op.file].data
        at   == WriteAt(op, data)
        n    == Min({len, Max({0, FileCap - at})})
        new  == [k \in 1..Max({at + n, Len(data)}) |->
                    IF k \in at+1..at+n THEN b ELSE data[k]]
    IN  IF ~IsOpen(s, id) THEN [s |-> s, rc |-> NX_EINVAL]
        ELSE IF "WRITE" \notin op.flags THEN [s |-> s, rc |-> NX_EPERM]
        ELSE IF n = 0 THEN [s |-> [s EXCEPT !.opens[id].cursor = at], rc |-> NX_ENOMEM]
        ELSE [s  |-> [s EXCEPT !.opens[id].cursor = at + n, !.files[op.file].data = new],
              rc |-> n]

ramfs_op_seek(s, id, offset, whence) ==
    LET op   == s.opens[id]
        size == Len(s.files[op.file].data)
        pos  == offset + CASE whence = "SET" -> 0
                           [] whence = "CUR" -> op.cursor
                           [] whence = "END" -> size
    IN  IF ~IsOpen(s, id) \/ pos \notin 0..size THEN [s |-> s, rc |-> NX_EINVAL]
        ELSE [s |-> [s EXCEPT !.opens[id].cursor = pos], rc |-> pos]

\* ramfs_match_child: the name below dir that entry i belongs to, or "".
ramfs_match_child(s, i, dir) ==
    LET name == s.files[i].name
    IN  IF IsStrictPrefix(dir, name) THEN name[Len(dir) + 1] ELSE ""

\* Entry i is the first of the table for its child of dir.
Fresh(s, dir, i) ==
    /\ ramfs_match_child(s, i, dir) # ""
    /\ \A j \in 1..i-1 : ramfs_match_child(s, j, dir) # ramfs_match_child(s, i, dir)

\* Cookies 0 and 1 are "." and "..", cookie i + 1 is entry i.
ramfs_op_readdir(s, dir, cookie) ==
    LET next == Least({i \in cookie-1..Len(s.files) : Fresh(s, dir, i)})
    IN  CASE cookie = 0 -> [rc |-> "OK", cookie |-> 1, name |-> "."]
          [] cookie = 1 -> [rc |-> "OK", cookie |-> 2, name |-> ".."]
          [] OTHER      -> IF next = 0
                           THEN [rc |-> "ENOENT", cookie |-> MaxFiles + 2, name |-> ""]
                           ELSE [rc |-> "OK", cookie |-> next + 2,
                                 name |-> ramfs_match_child(s, next, dir)]

ramfs_op_mkdir(s, p) ==
    CASE p = Root -> [s |-> s, rc |-> "EINVAL"]
      [] p # Root /\ (ramfs_find(s, p) # 0 \/ ramfs_classify(s, p) = "DIR")
                  -> [s |-> s, rc |-> "EEXIST"]
      [] p # Root /\ ramfs_find(s, p) = 0 /\ ramfs_classify(s, p) # "DIR" ->
             IF Fits(s, p) THEN [s |-> ramfs_create_entry(s, p, "DIR"), rc |-> "OK"]
             ELSE [s |-> s, rc |-> "ENOMEM"]

\* [kind, size], or kind "NONE" for ENOENT.
ramfs_op_stat(s, p) ==
    LET f == ramfs_find(s, p)
    IN  CASE p = Root -> [kind |-> "DIR", size |-> 0]
          [] p # Root /\ f # 0 -> [kind |-> s.files[f].kind, size |-> Len(s.files[f].data)]
          [] p # Root /\ f = 0 ->
                 [kind |-> IF HasChild(s, p) THEN "DIR" ELSE "NONE", size |-> 0]

\* ramfs_slurp_initramfs: the regular files of a cpio archive, up to its
\* trailer or the first header that makes no sense; names are cut to what
\* fits, larger files and those past the table are dropped.
ramfs_slurp_initramfs(s, archive) ==
    LET stop == Least({i \in 1..Len(archive) : archive[i].mode \in {"trailer", "bad"}})
        used == IF stop = 0 THEN archive ELSE SubSeq(archive, 1, stop - 1)
    IN  FoldLeft(LAMBDA t, e :
                     LET p == SubSeq(e.name, 1, Min({Len(e.name), NameMax}))
                     IN  IF e.mode = "reg" /\ Len(e.data) <= FileCap /\ Fits(t, p)
                         THEN [ramfs_create_entry(t, p, "FILE")
                                 EXCEPT !.files[Len(t.files) + 1].data = e.data]
                         ELSE t,
                 s, used)

\* ramfs_init, with the archive linked into the kernel.
ramfs_init(archive) ==
    ramfs_slurp_initramfs([files |-> <<>>, opens |-> [id \in 1..MaxOpen |-> FreeOpen]], archive)
=============================================================================
