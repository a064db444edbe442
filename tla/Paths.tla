------------------------------- MODULE Paths -------------------------------
(***************************************************************************)
(* Paths of the file system calls (framework/syscall.c).  An absolute,     *)
(* normalised path is a sequence of names, the root the empty one.  What a *)
(* program passes is [abs, segs]: whether it begins with a slash, and its  *)
(* segments, "." and ".." among them.  Every name counts as one unit of    *)
(* length: NX_PATH_MAX and RAMFS_NAME_MAX become bounds on segments.       *)
(***************************************************************************)
EXTENDS Sequences, SequencesExt, Integers

CONSTANT PathMax     \* NX_PATH_MAX, in segments

ASSUME PathMaxAssumption == PathMax \in Nat \ {0}

\* Errors are negative numbers (framework/registry.h).
NX_EINVAL == -1
NX_ENOMEM == -2
NX_EPERM == -10

Root == <<>>

Parent(p) == SubSeq(p, 1, Len(p) - 1)

Cut(segs) == SubSeq(segs, 1, IF Len(segs) < PathMax THEN Len(segs) ELSE PathMax)

\* path_normalize: stk holds where each kept segment begins, so ".." drops the
\* last kept one and stops at the root.
path_normalize(segs) ==
    FoldLeft(LAMBDA out, seg :
                 CASE seg = "."  -> out
                   [] seg = ".." -> IF out = Root THEN out ELSE Parent(out)
                   [] OTHER      -> Append(out, seg),
             Root, segs)

\* path_make_absolute: the buffer that cwd and a relative path are joined in
\* has NX_PATH_MAX bytes, and is cut before the normalisation.
path_make_absolute(cwd, path) ==
    path_normalize(IF path.abs THEN path.segs ELSE Cut(cwd \o path.segs))
=============================================================================
