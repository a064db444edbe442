----------------------------- MODULE HandleTable -----------------------------
(***************************************************************************)
(* The per-process handle table (framework/handle.c).  A table is a        *)
(* function from slot index to entry; its operations are pure, and the     *)
(* modules that own a table apply them.  An operation that can fail        *)
(* returns a result, "OK" or the error's name.                             *)
(***************************************************************************)
EXTENDS Integers, FiniteSets, FiniteSetsExt

CONSTANTS
    NSlots,      \* NX_HANDLE_TABLE_CAPACITY
    IndexSpan,   \* 2^8: the low bits of a handle hold the slot index + 1
    HandleGens,  \* 2^24: the generations a handle can carry
    NoObj        \* NULL

ASSUME HandleTableAssumption ==
    NSlots \in Nat \ {0} /\ IndexSpan \in Nat /\ IndexSpan > NSlots /\ HandleGens \in Nat \ {0}

Idx == 0 .. NSlots - 1

\* NX_HANDLE_INVALID as a value, and as the type of a free entry.
NoHandle  == 0
FreeEntry(g) == [type |-> "INVALID", rights |-> {}, obj |-> NoObj, gen |-> g]
IsLive(t, i) == t[i].type # "INVALID"
LiveIdx(t)   == {i \in Idx : IsLive(t, i)}

\* handle_encode keeps the low 24 bits of the entry's 32-bit generation.
Encode(g, i) == (g % HandleGens) * IndexSpan + i + 1

\* handle_decode: -1 when the index field is zero or past the table.
DecodeIdx(h) ==
    LET i == (h % IndexSpan) - 1 IN IF i \in Idx THEN i ELSE -1
DecodeGen(h) == h \div IndexSpan

\* entry_get: the checks nx_handle_lookup, _close and _duplicate share.
Resolve(t, h) ==
    IF DecodeIdx(h) = -1 THEN "EINVAL"
    ELSE IF ~IsLive(t, DecodeIdx(h)) \/ t[DecodeIdx(h)].gen # DecodeGen(h) THEN "ENOENT"
    ELSE "OK"

\* The first free slot, -1 when the table is full (NX_ENOMEM).
FirstFree(t) == IF LiveIdx(t) = Idx THEN -1 ELSE Min(Idx \ LiveIdx(t))

\* nx_handle_alloc and nx_handle_alloc_resource fill the first free slot.
Install(t, i, ty, rights, obj) ==
    [t EXCEPT ![i] = [type |-> ty, rights |-> rights, obj |-> obj, gen |-> @.gen]]

\* nx_handle_close: the entry is freed and its generation bumped.
CloseIdx(t, i) == [t EXCEPT ![i] = FreeEntry(@.gen + 1)]

\* nx_handle_table_invalidate_for_slot, on one table: the entries in D, those
\* whose target is the slot that was rebound, die in place.
Invalidate(t, D) == [i \in Idx |-> IF i \in D THEN FreeEntry(t[i].gen + 1) ELSE t[i]]
=============================================================================
