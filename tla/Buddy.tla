------------------------------- MODULE Buddy -------------------------------
(* mm_buddy's free lists, components/mm_buddy/mm_buddy.c.  A block is its    *)
(* first page relative to the pool; lists[o] is the free list of order o.    *)
EXTENDS Integers, Sequences, SequencesExt, FiniteSetsExt

CONSTANTS PoolOrder   \* MM_BUDDY_POOL_ORDER

ASSUME BuddyAssumption == PoolOrder \in Nat

Orders == 0 .. PoolOrder

seed_lists == [o \in Orders |-> IF o = PoolOrder THEN <<0>> ELSE <<>>]

free_list_push(lists, o, b) == [lists EXCEPT ![o] = <<b>> \o @]

free_list_remove(lists, o, b) == [lists EXCEPT ![o] = RemoveFirst(@, b)]

\* The smallest order with a free block that serves a request for o.
fitting(lists, o) == {f \in o .. PoolOrder : lists[f] # <<>>}

\* The upper halves of the splits from order f down to o go on their lists.
split(lists, b, f, o) ==
    [x \in Orders |-> IF o <= x /\ x < f THEN <<b + 2^x>> \o lists[x] ELSE lists[x]]

take(lists, f, o) == [block |-> Head(lists[f]),
                      lists |-> split([lists EXCEPT ![f] = Tail(@)], Head(lists[f]), f, o)]

\* mm_buddy_alloc_pages when some order fits (it returns NULL otherwise).
alloc_pages(lists, o) == take(lists, Min(fitting(lists, o)), o)

\* addr XOR block_size, relative to the pool.
buddy_of(b, o) == IF (b \div 2^o) % 2 = 0 THEN b + 2^o ELSE b - 2^o

\* A mutant: the buddy is merged without leaving its own free list.
RECURSIVE MergeListed(_, _, _)
MergeListed(lists, b, o) ==
    IF o < PoolOrder /\ Contains(lists[o], buddy_of(b, o))
    THEN MergeListed(lists, Min({b, buddy_of(b, o)}), o + 1)
    ELSE free_list_push(lists, o, b)

\* mm_buddy_free_pages: coalesce while the buddy is on its free list.
RECURSIVE free_pages(_, _, _)
free_pages(lists, b, o) ==
    IF o < PoolOrder /\ Contains(lists[o], buddy_of(b, o))
    THEN free_pages(free_list_remove(lists, o, buddy_of(b, o)),
                    Min({b, buddy_of(b, o)}), o + 1)
    ELSE free_list_push(lists, o, b)
=============================================================================
