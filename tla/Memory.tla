------------------------------- MODULE Memory ------------------------------
(* The memory stack: kernel threads allocate and free kernel stacks straight *)
(* from the page allocator (core/sched/task.c), address spaces come and go   *)
(* on the kernel heap (core/mmu/mmu.c), and mm_buddy carves a pool it takes  *)
(* from the heap.  The threads are preemptible, so every atomic access of    *)
(* pmm.c is a step of its own; the address-space calls come from system      *)
(* calls, which run with interrupts masked, and are one step each.           *)
EXTENDS Kheap, Buddy

CONSTANTS Threads,      \* kernel threads that create and destroy tasks
          StackPages,   \* the stack sizes they ask for
          MaxSpaces,    \* MMU_MAX_ADDRESS_SPACES
          BlockPages,   \* USER_BLOCK_SIZE, in pages
          WindowPages,  \* USER_WINDOW_SIZE, in pages
          Loads         \* which actors a behaviour has: sets of threads,
                        \* "space" and "pool"

ASSUME MemoryAssumption ==
    /\ StackPages \subseteq Nat \ {0}
    /\ BlockPages \in Nat \ {0} /\ WindowPages \in Nat \ {0}

VARIABLES h,       \* the heap, with the page allocator in h.g
          th,      \* where each thread is in its pmm call
          spaces,  \* g_mmu_spaces
          pool,    \* mm_buddy's state and the blocks its clients hold
          load     \* the actors of this behaviour

vars == <<h, th, spaces, pool, load>>

Idle == [pc |-> "idle", n |-> 0, i |-> 0, k |-> 0, j |-> 0]
NoSpace == [l1 |-> NULL, l2 |-> NULL, raw |-> NULL, user |-> NULL]
NoPool == [base |-> NULL, lists |-> [o \in Orders |-> <<>>], held |-> {}]

Init ==
    /\ load \in Loads
    /\ h = HeapInit(pmm_reserve_range(pmm_init))
    /\ th = [t \in Threads |-> Idle]
    /\ spaces = [s \in 1 .. MaxSpaces |-> NoSpace]
    /\ pool = NoPool

---------------------------------------------------------------------------
(* Kernel stacks.  th[t].i is the index of the page or run in question, k   *)
(* the pages probed or claimed so far, j the pages released so far.         *)

At(t, pc) == t \in load /\ th[t].pc = pc

Step(t, rec) == th' = [th EXCEPT ![t] = rec] /\ UNCHANGED <<spaces, pool, load>>

Touch(t, g, rec) == h' = [h EXCEPT !.g = g] /\ Step(t, rec)

Walk(t, rec) == Step(t, rec) /\ UNCHANGED h

\* alloc_kstack calls pmm_alloc_pages, which hands a single page to
\* pmm_alloc_page: that one loads the hint first.
AllocStart(t, n) ==
    /\ At(t, "idle")
    /\ Walk(t, IF n = 1
               THEN [Idle EXCEPT !.pc = "page", !.n = n, !.i = scan_start(h.g)]
               ELSE IF n > g_total - g_reserved THEN Idle
               ELSE [Idle EXCEPT !.pc = "run", !.n = n, !.i = g_reserved])

\* pmm_alloc_page: one bit_test of the scan, then try_claim.
PageProbe(t) ==
    /\ At(t, "page")
    /\ LET i == scan_page(th[t].i, th[t].k)
       IN Walk(t, IF th[t].k = g_total THEN Idle
                  ELSE IF i < g_reserved \/ i \in h.g.bits
                  THEN [th[t] EXCEPT !.k = @ + 1]
                  ELSE [th[t] EXCEPT !.pc = "page_claim"])

\* A mutant: the page is taken on the strength of the earlier bit_test.
ClaimUntested(t) ==
    /\ At(t, "page_claim")
    /\ LET i == scan_page(th[t].i, th[t].k)
       IN Touch(t, [h.g EXCEPT !.bits = @ \cup {i}],
                [th[t] EXCEPT !.pc = "hint", !.i = i, !.k = 1])

PageClaim(t) ==
    /\ At(t, "page_claim")
    /\ LET i == scan_page(th[t].i, th[t].k)
       IN IF i \in h.g.bits THEN Walk(t, [th[t] EXCEPT !.pc = "page", !.k = @ + 1])
          ELSE Touch(t, [h.g EXCEPT !.bits = @ \cup {i}],
                     [th[t] EXCEPT !.pc = "hint", !.i = i, !.k = 1])

\* pmm_alloc_pages: the search for a run that looks free, one bit_test a step.
RunProbe(t) ==
    /\ At(t, "run")
    /\ Walk(t, IF th[t].i + th[t].n > g_total THEN Idle
               ELSE IF th[t].i + th[t].k \in h.g.bits
               THEN [th[t] EXCEPT !.i = @ + th[t].k + 1, !.k = 0]
               ELSE IF th[t].k + 1 < th[t].n THEN [th[t] EXCEPT !.k = @ + 1]
               ELSE [th[t] EXCEPT !.pc = "claim", !.k = 0])

\* One try_claim of the run; on a failure what was claimed is rolled back.
RunClaim(t) ==
    /\ At(t, "claim")
    /\ LET i == th[t].i + th[t].k
       IN IF i \in h.g.bits THEN Walk(t, [th[t] EXCEPT !.pc = "rollback"])
          ELSE Touch(t, [h.g EXCEPT !.bits = @ \cup {i}],
                     [th[t] EXCEPT !.k = @ + 1,
                                   !.pc = IF th[t].k + 1 = th[t].n THEN "hint" ELSE @])

\* A mutant: the rollback gives pages back through pmm_free_pages' count.
RollbackCounts(t) ==
    /\ At(t, "rollback")
    /\ IF th[t].j < th[t].k
       THEN Touch(t, [h.g EXCEPT !.bits = @ \ {th[t].i + th[t].j},
                                 !.free = (@ + 1) % WordMod],
                  [th[t] EXCEPT !.j = @ + 1])
       ELSE Walk(t, [th[t] EXCEPT !.pc = "run", !.i = @ + th[t].k + 1,
                                  !.k = 0, !.j = 0])

RunRollback(t) ==
    /\ At(t, "rollback")
    /\ IF th[t].j < th[t].k
       THEN Touch(t, [h.g EXCEPT !.bits = @ \ {th[t].i + th[t].j}],
                  [th[t] EXCEPT !.j = @ + 1])
       ELSE Walk(t, [th[t] EXCEPT !.pc = "run", !.i = @ + th[t].k + 1,
                                  !.k = 0, !.j = 0])

\* Both allocators end alike: store the hint, then lower the count.
StoreHint(t) ==
    /\ At(t, "hint")
    /\ Touch(t, [h.g EXCEPT !.hint = th[t].i + th[t].n], [th[t] EXCEPT !.pc = "sub"])

CountDown(t) ==
    /\ At(t, "sub")
    /\ Touch(t, [h.g EXCEPT !.free = (@ - th[t].n) % WordMod],
             [th[t] EXCEPT !.pc = "held", !.k = 0])

\* free_kstack: pmm_free_pages releases page by page, then raises the count,
\* then lowers the hint.
FreeStep(t) ==
    /\ At(t, "held")
    /\ Touch(t, [h.g EXCEPT !.bits = @ \ {th[t].i + th[t].j}],
             [th[t] EXCEPT !.j = @ + 1,
                           !.pc = IF th[t].j + 1 = th[t].n THEN "add" ELSE @])

CountUp(t) ==
    /\ At(t, "add")
    /\ Touch(t, [h.g EXCEPT !.free = (@ + th[t].n) % WordMod],
             [th[t] EXCEPT !.pc = "unhint"])

LowerHint(t) ==
    /\ At(t, "unhint")
    /\ Touch(t, [h.g EXCEPT !.hint = th[t].i], Idle)

---------------------------------------------------------------------------
(* Address spaces: two page-table pages and a backing with one block of     *)
(* alignment slack, three heap allocations that are undone on failure.      *)

\* The first block boundary, in bytes, at or after the raw allocation.
align_block(raw) ==
    LET block == BlockPages * PageSize
        pa == g_base + raw * PageSize
    IN (((pa + block - 1) \div block) * block - g_base) \div PageSize

Made(hp, l1, l2, raw) ==
    [h |-> hp, space |-> [l1 |-> l1, l2 |-> l2, raw |-> raw, user |-> align_block(raw)]]

Unmade(hp) == [h |-> hp, space |-> NoSpace]

WithBacking(l1, l2, c) ==
    IF c.p = NULL THEN Unmade(free(free(c.h, l1), l2)) ELSE Made(c.h, l1, l2, c.p)

WithTables(l1, b) ==
    IF l1 = NULL \/ b.p = NULL THEN Unmade(free(free(b.h, l1), b.p))
    ELSE WithBacking(l1, b.p, malloc(b.h, WindowPages + BlockPages))

WithL1(a) == WithTables(a.p, malloc(a.h, 1))

alloc_space_slot == {s \in DOMAIN spaces : spaces[s] = NoSpace}

mmu_create_address_space ==
    /\ "space" \in load /\ alloc_space_slot # {}
    /\ \E r \in {WithL1(malloc(h, 1))} :
          /\ h' = r.h
          /\ spaces' = [spaces EXCEPT ![Min(alloc_space_slot)] = r.space]
    /\ UNCHANGED <<th, pool, load>>

FreeSpace(s) == free(free(free(h, spaces[s].l1), spaces[s].l2), spaces[s].raw)

mmu_destroy_address_space(s) ==
    /\ "space" \in load /\ spaces[s] # NoSpace
    /\ h' = FreeSpace(s)
    /\ spaces' = [spaces EXCEPT ![s] = NoSpace]
    /\ UNCHANGED <<th, pool, load>>

---------------------------------------------------------------------------
(* mm_buddy.  Its handlers run one at a time on the dispatcher thread; init  *)
(* and destroy are the component's lifecycle operations.  A client frees a   *)
(* block it holds, with the order it asked for.                              *)

PoolUnchanged == UNCHANGED <<th, spaces, load>>

mm_buddy_init ==
    /\ "pool" \in load /\ pool.base = NULL
    /\ \E r \in {malloc(h, 2^PoolOrder)} :
          /\ h' = r.h
          /\ pool' = IF r.p = NULL THEN pool
                     ELSE [base |-> r.p, lists |-> seed_lists, held |-> {}]
    /\ PoolUnchanged

mm_buddy_destroy ==
    /\ pool.base # NULL
    /\ h' = free(h, pool.base)
    /\ pool' = NoPool
    /\ PoolUnchanged

mm_buddy_alloc_pages(o) ==
    /\ pool.base # NULL /\ fitting(pool.lists, o) # {}
    /\ \E r \in {alloc_pages(pool.lists, o)} :
          pool' = [pool EXCEPT !.lists = r.lists, !.held = @ \cup {<<r.block, o>>}]
    /\ UNCHANGED h /\ PoolUnchanged

mm_buddy_free_pages(b) ==
    /\ pool.base # NULL
    /\ pool' = [pool EXCEPT !.lists = free_pages(@, b[1], b[2]), !.held = @ \ {b}]
    /\ UNCHANGED h /\ PoolUnchanged

---------------------------------------------------------------------------
Stack(t) ==
    \/ \E n \in StackPages : AllocStart(t, n)
    \/ PageProbe(t) \/ PageClaim(t)
    \/ RunProbe(t) \/ RunClaim(t) \/ RunRollback(t)
    \/ StoreHint(t) \/ CountDown(t)
    \/ FreeStep(t) \/ CountUp(t) \/ LowerHint(t)

Next ==
    \/ \E t \in Threads : Stack(t)
    \/ mmu_create_address_space
    \/ \E s \in DOMAIN spaces : mmu_destroy_address_space(s)
    \/ mm_buddy_init
    \/ mm_buddy_destroy
    \/ \E o \in Orders : mm_buddy_alloc_pages(o)
    \/ \E b \in pool.held : mm_buddy_free_pages(b)

Spec == Init /\ [][Next]_vars

---------------------------------------------------------------------------
\* The pages a thread has claimed: part of a run, a stack, or what of either
\* is not released yet.
Claimed(t) ==
    LET r == th[t]
    IN CASE r.pc = "claim" -> Run(r.i, r.k)
         [] r.pc \in {"hint", "sub"} -> Run(r.i, r.n)
         [] r.pc = "rollback" -> Run(r.i, r.k) \ Run(r.i, r.j)
         [] r.pc = "held" -> Run(r.i, r.n) \ Run(r.i, r.j)
         [] OTHER -> {}

\* Every owner of pages, each with the pages it owns.
Regions ==
    {<<"slab", i, {i}>> : i \in h.slabs}
    \cup {<<"l1", s, {spaces[s].l1}>> : s \in {x \in DOMAIN spaces : spaces[x] # NoSpace}}
    \cup {<<"l2", s, {spaces[s].l2}>> : s \in {x \in DOMAIN spaces : spaces[x] # NoSpace}}
    \cup {<<"raw", s, Run(spaces[s].raw, WindowPages + BlockPages)>> :
             s \in {x \in DOMAIN spaces : spaces[x] # NoSpace}}
    \cup {<<"pool", 0, Run(pool.base, 2^PoolOrder)>> : p \in {pool.base} \ {NULL}}
    \cup {<<"stack", t, Claimed(t)>> : t \in Threads}
    \cup {<<"fixed", 0, (0 .. g_reserved - 1) \cup reserve_pages>>}

\* Every page has one owner and no page is lost: the bitmap and the reserved
\* user window, the slab pages, the live address spaces, mm_buddy's pool and
\* what the threads' interrupted calls have claimed are disjoint, and
\* together they are exactly the pages whose bit is set.  pmm.h says alloc
\* and free need no locking; the heap and mmu.c undo what a failed call took.
PagesAccounted ==
    /\ \A r, q \in Regions : r # q => r[3] \cap q[3] = {}
    /\ UNION {r[3] : r \in Regions} = h.g.bits

\* g_free is the number of clear bits, but for what the calls in progress
\* have claimed and not yet subtracted or released and not yet added; it is
\* exact whenever no call is in progress, and it may wrap below zero for the
\* moment between another thread's release and its addition.
FreeCountExact ==
    LET owed(t) == IF th[t].pc \in {"claim", "rollback", "hint", "sub"}
                   THEN Cardinality(Claimed(t))
                   ELSE CASE th[t].pc = "held" -> -th[t].j
                          [] th[t].pc = "add" -> -th[t].n
                          [] OTHER -> 0
    IN h.g.free = (g_total - Cardinality(h.g.bits) + MapThenSumSet(owed, Threads)) % WordMod

\* mm_buddy's free blocks and the blocks its clients hold tile the pool, and
\* no two free buddies are left apart: a block freed in any order is merged
\* as far as it can be, so the pool is one block again once all are back.
BuddyWhole ==
    LET Free == UNION {{<<pool.lists[o][x], o>> : x \in DOMAIN pool.lists[o]} : o \in Orders}
        All == Free \cup pool.held
        Listed == FoldSet(LAMBDA o, a : a + Len(pool.lists[o]), 0, Orders)
    IN pool.base # NULL =>
         /\ Listed = Cardinality(Free) /\ Free \cap pool.held = {}
         /\ \A b, c \in All : b # c => Run(b[1], 2^b[2]) \cap Run(c[1], 2^c[2]) = {}
         /\ UNION {Run(b[1], 2^b[2]) : b \in All} = 0 .. 2^PoolOrder - 1
         /\ \A b \in Free : b[2] < PoolOrder => <<buddy_of(b[1], b[2]), b[2]>> \notin Free
=============================================================================
