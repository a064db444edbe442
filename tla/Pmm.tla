-------------------------------- MODULE Pmm --------------------------------
(* The physical page allocator, core/pmm/pmm.c: a bitmap at the start of the *)
(* managed region, one bit per page, claimed and released with atomic bit    *)
(* operations.  g is the allocator's state: bits, the indices whose bit is   *)
(* set, hint (g_hint) and free (g_free, which wraps at WordMod).  A page is  *)
(* its index.  The whole-call operators are what a caller that no other      *)
(* actor interrupts computes; Memory takes the same calls apart.             *)
EXTENDS Integers, FiniteSets, FiniteSetsExt

CONSTANTS Base, Size,     \* the managed region handed to pmm_init, in bytes
          PageSize,       \* PMM_PAGE_SIZE
          WindowPa, WindowBytes  \* the range boot.c passes to pmm_reserve_range

ASSUME PmmAssumption ==
    /\ Base \in Nat /\ Size \in Nat /\ PageSize \in Nat \ {0}
    /\ WindowPa \in Nat /\ WindowBytes \in Nat

NULL == -1

\* g_free is a size_t.  Its width is cut to 16 bits; only the wrap matters.
WordMod == 2^16

RoundUp(x) == ((x + PageSize - 1) \div PageSize) * PageSize

\* What pmm_init derives from its arguments: the aligned base, the number of
\* pages, and the pages its own bitmap takes.
g_base == RoundUp(Base)

g_total == IF Size < g_base - Base THEN 0
           ELSE (Size - (g_base - Base)) \div PageSize

g_reserved == ((g_total + 7) \div 8 + PageSize - 1) \div PageSize

pmm_init == [bits |-> 0 .. g_reserved - 1, hint |-> g_reserved,
             free |-> (g_total - g_reserved) % WordMod]

\* The pages pmm_reserve_range covers, clipped to the managed region.
reserve_pages ==
    LET start == Max({(WindowPa \div PageSize) * PageSize, g_base})
        end == Min({RoundUp(WindowPa + WindowBytes), g_base + g_total * PageSize})
    IN {i \in 0 .. g_total - 1 : start <= g_base + i * PageSize
                                  /\ g_base + i * PageSize < end}

pmm_reserve_range(g) ==
    [g EXCEPT !.bits = @ \cup reserve_pages,
              !.free = (@ - Cardinality(reserve_pages \ g.bits)) % WordMod]

\* Where a scan for one page starts, and the page its k-th step looks at.
scan_start(g) == IF g.hint >= g_total THEN g_reserved ELSE g.hint

scan_page(start, k) == (start + k) % g_total

Run(i, n) == i .. i + n - 1

claim_run(g, i, n) == [g EXCEPT !.bits = @ \cup Run(i, n), !.hint = i + n,
                                !.free = (@ - n) % WordMod]

\* pmm_alloc_page and pmm_alloc_pages, uninterrupted: the page, or run of
\* pages, they claim (NULL if there is none).
pmm_alloc_page(g) ==
    LET ks == {k \in 0 .. g_total - 1 :
                  /\ scan_page(scan_start(g), k) >= g_reserved
                  /\ scan_page(scan_start(g), k) \notin g.bits}
    IN IF ks = {} THEN NULL ELSE scan_page(scan_start(g), Min(ks))

pmm_alloc_pages(g, n) ==
    IF n = 1 THEN pmm_alloc_page(g)
    ELSE LET is == {i \in g_reserved .. g_total - n : Run(i, n) \cap g.bits = {}}
         IN IF n = 0 \/ is = {} THEN NULL ELSE Min(is)

pmm_free_pages(g, i, n) == [g EXCEPT !.bits = @ \ Run(i, n), !.hint = i,
                                     !.free = (@ + n) % WordMod]
=============================================================================
