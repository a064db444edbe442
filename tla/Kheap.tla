------------------------------- MODULE Kheap -------------------------------
(* The kernel heap, core/lib/kheap.c, over the page allocator.  h is its     *)
(* state: g (Pmm's), slab (the current slab page, NULL before the first, and *)
(* the offset of g_slab_next in it), slabs (every slab page ever taken: none *)
(* is given back) and large, the side list g_large_list, newest first.  A    *)
(* call yields [h, p], p the region's first page.  Small allocations matter  *)
(* here only as the side list's headers, which is what uses up slab pages.   *)
EXTENDS Pmm, Sequences, SequencesExt

CONSTANTS HdrBytes   \* align_up(sizeof(struct large_hdr), 16)

ASSUME KheapAssumption == HdrBytes \in 1 .. PageSize

HeapInit(g) == [g |-> g, slab |-> [page |-> NULL, off |-> PageSize],
                slabs |-> {}, large |-> <<>>]

TakeSlabPage(h, i) ==
    [h EXCEPT !.g = claim_run(@, i, 1), !.slab = [page |-> i, off |-> 0],
              !.slabs = @ \cup {i}]

\* slab_alloc of one header: FALSE when a new slab page is needed and the
\* page allocator has none.
slab_full(h) == h.slab.off + HdrBytes > PageSize

slab_ok(h) == slab_full(h) => pmm_alloc_page(h.g) # NULL

slab_alloc(h) ==
    [(IF slab_full(h) THEN TakeSlabPage(h, pmm_alloc_page(h.g)) ELSE h)
        EXCEPT !.slab.off = @ + HdrBytes]

\* The large path of malloc from the moment the region i is claimed.
push_region(h, i, n) == [h EXCEPT !.large = <<[ptr |-> i, n |-> n]>> \o @]

record_region(h, i, n) ==
    IF slab_ok(h) THEN [h |-> push_region(slab_alloc(h), i, n), p |-> i]
    ELSE [h |-> [h EXCEPT !.g = pmm_free_pages(@, i, n)], p |-> NULL]

claim_region(h, i, n) ==
    IF i = NULL THEN [h |-> h, p |-> NULL]
    ELSE record_region([h EXCEPT !.g = claim_run(@, i, n)], i, n)

\* malloc(n pages' worth of bytes), n > 0.
malloc(h, n) == claim_region(h, pmm_alloc_pages(h.g, n), n)

\* free: the first side-list entry for the pointer is unlinked and its pages
\* go back; a pointer that is not there (NULL too) changes nothing.
free_at(h, x) ==
    [h EXCEPT !.g = pmm_free_pages(@, h.large[x].ptr, h.large[x].n),
              !.large = RemoveAt(@, x)]

free(h, p) ==
    LET xs == {x \in DOMAIN h.large : h.large[x].ptr = p}
    IN IF xs = {} THEN h ELSE free_at(h, Min(xs))
=============================================================================
