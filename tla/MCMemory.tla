------------------------------ MODULE MCMemory -----------------------------
(* Instance of Memory: 12 pages of 64 bytes (two side-list headers fill a    *)
(* slab page), three of them under the user window, two address-space slots, *)
(* a backing of 2 + 2 pages, a pool of 4 pages.                              *)
EXTENDS Memory

Sym == Permutations(Threads)

MCLoads == {Threads, {"space", "pool"}} \cup {{t, "space"} : t \in Threads}
=============================================================================
