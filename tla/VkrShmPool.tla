----------------------------- MODULE VkrShmPool -----------------------------
(***************************************************************************)
(* The free list of the venus_host pool (vkr_context.c): first-fit         *)
(* allocation and a free that coalesces.  The operators take the list of   *)
(* holes and return the new one; they are compared with the gaps between   *)
(* the pages in use, for every set of such pages, whether contexts hold    *)
(* them or they were lost.                                                 *)
(***************************************************************************)
EXTENDS Integers, Sequences, FiniteSets

CONSTANT PoolSize   \* pages of the pool

ASSUME PoolConstants == PoolSize \in Nat \ {0}

PoolPages == 0..PoolSize-1

Hole(o, s) == [off |-> o, size |-> s]
End(h) == h.off + h.size
Pages(h) == h.off..End(h)-1

\* The list hs whose entries lo..hi make way for those of t.
Spliced(hs, lo, hi, t) == SubSeq(hs, 1, lo - 1) \o t \o SubSeq(hs, hi + 1, Len(hs))

\* vkr_shm_pool_init_locked, once the pool is mapped.
WholePool == <<Hole(0, PoolSize)>>

\* The first hole that is large enough.
FirstFit(hs, s, i) == hs[i].size >= s /\ \A j \in 1..i-1 : hs[j].size < s

\* What is left of a hole once s pages are taken from its front.
Left(h, s) == IF h.size = s THEN <<>> ELSE <<Hole(h.off + s, h.size - s)>>

\* The rest of vkr_shm_pool_alloc, once a hole is found.
Carve(hs, i, s) == Spliced(hs, i, i, Left(hs[i], s))

\* The search for the first hole behind the slice e stops at n.
NextHole(hs, e, n) ==
    /\ n <= Len(hs) => hs[n].off > e.off
    /\ \A j \in 1..n-1 : hs[j].off <= e.off

\* Mutant: what is freed is merged with one neighbour only.
Returned_OneMerge(hs, n, e, ok) ==
    LET prev == n > 1 /\ End(hs[n - 1]) = e.off
        next == n <= Len(hs) /\ End(e) = hs[n].off /\ ~prev
        off  == IF prev THEN hs[n - 1].off ELSE e.off
        last == IF next THEN End(hs[n]) ELSE End(e)
    IN IF prev \/ next \/ ok
       THEN Spliced(hs, IF prev THEN n - 1 ELSE n, IF next THEN n ELSE n - 1,
                    <<Hole(off, last - off)>>)
       ELSE hs

\* vkr_shm_pool_free of the slice e, merged with the neighbours it touches; ok is
\* that there is memory for a hole of its own, without which it is forgotten.
Returned(hs, n, e, ok) ==
    LET prev == n > 1 /\ End(hs[n - 1]) = e.off
        next == n <= Len(hs) /\ End(e) = hs[n].off
        off  == IF prev THEN hs[n - 1].off ELSE e.off
        last == IF next THEN End(hs[n]) ELSE End(e)
    IN IF prev \/ next \/ ok
       THEN Spliced(hs, IF prev THEN n - 1 ELSE n, IF next THEN n ELSE n - 1,
                    <<Hole(off, last - off)>>)
       ELSE hs

-----------------------------------------------------------------------------
\* What the list of holes has to be while the pages in used are in use: each gap
\* between them once, as large as it is, in order.
Gaps(used) ==
    {h \in [off : PoolPages, size : 1..PoolSize] :
        /\ End(h) <= PoolSize /\ Pages(h) \cap used = {}
        /\ h.off = 0 \/ h.off - 1 \in used
        /\ End(h) = PoolSize \/ End(h) \in used}

GapLists(used) ==
    {hs \in [1..Cardinality(Gaps(used)) -> Gaps(used)] :
        \A i, j \in DOMAIN hs : i < j => hs[i].off < hs[j].off}

\* Where s pages nobody uses begin
Fits(used, s) == {o \in 0..PoolSize-s : (o..o+s-1) \cap used = {}}

\* The pool starts as one hole (vkr_shm_pool_init_locked).
StartExact == WholePool \in GapLists({})

\* vkr_shm_pool_alloc finds the first gap that fits whenever there is one, hands
\* out pages nobody uses, and leaves the gaps of what is used then.
AllocExact ==
    \A used \in SUBSET PoolPages : \A hs \in GapLists(used), s \in 1..PoolSize :
        /\ Fits(used, s) # {} => \E i \in DOMAIN hs : FirstFit(hs, s, i)
        /\ \A i \in DOMAIN hs : FirstFit(hs, s, i) =>
               /\ hs[i].off \in Fits(used, s)
               /\ \A o \in Fits(used, s) : hs[i].off <= o
               /\ Carve(hs, i, s) \in GapLists(used \cup Pages(Hole(hs[i].off, s)))

\* vkr_shm_pool_free restores exactly the gaps of what is left, wherever the slice
\* lies; without memory it does so too when a neighbour is free, and otherwise
\* loses the slice and nothing else.
FreeExact ==
    \A used \in SUBSET PoolPages : \A hs \in GapLists(used) :
        \A o \in used : \A s \in 1..PoolSize-o :
            LET e == Hole(o, s)
                beside == {o - 1, o + s} \cap PoolPages
            IN Pages(e) \subseteq used =>
                 /\ \E n \in 1..Len(hs)+1 : NextHole(hs, e, n)
                 /\ \A n \in 1..Len(hs)+1 : NextHole(hs, e, n) =>
                      /\ Returned(hs, n, e, TRUE) \in GapLists(used \ Pages(e))
                      /\ Returned(hs, n, e, FALSE) \in
                           GapLists(IF beside \subseteq used THEN used ELSE used \ Pages(e))
=============================================================================
