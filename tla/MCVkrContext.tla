---------------------------- MODULE MCVkrContext ----------------------------
(* VkrContext and the pool its transport memory comes from, with a small    *)
(* instance: see MCVkrContext.cfg.                                          *)
EXTENDS VkrContext, VkrShmPool

\* The pool a context has transport memory from starts as one hole, loses nothing
\* and hands out nothing twice, whatever the slices in use (vkr_shm_pool_alloc,
\* vkr_shm_pool_free): every list of holes it can reach is that of the gaps.
PoolExact ==
    \A c \in Ctxs, r \in Res : table[c][r] = "shm" =>
        StartExact /\ AllocExact /\ FreeExact
=============================================================================
