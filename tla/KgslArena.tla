------------------------------ MODULE KgslArena ------------------------------
(***************************************************************************)
(* The blob arena of the drm2kgsl renderer (drm2kgsl_renderer.c): one      *)
(* region shared with the guest at boot, carved first-fit from a free list *)
(* sorted by offset, with a reference count per range.  A context takes    *)
(* its control buffer (blob_id 0) from it, and every context that attaches *)
(* such a resource retains the range while its imported object lives.      *)
(*                                                                         *)
(* Each operation runs under g_blob_arena.lock and is one step.  The       *)
(* virtio-gpu command thread makes all the calls, so a context teardown,   *)
(* which frees several ranges, is a sequence of steps nothing else         *)
(* interrupts (`dying').                                                   *)
(***************************************************************************)
EXTENDS Integers, Sequences, FiniteSets

CONSTANTS Ctx,        \* the renderer contexts
          Res,        \* virtio-gpu resource ids
          Size,       \* g_blob_arena.size
          Guard,      \* base_guard, never handed out
          PageSize,   \* getpagesize()
          BlobSizes   \* the control-buffer sizes a guest asks for

None == <<>>

\* The geometry the init function accepts: page-aligned, larger than the guard.
\* Context and resource ids are 32-bit numbers.
ASSUME ArenaAssumption ==
    /\ IsFiniteSet(Ctx) /\ IsFiniteSet(Res)
    /\ None \notin Ctx /\ None \notin Res
    /\ PageSize \in Nat \ {0}
    /\ Guard \in Nat /\ Guard % PageSize = 0
    /\ Size \in Nat /\ Size > Guard /\ Size % PageSize = 0
    /\ BlobSizes \subseteq Nat \ {0}

VARIABLES free_list,    \* extents in list order
          allocations,  \* ranges handed out, with their refs
          shmem,        \* per context: the control buffer's range, or None
          objects,      \* per context: arena-backed objects by res_id
          res,          \* the resources the VMM holds: map_ptr offset and map_size
          dying         \* the context being destroyed, or None

vars == <<free_list, allocations, shmem, objects, res, dying>>

Align(n) == ((n + PageSize - 1) \div PageSize) * PageSize

Extent(off, sz) == [offset |-> off, size |-> sz]
End(e) == e.offset + e.size
Units(e) == e.offset .. (End(e) - 1)

\* s with its elements lo..hi replaced by those of t.
Splice(s, lo, hi, t) == SubSeq(s, 1, lo - 1) \o t \o SubSeq(s, hi + 1, Len(s))

------------------------------------------------------------------------------
\* The arena's own operations.

\* What is left of extent e once `size' is taken from its front.
Carve(e, size) ==
    IF e.size = size THEN <<>> ELSE <<Extent(e.offset + size, e.size - size)>>

\* The first extent that is large enough.
FirstFit(size, i) ==
    /\ i \in 1 .. Len(free_list)
    /\ free_list[i].size >= size
    /\ \A j \in 1 .. i - 1 : free_list[j].size < size

ArenaAlloc(bytes, i) ==
    LET size == Align(bytes)
        e    == free_list[i]
    IN  /\ FirstFit(size, i)
        /\ free_list' = Splice(free_list, i, i, Carve(e, size))
        /\ allocations' = allocations \cup
                          {[offset |-> e.offset, size |-> size, refs |-> 1]}

\* retain and free look a range up by its exact offset and aligned size.
Lookup(off, bytes) ==
    {a \in allocations : a.offset = off /\ a.size = Align(bytes)}

\* The search for the first extent that is not below e stops at p.
InsertAt(fl, e, p) ==
    /\ p <= Len(fl) => fl[p].offset >= e.offset
    /\ \A j \in 1 .. p - 1 : fl[j].offset < e.offset

\* Mutant: only the extent that follows is merged.
Insert_NoPrevMerge(fl, e, pos) ==
    LET next == pos <= Len(fl) /\ End(e) = fl[pos].offset
    IN  Splice(fl, pos, IF next THEN pos ELSE pos - 1,
               <<Extent(e.offset, IF next THEN e.size + fl[pos].size ELSE e.size)>>)

\* The insertion of a freed extent at pos, coalescing with its successor and
\* then with its predecessor.
Insert(fl, e, pos) ==
    LET next == pos <= Len(fl) /\ End(e) = fl[pos].offset
        prev == pos > 1 /\ End(fl[pos - 1]) = e.offset
        last == IF next THEN End(fl[pos]) ELSE End(e)
        off  == IF prev THEN fl[pos - 1].offset ELSE e.offset
    IN  Splice(fl, IF prev THEN pos - 1 ELSE pos, IF next THEN pos ELSE pos - 1,
               <<Extent(off, last - off)>>)

ArenaRetain(off, bytes) ==
    LET hit == Lookup(off, bytes)
    IN  /\ hit # {}
        /\ allocations' = (allocations \ hit) \cup
                          {[a EXCEPT !.refs = @ + 1] : a \in hit}
        /\ UNCHANGED free_list

\* An unknown range is reported and left alone; the last reference returns the
\* extent to the free list.
ArenaFree(off, bytes) ==
    LET hit == Lookup(off, bytes)
        e   == Extent(off, Align(bytes))
    IN  /\ allocations' = (allocations \ hit) \cup
               {[a EXCEPT !.refs = @ - 1] : a \in {b \in hit : b.refs > 1}}
        /\ IF \E a \in hit : a.refs = 1
             THEN \E pos \in 1 .. Len(free_list) + 1 :
                      /\ InsertAt(free_list, e, pos)
                      /\ free_list' = Insert(free_list, e, pos)
             ELSE UNCHANGED free_list

------------------------------------------------------------------------------
\* The contexts' use of it.

Init ==
    /\ free_list = <<Extent(Guard, Size - Guard)>>
    /\ allocations = {}
    /\ shmem = [c \in Ctx |-> None]
    /\ objects = [c \in Ctx |-> [r \in Res |-> None]]
    /\ res = [r \in Res |-> None]
    /\ dying = None

\* blob_id 0: one control buffer per context, from the arena, exported as
\* resource r (virgl_renderer_resource_create_blob wants an unused id).
GetArenaShmemBlob(c, r, bytes, i) ==
    /\ dying = None
    /\ res[r] = None
    /\ shmem[c] = None
    /\ ArenaAlloc(bytes, i)
    /\ shmem' = [shmem EXCEPT ![c] = Extent(free_list[i].offset, bytes)]
    /\ res' = [res EXCEPT ![r] = Extent(free_list[i].offset, bytes)]
    /\ UNCHANGED <<objects, dying>>

\* A resource whose mapping lies in the arena becomes an object of context c:
\* the range is retained, then imported as a KGSL object.
AttachResource(c, r) ==
    /\ dying = None
    /\ res[r] # None
    /\ objects[c][r] = None
    /\ ArenaRetain(res[r].offset, res[r].size)
    /\ objects' = [objects EXCEPT ![c][r] = Extent(res[r].offset, Align(res[r].size))]
    /\ UNCHANGED <<shmem, res, dying>>

\* Mutant: the failed import keeps its reference.
AttachFails_KeepsRef(c, r) ==
    /\ dying = None
    /\ res[r] # None
    /\ objects[c][r] = None
    /\ ArenaRetain(res[r].offset, res[r].size)
    /\ UNCHANGED <<shmem, objects, res, dying>>

\* The import or the object's allocation fails: the retained range is freed
\* again, which leaves the arena as it was.  An unknown range is refused.
AttachFails(c, r) ==
    /\ dying = None
    /\ res[r] # None
    /\ objects[c][r] = None
    /\ UNCHANGED vars

\* free_object of an arena-backed object.
FreeObject(c, r) ==
    /\ objects[c][r] # None
    /\ ArenaFree(objects[c][r].offset, objects[c][r].size)
    /\ objects' = [objects EXCEPT ![c][r] = None]
    /\ UNCHANGED <<shmem, res, dying>>

DetachResource(c, r) ==
    /\ dying = None
    /\ FreeObject(c, r)

\* virgl_renderer_resource_unref detaches the resource from every context
\* (DetachResource steps) and then drops it.
ResourceUnref(r) ==
    /\ dying = None
    /\ res[r] # None
    /\ \A c \in Ctx : objects[c][r] = None
    /\ res' = [res EXCEPT ![r] = None]
    /\ UNCHANGED <<free_list, allocations, shmem, objects, dying>>

\* kgsl_renderer_destroy: the control buffer goes first, then the objects that
\* are left, in the hash table's order.  The resources outlive the context.
DestroyShmem(c) ==
    /\ dying = None
    /\ dying' = c
    /\ shmem' = [shmem EXCEPT ![c] = None]
    /\ IF shmem[c] # None THEN ArenaFree(shmem[c].offset, shmem[c].size)
                          ELSE UNCHANGED <<free_list, allocations>>
    /\ UNCHANGED <<objects, res>>

DestroyObject(r) ==
    /\ dying # None
    /\ FreeObject(dying, r)

DestroyEnd ==
    /\ dying # None
    /\ \A r \in Res : objects[dying][r] = None
    /\ dying' = None
    /\ UNCHANGED <<free_list, allocations, shmem, objects, res>>

Next ==
    \/ \E c \in Ctx, r \in Res, bytes \in BlobSizes, i \in 1 .. Len(free_list) :
           GetArenaShmemBlob(c, r, bytes, i)
    \/ \E c \in Ctx, r \in Res : \/ AttachResource(c, r)
                                 \/ AttachFails(c, r)
                                 \/ DetachResource(c, r)
    \/ \E r \in Res : ResourceUnref(r) \/ DestroyObject(r)
    \/ \E c \in Ctx : DestroyShmem(c)
    \/ DestroyEnd

Spec == Init /\ [][Next]_vars

------------------------------------------------------------------------------
Area == [offset : Guard .. Size, size : 1 .. Size]

\* The state has the shape of the C structures.
TypeOK ==
    /\ free_list \in Seq(Area)
    /\ allocations \subseteq [offset : Guard .. Size, size : 1 .. Size, refs : Nat \ {0}]
    /\ shmem \in [Ctx -> Area \cup {None}]
    /\ objects \in [Ctx -> [Res -> Area \cup {None}]]
    /\ res \in [Res -> Area \cup {None}]
    /\ dying \in Ctx \cup {None}

\* No two ranges handed out by kgsl_blob_arena_alloc share a byte, and none
\* reaches into the base guard or past the arena's end.
AllocationsDisjoint ==
    /\ \A a \in allocations : Units(a) \subseteq Guard .. Size - 1
    /\ \A a, b \in allocations : a # b => Units(a) \cap Units(b) = {}

Listed(fl, u) == \E i \in DOMAIN fl : u \in Units(fl[i])
Allocated(u) == \E a \in allocations : u \in Units(a)

\* The allocations are disjoint and the free list is exactly the maximal gaps
\* between them, in offset order: no byte is lost or listed twice, and an
\* allocation is refused only when no gap is large enough, since neighbours are
\* always coalesced.
FreeListExact ==
    /\ AllocationsDisjoint
    /\ \A i \in DOMAIN free_list : Units(free_list[i]) \subseteq Guard .. Size - 1
    /\ \A u \in Guard .. Size - 1 : Listed(free_list, u) <=> ~Allocated(u)
    /\ \A i, j \in DOMAIN free_list : i < j => End(free_list[i]) < free_list[j].offset

\* The state is well-formed and the arena's list is exact.
ArenaConsistent == TypeOK /\ FreeListExact

\* The users of the arena: the control buffer of a context (None) and its
\* imported objects by res_id.
Users == Ctx \X (Res \cup {None})
Held(h) == IF h[2] = None THEN shmem[h[1]] ELSE objects[h[1]][h[2]]
Holders(off) == {h \in Users : Held(h) # None /\ Held(h).offset = off}

\* A range's refs count exactly its users, and every user's range is still
\* allocated: destroying the exporting context, detaching an importer or a
\* failed import neither returns a range that is in use nor leaks one.
RefsCountHolders ==
    /\ \A a \in allocations : a.refs = Cardinality(Holders(a.offset))
    /\ \A h \in Users : Held(h) # None => Lookup(Held(h).offset, Held(h).size) # {}
=============================================================================
