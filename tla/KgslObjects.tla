----------------------------- MODULE KgslObjects -----------------------------
(***************************************************************************)
(* Buffer objects of the drm2kgsl renderer (drm2kgsl_renderer.c) and the   *)
(* GPU address ranges they are bound at.                                   *)
(*                                                                         *)
(* One virtual buffer object (VBO), shared by all contexts, is cut into    *)
(* slices; a context claims one and binds its objects inside it.  Every    *)
(* object is guest-allocated: GEM_NEW records its size and iova under a    *)
(* blob id, the VMM parks a dma-buf over the guest's pages, and the        *)
(* get_blob that follows imports it, binds it and files the object under   *)
(* its resource id.  Other contexts attach the resource and bind their own *)
(* import of the same pages.                                               *)
(*                                                                         *)
(* All calls come from the virtio-gpu command thread, so a call is a step, *)
(* with its failure paths.  The VMM may also ask for a blob it parked      *)
(* nothing for.  An UNBIND, whose result the code ignores, is taken to     *)
(* succeed.  Not modelled: NCTX_RELAX_SLICE (a debugging switch) and paged *)
(* arena objects (nothing sets nr_runs or arena).                          *)
(***************************************************************************)
EXTENDS Integers, FiniteSets

CONSTANTS Ctx,        \* renderer contexts
          Makers,     \* those that create buffers; the others only import (a bound)
          BlobIds,    \* blob ids of a context
          ResIds,     \* resource ids
          Pages,      \* the guest's page runs
          Sizes,      \* object sizes, in VA pages
          NumSlices,  \* g_va_nslices
          SliceSize,  \* g_va_slice_size, in VA pages
          MaxMems     \* KGSL objects ever imported (bound of the model)

ASSUME ObjectsAssumption ==
    /\ NumSlices \in Nat \ {0} /\ SliceSize \in Nat \ {0} /\ MaxMems \in Nat
    /\ Sizes \subseteq Nat \ {0}
    /\ Makers \subseteq Ctx

VARIABLES ctx,       \* per context: its va_slice_idx, or NoSlice when it does not exist
          blobs,     \* blob_table: objects GEM_NEW made, not yet backed
          objs,      \* resource_table: objects with a KGSL mem_id
          parked,    \* pending_guest_fd: the pages its dma-buf covers, or None
          vbo,       \* what each VA page of the VBO maps: a KGSL object or None
          res,       \* the virtio-gpu resources: the pages and size of each
          mems,      \* KGSL objects imported so far
          vmm,       \* the blob creation the VMM is in the middle of, or None
          refused,   \* history: the parked fd is one that a refused get_blob left
          unbind_freed \* contexts unbind freed objects (no NCTX_KEEP_FREED_RANGES)

vars == <<ctx, blobs, objs, parked, vbo, res, mems, vmm, refused, unbind_freed>>

None == <<>>
NoSlice == -1

\* VA 0 means unbound, so the VBO starts above it (g_va_start).
VA == 1 .. NumSlices * SliceSize
Slice(s) == (1 + s * SliceSize) .. (s * SliceSize + SliceSize)
Base(c) == 1 + ctx[c] * SliceSize
Span(iova, size) == iova .. (iova + size - 1)

\* kgsl_iova_in_slice, whose subtractions cannot wrap.
iova_in_slice(c, iova, size) ==
    /\ size <= SliceSize
    /\ iova >= Base(c)
    /\ iova - Base(c) <= SliceSize - size

------------------------------------------------------------------------------
Init ==
    /\ ctx = [c \in Ctx |-> NoSlice]
    /\ blobs = [c \in Ctx |-> [b \in BlobIds |-> None]]
    /\ objs = [c \in Ctx |-> [r \in ResIds |-> None]]
    /\ parked = [c \in Ctx |-> None]
    /\ vbo = [v \in VA |-> None]
    /\ res = [r \in ResIds |-> None]
    /\ mems = 0
    /\ vmm = None
    /\ refused = [c \in Ctx |-> FALSE]
    /\ unbind_freed \in BOOLEAN

\* va_slice_claim takes the first slice not in use; creation fails when there is none.
ContextCreate(c) ==
    LET used == {ctx[d] : d \in {e \in Ctx : ctx[e] # NoSlice}}
    IN  /\ vmm = None
        /\ ctx[c] = NoSlice
        /\ \E s \in (0 .. NumSlices - 1) \ used :
               /\ \A t \in (0 .. NumSlices - 1) \ used : s <= t
               /\ ctx' = [ctx EXCEPT ![c] = s]
        /\ UNCHANGED <<blobs, objs, parked, vbo, res, mems, vmm, refused, unbind_freed>>

\* A buffer of context c the guest knows of: get_blob returned success for it,
\* or the resource was attached.
Live(c, r) ==
    objs[c][r] # None /\ res[r] # None /\ (objs[c][r].exported \/ ~objs[c][r].mem.guest)

\* The guest's address allocator: no live buffer of context c overlaps the range.
GuestVaFree(c, iova, size) ==
    /\ \A b \in BlobIds : blobs[c][b] # None =>
           Span(iova, size) \cap Span(blobs[c][b].iova, blobs[c][b].size) = {}
    /\ \A r \in ResIds : Live(c, r) /\ objs[c][r].iova # 0 =>
           Span(iova, size) \cap Span(objs[c][r].iova, objs[c][r].size) = {}

\* The addresses a guest asks for: its slice (va_start and va_size are what
\* GET_PARAM told it) and, to have something refused, the page after it.
GuestVa(c) == Base(c) .. Base(c) + SliceSize

\* GEM_NEW: an unused blob id and MSM_BO_GUEST_ALLOC, or an error that changes
\* nothing here.  The iova is recorded unchecked.
GemNew(c, b, size, iova) ==
    /\ vmm = None
    /\ c \in Makers
    /\ ctx[c] # NoSlice
    /\ blobs[c][b] = None
    /\ GuestVaFree(c, iova, size)
    /\ blobs' = [blobs EXCEPT ![c][b] = [size |-> size, iova |-> iova]]
    /\ UNCHANGED <<ctx, objs, parked, vbo, res, mems, vmm, refused, unbind_freed>>

\* The VMM begins a blob creation in context c, for a resource id not in use.
CreatesBlob(c) ==
    /\ vmm = None
    /\ c \in Makers
    /\ ctx[c] # NoSlice
    /\ \E r \in ResIds : res[r] = None

\* Mutant: a second fd is dropped in favour of the one already parked.
SetGuestBlobFd_KeepsFirst(c, b, p) ==
    /\ CreatesBlob(c)
    /\ \A r \in ResIds : res[r] # None => res[r].pages # p
    /\ parked' = [parked EXCEPT ![c] = IF @ # None THEN @ ELSE p]
    /\ refused' = [refused EXCEPT ![c] = FALSE]
    /\ vmm' = [ctx |-> c, blob |-> b, pages |-> p]
    /\ UNCHANGED <<ctx, blobs, objs, vbo, res, mems, unbind_freed>>

\* The VMM parks its dma-buf over pages the guest has not given to another
\* resource; an fd that an earlier get_blob left parked is closed.  The
\* get_blob comes next.
SetGuestBlobFd(c, b, p) ==
    /\ CreatesBlob(c)
    /\ \A r \in ResIds : res[r] # None => res[r].pages # p
    /\ parked' = [parked EXCEPT ![c] = p]
    /\ refused' = [refused EXCEPT ![c] = FALSE]
    /\ vmm' = [ctx |-> c, blob |-> b, pages |-> p]
    /\ UNCHANGED <<ctx, blobs, objs, vbo, res, mems, unbind_freed>>

\* The VMM has no dma-buf for the blob (no udmabuf, no CREATE_GUEST_HANDLE) and
\* asks for it all the same.
CreateWithoutFd(c, b) ==
    /\ CreatesBlob(c)
    /\ vmm' = [ctx |-> c, blob |-> b, pages |-> None]
    /\ UNCHANGED <<ctx, blobs, objs, parked, vbo, res, mems, refused, unbind_freed>>

\* What the kernel maps after a bind of object m at iova.
Bound(m, iova, size) ==
    [v \in VA |-> IF v \in Span(iova, size) THEN m ELSE vbo[v]]

\* An fd that is parked stays for the next get_blob.
LeftParked(c) == refused' = [refused EXCEPT ![c] = parked[c] # None]

\* get_blob before it takes the object: a resource id this context still has,
\* or no such blob.
GetBlobRefused(c, b, r) ==
    /\ vmm # None /\ vmm.ctx = c /\ vmm.blob = b
    /\ res[r] = None
    /\ objs[c][r] # None \/ blobs[c][b] = None
    /\ LeftParked(c)
    /\ vmm' = None
    /\ UNCHANGED <<ctx, blobs, objs, parked, vbo, res, mems, unbind_freed>>

\* get_blob takes the object out of the blob table.
Retrieve(c, b, r) ==
    /\ vmm # None /\ vmm.ctx = c /\ vmm.blob = b
    /\ res[r] = None
    /\ objs[c][r] = None
    /\ blobs[c][b] # None
    /\ blobs' = [blobs EXCEPT ![c][b] = None]
    /\ vmm' = None

\* The blob's size is not the object's: the object is in no table any more.
GetBlobMismatch(c, b, r) ==
    /\ Retrieve(c, b, r)
    /\ LeftParked(c)
    /\ UNCHANGED <<ctx, objs, parked, vbo, res, mems, unbind_freed>>

\* "has no dma-buf from the VMM"
GetBlobNoFd(c, b, r) ==
    /\ parked[c] = None
    /\ Retrieve(c, b, r)
    /\ UNCHANGED <<ctx, objs, parked, vbo, res, mems, refused, unbind_freed>>

\* Mutant: the fd is imported and stays parked.
TakeFd_Keeps(c) == UNCHANGED <<parked, refused>>

\* get_blob takes the parked fd, whichever get_blob it was parked for.
TakeFd(c) ==
    /\ parked' = [parked EXCEPT ![c] = None]
    /\ refused' = [refused EXCEPT ![c] = FALSE]

\* The dma-buf cannot be imported: its fd is closed.
GetBlobImportFails(c, b, r) ==
    /\ parked[c] # None
    /\ Retrieve(c, b, r)
    /\ TakeFd(c)
    /\ UNCHANGED <<ctx, objs, vbo, res, mems, unbind_freed>>

Import(c, p, guest) ==
    [id |-> mems + 1, ctx |-> c, pages |-> p, guest |-> guest]

\* The import is bound at the iova GEM_NEW recorded, or vbo_op refuses it (out
\* of the slice, or the kernel fails) and the imported object is dropped.
GetBlobBindFails(c, b, r) ==
    /\ parked[c] # None
    /\ mems < MaxMems
    /\ Retrieve(c, b, r)
    /\ TakeFd(c)
    /\ mems' = mems + 1
    /\ UNCHANGED <<ctx, objs, vbo, res, unbind_freed>>

GetBlobBound(c, b, r, exported) ==
    LET m == Import(c, parked[c], TRUE)
        o == blobs[c][b]
    IN  /\ parked[c] # None
        /\ mems < MaxMems
        /\ Retrieve(c, b, r)
        /\ iova_in_slice(c, o.iova, o.size)
        /\ TakeFd(c)
        /\ mems' = mems + 1
        /\ vbo' = Bound(m, o.iova, o.size)
        /\ objs' = [objs EXCEPT ![c][r] = [mem |-> m, size |-> o.size, iova |-> o.iova,
                                           exported |-> exported]]
        /\ UNCHANGED <<ctx, unbind_freed>>

\* The object is filed under r and, when its fd can be duplicated, r is created.
GetBlob(c, b, r) ==
    /\ GetBlobBound(c, b, r, TRUE)
    /\ res' = [res EXCEPT ![r] = [pages |-> parked[c], size |-> blobs[c][b].size]]

GetBlobDupFails(c, b, r) ==
    /\ GetBlobBound(c, b, r, FALSE)
    /\ UNCHANGED res

\* GEM_SET_IOVA: 0 forgets the address and unbinds nothing; an address in the
\* slice is bound, the old range staying; anything else, or a failing bind,
\* leaves the object as it was.
SetIova(c, r, iova) ==
    /\ vmm = None
    /\ objs[c][r] # None
    /\ objs[c][r].iova # iova
    /\ iova # 0 => /\ GuestVaFree(c, iova, objs[c][r].size)
                   /\ iova_in_slice(c, iova, objs[c][r].size)
    /\ objs' = [objs EXCEPT ![c][r].iova = iova]
    /\ vbo' = IF iova = 0 THEN vbo ELSE Bound(objs[c][r].mem, iova, objs[c][r].size)
    /\ UNCHANGED <<ctx, blobs, parked, res, mems, vmm, refused, unbind_freed>>

\* A resource this context does not know is imported as an object of its own,
\* with no address yet; a failing import changes nothing.
AttachResource(c, r) ==
    /\ vmm = None
    /\ ctx[c] # NoSlice
    /\ res[r] # None
    /\ objs[c][r] = None
    /\ mems < MaxMems
    /\ mems' = mems + 1
    /\ objs' = [objs EXCEPT ![c][r] =
           [mem |-> Import(c, res[r].pages, FALSE), size |-> res[r].size, iova |-> 0,
            exported |-> FALSE]]
    /\ UNCHANGED <<ctx, blobs, parked, vbo, res, vmm, refused, unbind_freed>>

\* Mutant: only the object's current range is unbound.
Unbound_AtIova(freed) ==
    [v \in VA |-> IF \E o \in freed : /\ unbind_freed /\ o.mem.guest /\ o.iova # 0
                                      /\ v \in Span(o.iova, o.size) /\ vbo[v] = o.mem
                  THEN None ELSE vbo[v]]

\* Mutant: the unbind does not name its child.
Unbound_AnyChild(freed) ==
    [v \in VA |-> IF \E o \in freed : /\ unbind_freed /\ o.mem.guest
                                      /\ v \in Slice(ctx[o.mem.ctx])
                  THEN None ELSE vbo[v]]

\* The VBO once the objects in `freed' went through free_object: in a context
\* that unbinds them, a guest-allocated object's ranges in the slice go.
Unbound(freed) ==
    [v \in VA |-> IF \E o \in freed : /\ unbind_freed /\ o.mem.guest
                                      /\ v \in Slice(ctx[o.mem.ctx])
                                      /\ vbo[v] = o.mem
                  THEN None ELSE vbo[v]]

DetachResource(c, r) ==
    /\ vmm = None
    /\ objs[c][r] # None
    /\ vbo' = Unbound({objs[c][r]})
    /\ objs' = [objs EXCEPT ![c][r] = None]
    /\ UNCHANGED <<ctx, blobs, parked, res, mems, vmm, refused, unbind_freed>>

\* The last reference to a resource: it is detached from every context.
ResourceUnref(r) ==
    /\ vmm = None
    /\ res[r] # None
    /\ vbo' = Unbound({objs[c][r] : c \in Ctx} \ {None})
    /\ objs' = [c \in Ctx |-> [objs[c] EXCEPT ![r] = None]]
    /\ res' = [res EXCEPT ![r] = None]
    /\ UNCHANGED <<ctx, blobs, parked, mems, vmm, refused, unbind_freed>>

\* Mutant: a context that goes leaves its slice as it is.
Cleared_No(c) == vbo

\* A context that unbinds freed objects leaves nothing bound in its slice.
Cleared(c) ==
    [v \in VA |-> IF unbind_freed /\ v \in Slice(ctx[c])
                  THEN None ELSE vbo[v]]

\* kgsl_renderer_destroy: the slice is cleared, the objects of both tables are
\* freed (without the flag that unbinds nothing), and the slice is released.
\* A parked fd is forgotten with the context, not closed.
ContextDestroy(c) ==
    /\ vmm = None
    /\ ctx[c] # NoSlice
    /\ vbo' = Cleared(c)
    /\ blobs' = [blobs EXCEPT ![c] = [b \in BlobIds |-> None]]
    /\ objs' = [objs EXCEPT ![c] = [r \in ResIds |-> None]]
    /\ ctx' = [ctx EXCEPT ![c] = NoSlice]
    /\ parked' = [parked EXCEPT ![c] = None]
    /\ refused' = [refused EXCEPT ![c] = FALSE]
    /\ UNCHANGED <<res, mems, vmm, unbind_freed>>

Next ==
    \/ \E c \in Ctx :
          \/ ContextCreate(c)
          \/ ContextDestroy(c)
          \/ \E b \in BlobIds :
                \/ \E size \in Sizes, iova \in GuestVa(c) : GemNew(c, b, size, iova)
                \/ \E p \in Pages : SetGuestBlobFd(c, b, p)
                \/ CreateWithoutFd(c, b)
                \/ \E r \in ResIds : \/ GetBlobRefused(c, b, r)
                                     \/ GetBlobMismatch(c, b, r)
                                     \/ GetBlobNoFd(c, b, r)
                                     \/ GetBlobImportFails(c, b, r)
                                     \/ GetBlobBindFails(c, b, r)
                                     \/ GetBlob(c, b, r)
                                     \/ GetBlobDupFails(c, b, r)
          \/ \E r \in ResIds : \/ \E iova \in GuestVa(c) \cup {0} : SetIova(c, r, iova)
                               \/ AttachResource(c, r)
                               \/ DetachResource(c, r)
    \/ \E r \in ResIds : ResourceUnref(r)

Spec == Init /\ [][Next]_vars

------------------------------------------------------------------------------
Mem == [id : 1 .. MaxMems, ctx : Ctx, pages : Pages, guest : BOOLEAN]

Obj == [mem : Mem, size : Sizes, iova : Nat, exported : BOOLEAN]

\* The state has the shape of the C structures.
TypeOK ==
    /\ ctx \in [Ctx -> (0 .. NumSlices - 1) \cup {NoSlice}]
    /\ blobs \in [Ctx -> [BlobIds -> [size : Sizes, iova : Nat] \cup {None}]]
    /\ objs \in [Ctx -> [ResIds -> Obj \cup {None}]]
    /\ parked \in [Ctx -> Pages \cup {None}]
    /\ vbo \in [VA -> Mem \cup {None}]
    /\ res \in [ResIds -> [pages : Pages, size : Sizes] \cup {None}]
    /\ mems \in 0 .. MaxMems
    /\ unbind_freed \in BOOLEAN
    /\ vmm \in [ctx : Ctx, blob : BlobIds, pages : Pages \cup {None}] \cup {None}
    /\ refused \in [Ctx -> BOOLEAN]

\* The objects of context c.
Objects(c) == {objs[c][r] : r \in ResIds} \ {None}

\* No two contexts hold the same slice of the VBO.
SlicesExclusive ==
    \A c, d \in Ctx : c # d /\ ctx[c] # NoSlice => ctx[c] # ctx[d]

RangesInOwnSlice ==
    \A v \in VA : unbind_freed /\ vbo[v] # None =>
        ctx[vbo[v].ctx] # NoSlice /\ v \in Slice(ctx[vbo[v].ctx])

\* Contexts never see each other's memory through the shared VBO: they hold
\* different slices, and every range that a context with unbind_freed bound
\* lies in the slice that context holds now.  A slice is thus empty of its
\* former owner's ranges when it is claimed again (kgsl_renderer_destroy clears
\* it before va_slice_release).
SlicesIsolated == SlicesExclusive /\ RangesInOwnSlice

\* What the guest was promised: every live buffer with an address is what the
\* GPU sees at every page of that address range, whatever was moved, attached,
\* freed or failed since (vbo_op, free_object, gem_set_iova).
LiveRangesBound ==
    \A c \in Ctx, r \in ResIds :
        Live(c, r) /\ objs[c][r].iova # 0 =>
            \A v \in Span(objs[c][r].iova, objs[c][r].size) : vbo[v] = objs[c][r].mem

\* In a context that unbinds freed buffers, no range maps a guest-allocated
\* object that free_object has freed, at any address it ever had.
NoStaleOwnRange ==
    \A v \in VA : unbind_freed /\ vbo[v] # None /\ vbo[v].guest =>
        \E o \in Objects(vbo[v].ctx) : o.mem = vbo[v]

\* What the comment on unbind_freed asks for: in a context that unbinds freed
\* buffers, no range maps guest pages whose resource is gone, pages the guest
\* allocator may have given to something else (only an object still in the
\* context's table may keep such a range).
NoRangeOfGonePages ==
    \A v \in VA : unbind_freed /\ vbo[v] # None =>
        \/ \E o \in Objects(vbo[v].ctx) : o.mem = vbo[v]
        \/ \E r \in ResIds : res[r] # None /\ res[r].pages = vbo[v].pages

\* The buffer get_blob completes is backed by the pages the VMM parked for that
\* very blob, also after an earlier get_blob failed and left its fd parked.  A
\* blob the VMM parked nothing for completes only with an fd whose own get_blob
\* was refused, never with one that already backs a buffer.
CompletedFromOwnPages ==
    [][\A c \in Ctx, r \in ResIds :
          (objs'[c][r] # None /\ objs[c][r] = None /\ objs'[c][r].mem.guest)
             => IF vmm.pages # None THEN objs'[c][r].mem.pages = vmm.pages
                ELSE refused[c] /\ objs'[c][r].mem.pages = parked[c]]_vars
=============================================================================
