-------------------------- MODULE KgslObjects_proofs --------------------------
(***************************************************************************)
(* That the contexts of the drm2kgsl renderer never see each other's GPU   *)
(* ranges, that a freed buffer leaves none behind in its own context, that *)
(* a buffer gets the pages parked for it and that a live buffer is what    *)
(* the GPU sees at its address, for every number of contexts, slices,      *)
(* buffers and imports.                                                    *)
(***************************************************************************)
EXTENDS KgslObjects, TLAPS

\* An object in a context's table was imported by that context, and only a
\* context that exists has objects.
ObjectsOwned ==
    /\ \A c \in Ctx, r \in ResIds :
           objs[c][r] # None => objs[c][r].mem.ctx = c /\ ctx[c] # NoSlice
    /\ \A c \in Ctx, b \in BlobIds : blobs[c][b] # None => ctx[c] # NoSlice

\* The inductive invariant of RangesInOwnSlice: a bind names an object of the
\* binding context, so what it maps belongs to the holder of the slice.
SliceInv == TypeOK /\ ObjectsOwned /\ RangesInOwnSlice

\* An object record is not the empty table entry.
LEMMA ObjNotNone == \A o \in Obj : o # None
  <1>1. SUFFICES ASSUME NEW o \in Obj, o = <<>> PROVE FALSE
    BY Zenon DEF None
  <1>2. DOMAIN o = {"mem", "size", "iova", "exported"}
    BY Zenon DEF Obj
  <1>3. DOMAIN <<>> = {}
    OBVIOUS
  <1>. QED BY <1>1, <1>2, <1>3, Zenon

\* kgsl_iova_in_slice accepts only ranges inside the slice of the context.
LEMMA InSlice ==
    ASSUME TypeOK, NEW c \in Ctx, ctx[c] # NoSlice,
           NEW iova \in Nat, NEW size \in Sizes, iova_in_slice(c, iova, size)
    PROVE  \A v \in Span(iova, size) : v \in Slice(ctx[c])
  <1>1. ctx[c] \in Nat /\ size \in Nat /\ SliceSize \in Nat
    BY ObjectsAssumption DEF TypeOK
  <1> DEFINE base == ctx[c] * SliceSize
  <1>2. base \in Int
    BY <1>1
  <1>3. size <= SliceSize /\ iova >= 1 + base /\ iova - (1 + base) <= SliceSize - size
    BY Zenon DEF iova_in_slice, Base
  <1>4. \A v \in iova .. (iova + size - 1) : v \in (1 + base) .. (base + SliceSize)
    <2> HIDE DEF base
    <2>. QED BY <1>1, <1>2, <1>3
  <1>. QED BY <1>4, Zenon DEF Span, Slice

-----------------------------------------------------------------------------
LEMMA InitType == Init => TypeOK
  <1>. QED BY ObjectsAssumption DEF Init, TypeOK, None, NoSlice

\* A bind and an unbind keep the VBO a map from VA pages.
LEMMA BoundType ==
    ASSUME TypeOK, NEW m \in Mem, NEW iova, NEW size
    PROVE  Bound(m, iova, size) \in [VA -> Mem \cup {None}]
  <1>. QED BY Zenon DEF TypeOK, Bound

LEMMA UnboundType ==
    ASSUME TypeOK, NEW freed
    PROVE  Unbound(freed) \in [VA -> Mem \cup {None}]
  <1>. QED BY Zenon DEF TypeOK, Unbound

\* An import within the bound is a KGSL object with a fresh id.
LEMMA ImportType ==
    ASSUME TypeOK, mems < MaxMems, NEW c \in Ctx, NEW p \in Pages, NEW g \in BOOLEAN
    PROVE  Import(c, p, g) \in Mem /\ mems + 1 \in 0 .. MaxMems
  <1>. QED BY ObjectsAssumption DEF TypeOK, Import, Mem

\* Every call keeps the state well-typed.
LEMMA TypeStep == TypeOK /\ ObjectsOwned /\ [Next]_vars => TypeOK'
  <1> SUFFICES ASSUME TypeOK, ObjectsOwned, [Next]_vars PROVE TypeOK'
    OBVIOUS
  <1>1. ASSUME NEW c \in Ctx, ContextCreate(c) PROVE TypeOK'
    BY <1>1, Zenon DEF TypeOK, ContextCreate
  <1>2. ASSUME NEW c \in Ctx, ContextDestroy(c) PROVE TypeOK'
    BY <1>2, Zenon DEF TypeOK, ContextDestroy, Cleared
  <1>3. ASSUME NEW c \in Ctx, NEW b \in BlobIds, NEW size \in Sizes,
               NEW iova \in GuestVa(c), GemNew(c, b, size, iova)
        PROVE  TypeOK'
    <2>1. iova \in Nat
      <3>1. ctx[c] \in Nat /\ SliceSize \in Nat
        BY <1>3, ObjectsAssumption DEF TypeOK, GemNew
      <3>2. ctx[c] * SliceSize \in Nat
        BY <3>1
      <3>. QED BY <1>3, <3>1, <3>2 DEF GuestVa, Base
    <2>. QED BY <1>3, <2>1, Zenon DEF TypeOK, GemNew
  <1>4. ASSUME NEW c \in Ctx, NEW b \in BlobIds, NEW p \in Pages, SetGuestBlobFd(c, b, p)
        PROVE  TypeOK'
    BY <1>4, Zenon DEF TypeOK, SetGuestBlobFd
  <1>4a. ASSUME NEW c \in Ctx, NEW b \in BlobIds, CreateWithoutFd(c, b) PROVE TypeOK'
    BY <1>4a, Zenon DEF TypeOK, CreateWithoutFd
  <1>5. ASSUME NEW c \in Ctx, NEW b \in BlobIds, NEW r \in ResIds, GetBlobRefused(c, b, r)
        PROVE  TypeOK'
    BY <1>5, Zenon DEF TypeOK, GetBlobRefused, LeftParked
  <1>6. ASSUME NEW c \in Ctx, NEW b \in BlobIds, NEW r \in ResIds, GetBlobMismatch(c, b, r)
        PROVE  TypeOK'
    BY <1>6, Zenon DEF TypeOK, GetBlobMismatch, LeftParked, Retrieve
  <1>6a. ASSUME NEW c \in Ctx, NEW b \in BlobIds, NEW r \in ResIds, GetBlobNoFd(c, b, r)
        PROVE  TypeOK'
    BY <1>6a, Zenon DEF TypeOK, GetBlobNoFd, Retrieve
  <1>7. ASSUME NEW c \in Ctx, NEW b \in BlobIds, NEW r \in ResIds, GetBlobImportFails(c, b, r)
        PROVE  TypeOK'
    BY <1>7, Zenon DEF TypeOK, GetBlobImportFails, TakeFd, Retrieve
  <1>8. ASSUME NEW c \in Ctx, NEW b \in BlobIds, NEW r \in ResIds, GetBlobBindFails(c, b, r)
        PROVE  TypeOK'
    BY <1>8, ObjectsAssumption DEF TypeOK, GetBlobBindFails, TakeFd, Retrieve
  <1>9. ASSUME NEW c \in Ctx, NEW b \in BlobIds, NEW r \in ResIds, NEW e \in BOOLEAN,
               GetBlobBound(c, b, r, e),
               res' \in [ResIds -> [pages : Pages, size : Sizes] \cup {None}]
        PROVE  TypeOK'
    <2>1. parked[c] \in Pages /\ mems < MaxMems
      BY <1>9, Zenon DEF GetBlobBound, TypeOK
    <2>2. Import(c, parked[c], TRUE) \in Mem /\ mems' \in 0 .. MaxMems
      BY <1>9, <2>1, ImportType, Zenon DEF GetBlobBound
    <2>3. blobs[c][b] \in [size : Sizes, iova : Nat]
      BY <1>9 DEF GetBlobBound, Retrieve, TypeOK
    <2>4. vbo' \in [VA -> Mem \cup {None}]
      BY <1>9, <2>2, BoundType, Zenon DEF GetBlobBound
    <2>5. objs' \in [Ctx -> [ResIds -> Obj \cup {None}]]
      <3>1. [mem |-> Import(c, parked[c], TRUE), size |-> blobs[c][b].size,
             iova |-> blobs[c][b].iova, exported |-> e] \in Obj
        BY <2>2, <2>3, Zenon DEF Obj
      <3>. QED BY <1>9, <3>1, Zenon DEF GetBlobBound, TypeOK
    <2>6. /\ blobs' \in [Ctx -> [BlobIds -> [size : Sizes, iova : Nat] \cup {None}]]
          /\ parked' \in [Ctx -> Pages \cup {None}]
          /\ vmm' \in [ctx : Ctx, blob : BlobIds, pages : Pages \cup {None}] \cup {None}
          /\ refused' \in [Ctx -> BOOLEAN]
      BY <1>9, Zenon DEF GetBlobBound, TakeFd, Retrieve, TypeOK
    <2>. QED BY <1>9, <2>2, <2>4, <2>5, <2>6, Zenon DEF GetBlobBound, TypeOK
  <1>10. ASSUME NEW c \in Ctx, NEW b \in BlobIds, NEW r \in ResIds, GetBlob(c, b, r)
         PROVE  TypeOK'
    <2>1. parked[c] \in Pages /\ blobs[c][b] \in [size : Sizes, iova : Nat]
      BY <1>10 DEF GetBlob, GetBlobBound, Retrieve, TypeOK
    <2>2. res' \in [ResIds -> [pages : Pages, size : Sizes] \cup {None}]
      BY <1>10, <2>1, Zenon DEF GetBlob, TypeOK
    <2>. QED BY <1>9, <1>10, <2>2, Zenon DEF GetBlob
  <1>11. ASSUME NEW c \in Ctx, NEW b \in BlobIds, NEW r \in ResIds, GetBlobDupFails(c, b, r)
         PROVE  TypeOK'
    BY <1>9, <1>11, Zenon DEF GetBlobDupFails, TypeOK
  <1>12. ASSUME NEW c \in Ctx, NEW r \in ResIds, NEW iova \in GuestVa(c) \cup {0},
                SetIova(c, r, iova)
         PROVE  TypeOK'
    <2>1. objs[c][r] \in Obj /\ objs[c][r].mem \in Mem
      BY <1>12 DEF SetIova, TypeOK, Obj
    <2>2. vbo' \in [VA -> Mem \cup {None}]
      BY <1>12, <2>1, BoundType, Zenon DEF SetIova, TypeOK
    <2>3. iova \in Nat
      <3>1. CASE iova = 0
        BY <3>1, Zenon
      <3>2. CASE iova # 0
        <4>1. iova_in_slice(c, iova, objs[c][r].size) /\ iova \in GuestVa(c)
          BY <1>12, <3>2, Zenon DEF SetIova
        <4>2. ctx[c] \in Nat /\ SliceSize \in Nat
          BY <1>12, ObjectsAssumption DEF SetIova, ObjectsOwned, TypeOK
        <4>3. ctx[c] * SliceSize \in Nat
          BY <4>2
        <4>. QED BY <4>1, <4>2, <4>3 DEF GuestVa, Base
      <3>. QED BY <3>1, <3>2, Zenon
    <2>4. objs' \in [Ctx -> [ResIds -> Obj \cup {None}]]
      <3>1. [objs[c][r] EXCEPT !.iova = iova] \in Obj
        BY <2>1, <2>3, Zenon DEF Obj
      <3>. QED BY <1>12, <3>1, Zenon DEF SetIova, TypeOK
    <2>. QED BY <1>12, <2>2, <2>4, Zenon DEF SetIova, TypeOK
  <1>13. ASSUME NEW c \in Ctx, NEW r \in ResIds, AttachResource(c, r) PROVE TypeOK'
    <2>1. res[r] \in [pages : Pages, size : Sizes]
      BY <1>13, Zenon DEF AttachResource, TypeOK
    <2>2. Import(c, res[r].pages, FALSE) \in Mem /\ mems' \in 0 .. MaxMems
      BY <1>13, <2>1, ImportType, Zenon DEF AttachResource
    <2>3. [mem |-> Import(c, res[r].pages, FALSE), size |-> res[r].size, iova |-> 0,
           exported |-> FALSE] \in Obj
      BY <2>1, <2>2, Zenon DEF Obj
    <2>. QED BY <1>13, <2>2, <2>3, Zenon DEF AttachResource, TypeOK
  <1>14. ASSUME NEW c \in Ctx, NEW r \in ResIds, DetachResource(c, r) PROVE TypeOK'
    BY <1>14, UnboundType, Zenon DEF DetachResource, TypeOK
  <1>15. ASSUME NEW r \in ResIds, ResourceUnref(r) PROVE TypeOK'
    BY <1>15, UnboundType, Zenon DEF ResourceUnref, TypeOK
  <1>16. CASE UNCHANGED vars
    BY <1>16, Zenon DEF vars, TypeOK
  <1>. QED BY <1>1, <1>2, <1>3, <1>4, <1>4a, <1>5, <1>6, <1>6a, <1>7, <1>8, <1>10, <1>11,
              <1>12, <1>13, <1>14, <1>15, <1>16, Zenon DEF Next

\* An object enters a table only in the context that imported it, and every
\* object leaves with its context.
LEMMA OwnedStep == TypeOK /\ ObjectsOwned /\ [Next]_vars => ObjectsOwned'
  <1> SUFFICES ASSUME TypeOK, ObjectsOwned, [Next]_vars PROVE ObjectsOwned'
    OBVIOUS
  <1>1. ASSUME NEW c \in Ctx, ContextCreate(c) PROVE ObjectsOwned'
    BY <1>1, ObjectsAssumption, ZenonT(40) DEF TypeOK, ContextCreate, ObjectsOwned, NoSlice
  <1>2. ASSUME NEW c \in Ctx, ContextDestroy(c) PROVE ObjectsOwned'
    BY <1>2, Zenon DEF TypeOK, ContextDestroy, ObjectsOwned
  <1>3. ASSUME NEW c \in Ctx, NEW b \in BlobIds, NEW r \in ResIds, NEW e \in BOOLEAN,
               GetBlobBound(c, b, r, e)
        PROVE  ObjectsOwned'
    <2>1. ctx[c] # NoSlice
      BY <1>3, Zenon DEF GetBlobBound, Retrieve, ObjectsOwned
    <2>. QED BY <1>3, <2>1, Zenon DEF TypeOK, GetBlobBound, Retrieve, ObjectsOwned, Import
  <1>4. ASSUME NEW c \in Ctx, NEW r \in ResIds, NEW iova, SetIova(c, r, iova)
        PROVE  ObjectsOwned'
    BY <1>4 DEF TypeOK, SetIova, ObjectsOwned, Obj
  <1>5. ASSUME NEW c \in Ctx, NEW r \in ResIds, AttachResource(c, r) PROVE ObjectsOwned'
    BY <1>5, Zenon DEF TypeOK, AttachResource, ObjectsOwned, Import
  <1>6. ASSUME NEW c \in Ctx, NEW r \in ResIds, DetachResource(c, r) PROVE ObjectsOwned'
    BY <1>6, Zenon DEF TypeOK, DetachResource, ObjectsOwned
  <1>7. ASSUME NEW r \in ResIds, ResourceUnref(r) PROVE ObjectsOwned'
    BY <1>7, Zenon DEF TypeOK, ResourceUnref, ObjectsOwned
  <1>8. ASSUME NEW c \in Ctx, NEW b \in BlobIds, NEW size, NEW iova, GemNew(c, b, size, iova)
        PROVE  ObjectsOwned'
    BY <1>8, Zenon DEF TypeOK, GemNew, ObjectsOwned
  <1>9. ASSUME NEW c \in Ctx, NEW b \in BlobIds, NEW r \in ResIds,
               Retrieve(c, b, r), UNCHANGED <<ctx, objs>>
        PROVE  ObjectsOwned'
    BY <1>9 DEF TypeOK, Retrieve, ObjectsOwned
  <1>10. ASSUME UNCHANGED <<ctx, objs, blobs>> PROVE ObjectsOwned'
    BY <1>10, Zenon DEF ObjectsOwned
  <1>11. ASSUME NEW c \in Ctx, NEW b \in BlobIds, NEW r \in ResIds,
                \/ GetBlobRefused(c, b, r)
                \/ GetBlobMismatch(c, b, r)
                \/ GetBlobNoFd(c, b, r)
                \/ GetBlobImportFails(c, b, r)
                \/ GetBlobBindFails(c, b, r)
                \/ GetBlob(c, b, r)
                \/ GetBlobDupFails(c, b, r)
         PROVE  ObjectsOwned'
    BY <1>3, <1>9, <1>10, <1>11, Zenon DEF GetBlobRefused, GetBlobMismatch, GetBlobNoFd,
           GetBlobImportFails, GetBlobBindFails, GetBlob, GetBlobDupFails
  <1>12. ASSUME NEW c \in Ctx, NEW b \in BlobIds,
                CreateWithoutFd(c, b) \/ \E p \in Pages : SetGuestBlobFd(c, b, p)
         PROVE  ObjectsOwned'
    BY <1>10, <1>12, Zenon DEF SetGuestBlobFd, CreateWithoutFd
  <1>13. CASE UNCHANGED vars
    BY <1>10, <1>13, Zenon DEF vars
  <1>. QED BY <1>1, <1>2, <1>4, <1>5, <1>6, <1>7, <1>8, <1>11, <1>12, <1>13, Zenon DEF Next

\* The state keeps its shape on every path, failures included.
THEOREM TypeCorrect == Spec => []TypeOK
  <1>1. Init => TypeOK /\ ObjectsOwned
    BY InitType DEF Init, ObjectsOwned
  <1>. QED BY <1>1, TypeStep, OwnedStep, PTL DEF Spec

-----------------------------------------------------------------------------
\* A bind in the slice of its context keeps the slices isolated.
LEMMA BoundIsolated ==
    ASSUME SliceInv, NEW c \in Ctx, ctx[c] # NoSlice, NEW m \in Mem, m.ctx = c,
           NEW iova \in Nat, NEW size \in Sizes, iova_in_slice(c, iova, size),
           vbo' = Bound(m, iova, size), UNCHANGED <<ctx, unbind_freed>>
    PROVE  RangesInOwnSlice'
  <1> SUFFICES ASSUME NEW v \in VA, unbind_freed, vbo'[v] # None
               PROVE  ctx[vbo'[v].ctx] # NoSlice /\ v \in Slice(ctx[vbo'[v].ctx])
    BY Zenon DEF RangesInOwnSlice
  <1>1. CASE v \in Span(iova, size)
    <2>1. vbo'[v] = m
      BY <1>1, Zenon DEF Bound
    <2>2. v \in Slice(ctx[c])
      BY <1>1, InSlice, Zenon DEF SliceInv
    <2>. QED BY <2>1, <2>2, Zenon
  <1>2. CASE v \notin Span(iova, size)
    <2>1. vbo'[v] = vbo[v]
      BY <1>2, Zenon DEF Bound
    <2>. QED BY <2>1, Zenon DEF SliceInv, RangesInOwnSlice
  <1>. QED BY <1>1, <1>2, Zenon

\* Unbinding ranges, whichever they are, keeps the slices isolated.
LEMMA FewerRangesIsolated ==
    ASSUME RangesInOwnSlice, UNCHANGED <<ctx, unbind_freed>>,
           \A v \in VA : vbo'[v] = vbo[v] \/ vbo'[v] = None
    PROVE  RangesInOwnSlice'
  <1>. QED BY Zenon DEF RangesInOwnSlice

\* Every call keeps the slices isolated.
LEMMA SliceStep == SliceInv /\ [Next]_vars => RangesInOwnSlice'
  <1> SUFFICES ASSUME SliceInv, [Next]_vars PROVE RangesInOwnSlice'
    OBVIOUS
  <1> USE DEF SliceInv
  <1>1. ASSUME NEW c \in Ctx, ContextCreate(c) PROVE RangesInOwnSlice'
    <2> SUFFICES ASSUME NEW v \in VA, unbind_freed, vbo[v] # None
                 PROVE  ctx'[vbo[v].ctx] # NoSlice /\ v \in Slice(ctx'[vbo[v].ctx])
      BY <1>1, Zenon DEF RangesInOwnSlice, ContextCreate
    <2>1. ctx[vbo[v].ctx] # NoSlice /\ v \in Slice(ctx[vbo[v].ctx])
      BY Zenon DEF RangesInOwnSlice
    <2>2. vbo[v].ctx # c /\ vbo[v].ctx \in Ctx
      BY <1>1, <2>1, Zenon DEF ContextCreate, TypeOK, Mem
    <2>3. ctx'[vbo[v].ctx] = ctx[vbo[v].ctx]
      BY <1>1, <2>2, Zenon DEF ContextCreate, TypeOK
    <2>. QED BY <2>1, <2>3, Zenon
  <1>2. ASSUME NEW c \in Ctx, ContextDestroy(c) PROVE RangesInOwnSlice'
    <2> SUFFICES ASSUME NEW v \in VA, unbind_freed, vbo'[v] # None
                 PROVE  ctx'[vbo'[v].ctx] # NoSlice /\ v \in Slice(ctx'[vbo'[v].ctx])
      BY <1>2, Zenon DEF RangesInOwnSlice, ContextDestroy
    <2>1. v \notin Slice(ctx[c]) /\ vbo'[v] = vbo[v]
      BY <1>2, Zenon DEF ContextDestroy, Cleared
    <2>2. ctx[vbo[v].ctx] # NoSlice /\ v \in Slice(ctx[vbo[v].ctx])
      BY <2>1, Zenon DEF RangesInOwnSlice
    <2>3. vbo[v].ctx # c /\ vbo[v].ctx \in Ctx
      BY <2>1, <2>2, Zenon DEF TypeOK, Mem
    <2>4. ctx'[vbo[v].ctx] = ctx[vbo[v].ctx]
      BY <1>2, <2>3, Zenon DEF ContextDestroy, TypeOK
    <2>. QED BY <2>1, <2>2, <2>4, Zenon
  <1>3. ASSUME NEW c \in Ctx, NEW b \in BlobIds, NEW r \in ResIds, NEW e \in BOOLEAN,
               GetBlobBound(c, b, r, e)
        PROVE  RangesInOwnSlice'
    <2>1. parked[c] \in Pages /\ blobs[c][b] \in [size : Sizes, iova : Nat]
      BY <1>3 DEF GetBlobBound, Retrieve, TypeOK
    <2>2. Import(c, parked[c], TRUE) \in Mem
      BY <1>3, <2>1, ImportType, Zenon DEF GetBlobBound
    <2>3. Import(c, parked[c], TRUE).ctx = c /\ ctx[c] # NoSlice
      BY <1>3, Zenon DEF Import, GetBlobBound, Retrieve, ObjectsOwned
    <2>4. /\ iova_in_slice(c, blobs[c][b].iova, blobs[c][b].size)
          /\ vbo' = Bound(Import(c, parked[c], TRUE), blobs[c][b].iova, blobs[c][b].size)
          /\ UNCHANGED <<ctx, unbind_freed>>
      BY <1>3, Zenon DEF GetBlobBound
    <2>5. blobs[c][b].iova \in Nat /\ blobs[c][b].size \in Sizes
      BY <2>1, Zenon
    <2>. QED BY <2>2, <2>3, <2>4, <2>5, BoundIsolated, Zenon
  <1>4. ASSUME NEW c \in Ctx, NEW r \in ResIds, NEW iova \in GuestVa(c) \cup {0},
               SetIova(c, r, iova)
        PROVE  RangesInOwnSlice'
    <2>1. objs[c][r] \in Obj /\ objs[c][r].mem.ctx = c /\ ctx[c] # NoSlice
      BY <1>4 DEF SetIova, TypeOK, ObjectsOwned
    <2>2. CASE iova = 0
      BY <1>4, <2>2, FewerRangesIsolated, Zenon DEF SetIova
    <2>3. CASE iova # 0
      <3>1. iova \in Nat
        <4>1. ctx[c] \in Nat /\ SliceSize \in Nat
          BY <2>1, ObjectsAssumption DEF TypeOK
        <4>2. ctx[c] * SliceSize \in Nat
          BY <4>1
        <4>. QED BY <1>4, <2>3, <4>1, <4>2 DEF GuestVa, Base
      <3>2. objs[c][r].mem \in Mem /\ objs[c][r].size \in Sizes
        BY <2>1, Zenon DEF Obj
      <3>3. /\ iova_in_slice(c, iova, objs[c][r].size)
            /\ vbo' = Bound(objs[c][r].mem, iova, objs[c][r].size)
            /\ UNCHANGED <<ctx, unbind_freed>>
        BY <1>4, <2>3, Zenon DEF SetIova
      <3>. QED BY <2>1, <3>1, <3>2, <3>3, BoundIsolated, Zenon
    <2>. QED BY <2>2, <2>3, Zenon
  <1>5. ASSUME NEW c \in Ctx, NEW r \in ResIds, DetachResource(c, r) PROVE RangesInOwnSlice'
    BY <1>5, FewerRangesIsolated, Zenon DEF DetachResource, Unbound
  <1>6. ASSUME NEW r \in ResIds, ResourceUnref(r) PROVE RangesInOwnSlice'
    BY <1>6, FewerRangesIsolated, Zenon DEF ResourceUnref, Unbound
  <1>7. ASSUME UNCHANGED <<ctx, vbo, unbind_freed>> PROVE RangesInOwnSlice'
    BY <1>7, Zenon DEF RangesInOwnSlice
  <1>8. ASSUME NEW c \in Ctx, NEW b \in BlobIds, NEW r \in ResIds,
               \/ GetBlobRefused(c, b, r)
               \/ GetBlobMismatch(c, b, r)
               \/ GetBlobNoFd(c, b, r)
               \/ GetBlobImportFails(c, b, r)
               \/ GetBlobBindFails(c, b, r)
               \/ GetBlob(c, b, r)
               \/ GetBlobDupFails(c, b, r)
        PROVE  RangesInOwnSlice'
    BY <1>3, <1>7, <1>8, Zenon DEF GetBlobRefused, GetBlobMismatch, GetBlobNoFd,
           GetBlobImportFails, GetBlobBindFails, GetBlob, GetBlobDupFails
  <1>. QED BY <1>1, <1>2, <1>4, <1>5, <1>6, <1>7, <1>8, ZenonT(40)
           DEF Next, vars, SetGuestBlobFd, CreateWithoutFd, GemNew, AttachResource

\* va_slice_claim never hands out a slice that is held.
LEMMA ExclusiveStep == TypeOK /\ SlicesExclusive /\ [Next]_vars => SlicesExclusive'
  <1> SUFFICES ASSUME TypeOK, SlicesExclusive, [Next]_vars PROVE SlicesExclusive'
    OBVIOUS
  <1>1. ASSUME NEW c \in Ctx, ContextCreate(c) PROVE SlicesExclusive'
    <2>1. PICK s \in 0 .. NumSlices - 1 :
              /\ \A e \in Ctx : ctx[e] # NoSlice => ctx[e] # s
              /\ ctx' = [ctx EXCEPT ![c] = s]
      BY <1>1, Zenon DEF ContextCreate
    <2>2. s # NoSlice
      BY DEF NoSlice
    <2>. QED BY <1>1, <2>1, <2>2, Zenon DEF SlicesExclusive, TypeOK, ContextCreate
  <1>2. ASSUME NEW c \in Ctx, ContextDestroy(c) PROVE SlicesExclusive'
    BY <1>2, Zenon DEF SlicesExclusive, TypeOK, ContextDestroy
  <1>3. ASSUME UNCHANGED ctx PROVE SlicesExclusive'
    BY <1>3, Zenon DEF SlicesExclusive
  <1>4. ASSUME NEW c \in Ctx, NEW b \in BlobIds, NEW r \in ResIds,
               \/ GetBlobRefused(c, b, r) \/ GetBlobMismatch(c, b, r) \/ GetBlobNoFd(c, b, r)
               \/ GetBlobImportFails(c, b, r) \/ GetBlobBindFails(c, b, r)
               \/ GetBlob(c, b, r) \/ GetBlobDupFails(c, b, r)
        PROVE  SlicesExclusive'
    BY <1>3, <1>4, Zenon DEF GetBlobRefused, GetBlobMismatch, GetBlobNoFd,
           GetBlobImportFails, GetBlobBindFails,
           GetBlob, GetBlobDupFails, GetBlobBound
  <1>5. ASSUME NEW c \in Ctx, NEW r \in ResIds,
               \/ \E iova \in GuestVa(c) \cup {0} : SetIova(c, r, iova)
               \/ AttachResource(c, r) \/ DetachResource(c, r)
        PROVE  SlicesExclusive'
    BY <1>3, <1>5, Zenon DEF SetIova, AttachResource, DetachResource
  <1>6. ASSUME NEW c \in Ctx, NEW b \in BlobIds,
               \/ \E size \in Sizes, iova \in GuestVa(c) : GemNew(c, b, size, iova)
               \/ \E pg \in Pages : SetGuestBlobFd(c, b, pg)
               \/ CreateWithoutFd(c, b)
        PROVE  SlicesExclusive'
    BY <1>3, <1>6, Zenon DEF GemNew, SetGuestBlobFd, CreateWithoutFd
  <1>7. ASSUME NEW r \in ResIds, ResourceUnref(r) PROVE SlicesExclusive'
    BY <1>3, <1>7, Zenon DEF ResourceUnref
  <1>8. CASE UNCHANGED vars
    BY <1>3, <1>8, Zenon DEF vars
  <1>. QED BY <1>1, <1>2, <1>4, <1>5, <1>6, <1>7, <1>8, Zenon DEF Next

\* Contexts hold different slices, and in a process whose contexts unbind freed
\* buffers every GPU range lies in the slice of the living context that bound
\* it (kgsl_vbo_op's check, the claim and release of slices, the clearing in
\* kgsl_renderer_destroy).
THEOREM Isolation == Spec => []SlicesIsolated
  <1> DEFINE Inv == SliceInv /\ SlicesExclusive
  <1>1. Init => Inv
    BY InitType DEF Init, SliceInv, ObjectsOwned, RangesInOwnSlice, SlicesExclusive
  <1>2. Inv /\ [Next]_vars => Inv'
    BY TypeStep, OwnedStep, SliceStep, ExclusiveStep, Zenon DEF SliceInv
  <1>3. Inv => SlicesIsolated
    BY Zenon DEF SliceInv, SlicesIsolated
  <1>. QED BY <1>1, <1>2, <1>3, PTL DEF Spec

-----------------------------------------------------------------------------
\* NoStaleOwnRange in terms of table entries: each range has an object filed.
Filed(m) == \E r \in ResIds : objs[m.ctx][r] # None /\ objs[m.ctx][r].mem = m

LEMMA StaleAsFiled ==
    NoStaleOwnRange <=>
        \A v \in VA : unbind_freed /\ vbo[v] # None /\ vbo[v].guest => Filed(vbo[v])
  <1>. QED BY Zenon DEF NoStaleOwnRange, Filed, Objects

LEMMA StaleAsFiledNext ==
    NoStaleOwnRange' <=>
        \A v \in VA : unbind_freed' /\ vbo'[v] # None /\ vbo'[v].guest => Filed(vbo[v])'
  <1>. QED BY Zenon DEF NoStaleOwnRange, Filed, Objects

\* Objects that stay filed, with ranges that stay or go, leave no stale range.
LEMMA FiledKept ==
    ASSUME NoStaleOwnRange, UNCHANGED unbind_freed,
           \A v \in VA : vbo'[v] = vbo[v] \/ vbo'[v] = None,
           \A v \in VA : unbind_freed /\ vbo'[v] # None /\ vbo[v].guest /\ Filed(vbo[v])
                            => \E r \in ResIds : /\ objs'[vbo[v].ctx][r] # None
                                                 /\ objs'[vbo[v].ctx][r].mem = vbo[v]
    PROVE  NoStaleOwnRange'
  <1> SUFFICES ASSUME NEW v \in VA, unbind_freed, vbo'[v] # None, vbo'[v].guest
               PROVE  Filed(vbo[v])'
    BY StaleAsFiledNext, Zenon
  <1>1. vbo'[v] = vbo[v]
    OBVIOUS
  <1>2. Filed(vbo[v])
    BY <1>1, StaleAsFiled, Zenon
  <1>. QED BY <1>1, <1>2, Zenon DEF Filed

\* Every call of a context that unbinds freed buffers leaves no stale range.
LEMMA StaleStep == SliceInv /\ NoStaleOwnRange /\ [Next]_vars => NoStaleOwnRange'
  <1> SUFFICES ASSUME SliceInv, NoStaleOwnRange, [Next]_vars PROVE NoStaleOwnRange'
    OBVIOUS
  <1> USE DEF SliceInv
  <1>0. \A v \in VA : vbo[v] # None => vbo[v] \in Mem /\ vbo[v].ctx \in Ctx
    BY Zenon DEF TypeOK, Mem
  <1>1. ASSUME UNCHANGED <<vbo, objs, unbind_freed>> PROVE NoStaleOwnRange'
    BY <1>1, FiledKept, Zenon DEF Filed
  <1>2. ASSUME NEW c \in Ctx, ContextDestroy(c) PROVE NoStaleOwnRange'
    <2>1. \A v \in VA : vbo'[v] = vbo[v] \/ vbo'[v] = None
      BY <1>2, Zenon DEF ContextDestroy, Cleared
    <2>2. ASSUME NEW v \in VA, unbind_freed, vbo'[v] # None
          PROVE  vbo[v].ctx # c
      BY <1>2, <2>2, Zenon DEF ContextDestroy, Cleared, RangesInOwnSlice
    <2>3. \A d \in Ctx : d # c => objs'[d] = objs[d]
      BY <1>2, Zenon DEF ContextDestroy, TypeOK
    <2>4. ASSUME NEW v \in VA, unbind_freed, vbo'[v] # None, Filed(vbo[v])
          PROVE  \E r \in ResIds : /\ objs'[vbo[v].ctx][r] # None
                                   /\ objs'[vbo[v].ctx][r].mem = vbo[v]
      BY <1>0, <2>1, <2>2, <2>3, <2>4, Zenon DEF Filed
    <2>. QED BY <1>2, <2>1, <2>4, FiledKept, Zenon DEF ContextDestroy
  <1>3. ASSUME NEW c \in Ctx, NEW b \in BlobIds, NEW r \in ResIds, NEW e \in BOOLEAN,
               GetBlobBound(c, b, r, e), TypeOK'
        PROVE  NoStaleOwnRange'
    <2> DEFINE m == Import(c, parked[c], TRUE)
    <2>1. objs[c][r] = None /\ objs'[c][r] \in Obj /\ objs'[c][r].mem = m
      <3>1. objs[c][r] = None /\ objs'[c][r].mem = m
        BY <1>3 DEF GetBlobBound, Retrieve, TypeOK
      <3>2. objs'[c][r] = [mem |-> m, size |-> blobs[c][b].size, iova |-> blobs[c][b].iova,
                           exported |-> e]
        BY <1>3, Zenon DEF GetBlobBound, TypeOK
      <3>3. blobs[c][b] \in [size : Sizes, iova : Nat] /\ parked[c] \in Pages
        BY <1>3 DEF GetBlobBound, Retrieve, TypeOK
      <3>4. m \in Mem
        BY <1>3, <3>3, ImportType, Zenon DEF GetBlobBound
      <3>5. blobs[c][b].size \in Sizes /\ blobs[c][b].iova \in Nat
        BY <3>3, Zenon
      <3> HIDE DEF m
      <3>6. objs'[c][r] \in Obj
        BY <1>3, <3>2, <3>4, <3>5 DEF Obj
      <3>. QED BY <3>1, <3>6, Zenon
    <2>2. objs'[c][r] # None
      BY <2>1, ObjNotNone, Zenon
    <2>3. \A d \in Ctx, q \in ResIds : objs[d][q] # None => objs'[d][q] = objs[d][q]
      BY <1>3, <2>1 DEF GetBlobBound, TypeOK
    <2> SUFFICES ASSUME NEW v \in VA, unbind_freed, vbo'[v] # None, vbo'[v].guest
                 PROVE  Filed(vbo[v])'
      BY <1>3, StaleAsFiledNext, Zenon DEF GetBlobBound
    <2>4. CASE vbo'[v] = m
      <3>1. m.ctx = c
        BY Zenon DEF Import
      <3>. QED BY <2>1, <2>2, <2>4, <3>1, Zenon DEF Filed
    <2>5. CASE vbo'[v] = vbo[v]
      <3>1. Filed(vbo[v])
        BY <2>5, StaleAsFiled, Zenon
      <3>. QED BY <1>0, <2>3, <2>5, <3>1, Zenon DEF Filed
    <2>. QED BY <1>3, <2>4, <2>5, Zenon DEF GetBlobBound, Bound
  <1>4. ASSUME NEW c \in Ctx, NEW r \in ResIds, NEW iova \in GuestVa(c) \cup {0},
               SetIova(c, r, iova), TypeOK'
        PROVE  NoStaleOwnRange'
    <2> DEFINE m == objs[c][r].mem
    <2>1. objs[c][r] \in Obj /\ m.ctx = c
      BY <1>4 DEF SetIova, TypeOK, ObjectsOwned
    <2>2. objs'[c][r] = [objs[c][r] EXCEPT !.iova = iova]
      BY <1>4, Zenon DEF SetIova, TypeOK
    <2>3. objs'[c][r] # None /\ objs'[c][r].mem = m
      <3>1. objs'[c][r].mem = m
        BY <2>1, <2>2, Zenon DEF Obj
      <3>2. DOMAIN objs'[c][r] = DOMAIN objs[c][r]
        BY <2>2, Zenon
      <3>3. "mem" \in DOMAIN objs[c][r]
        BY <2>1, Zenon DEF Obj
      <3>4. DOMAIN <<>> = {}
        OBVIOUS
      <3>. QED BY <3>1, <3>2, <3>3, <3>4, Zenon DEF None
    <2>4. \A d \in Ctx, q \in ResIds : <<d, q>> # <<c, r>> => objs'[d][q] = objs[d][q]
      BY <1>4, Zenon DEF SetIova, TypeOK
    <2> SUFFICES ASSUME NEW v \in VA, unbind_freed, vbo'[v] # None, vbo'[v].guest
                 PROVE  Filed(vbo[v])'
      BY <1>4, StaleAsFiledNext, Zenon DEF SetIova
    <2>5. CASE vbo'[v] = m
      BY <2>1, <2>3, <2>5, Zenon DEF Filed
    <2>6. CASE vbo'[v] = vbo[v]
      <3>1. PICK q \in ResIds : objs[vbo[v].ctx][q] # None /\ objs[vbo[v].ctx][q].mem = vbo[v]
        BY <2>6, StaleAsFiled, Zenon DEF Filed
      <3>2. objs'[vbo[v].ctx][q] # None /\ objs'[vbo[v].ctx][q].mem = vbo[v]
        BY <1>0, <2>3, <2>4, <2>6, <3>1, Zenon
      <3>. QED BY <2>6, <3>2, Zenon DEF Filed
    <2>. QED BY <1>4, <2>5, <2>6, Zenon DEF SetIova, Bound
  <1>5. ASSUME NEW c \in Ctx, NEW r \in ResIds, AttachResource(c, r) PROVE NoStaleOwnRange'
    <2>1. \A d \in Ctx, q \in ResIds : objs[d][q] # None => objs'[d][q] = objs[d][q]
      BY <1>5, Zenon DEF AttachResource, TypeOK
    <2>2. vbo' = vbo /\ unbind_freed' = unbind_freed
      BY <1>5, Zenon DEF AttachResource
    <2>. QED BY <1>0, <2>1, <2>2, FiledKept, Zenon DEF Filed
  <1>6. ASSUME NEW freed, NEW r \in ResIds,
               vbo' = Unbound(freed), UNCHANGED unbind_freed,
               \A d \in Ctx, q \in ResIds :
                   \/ objs'[d][q] = objs[d][q]
                   \/ q = r /\ objs[d][q] \in freed
        PROVE  NoStaleOwnRange'
    <2>1. \A v \in VA : vbo'[v] = vbo[v] \/ vbo'[v] = None
      BY <1>6, Zenon DEF Unbound
    <2>2. ASSUME NEW v \in VA, unbind_freed, vbo'[v] # None, vbo[v].guest, Filed(vbo[v])
          PROVE  \E q \in ResIds : /\ objs'[vbo[v].ctx][q] # None
                                   /\ objs'[vbo[v].ctx][q].mem = vbo[v]
      <3>1. PICK q \in ResIds : objs[vbo[v].ctx][q] # None /\ objs[vbo[v].ctx][q].mem = vbo[v]
        BY <2>2, Zenon DEF Filed
      <3>2. vbo[v] # None /\ vbo[v].ctx \in Ctx /\ v \in Slice(ctx[vbo[v].ctx])
        BY <1>0, <2>1, <2>2, Zenon DEF RangesInOwnSlice
      <3>3. objs[vbo[v].ctx][q] \notin freed
        BY <1>6, <2>2, <3>1, <3>2, Zenon DEF Unbound
      <3>. QED BY <1>6, <3>1, <3>2, <3>3, Zenon
    <2>. QED BY <1>6, <2>1, <2>2, FiledKept, Zenon
  <1>7. ASSUME NEW c \in Ctx, NEW r \in ResIds, DetachResource(c, r) PROVE NoStaleOwnRange'
    <2>1. \A d \in Ctx, q \in ResIds :
              objs'[d][q] = objs[d][q] \/ (q = r /\ objs[d][q] \in {objs[c][r]})
      BY <1>7, Zenon DEF DetachResource, TypeOK
    <2>. QED BY <1>6, <1>7, <2>1, Zenon DEF DetachResource
  <1>8. ASSUME NEW r \in ResIds, ResourceUnref(r) PROVE NoStaleOwnRange'
    <2>1. \A d \in Ctx, q \in ResIds :
              objs'[d][q] = objs[d][q] \/ (q = r /\ objs[d][q] \in {objs[c][r] : c \in Ctx} \ {None})
      BY <1>8, Zenon DEF ResourceUnref, TypeOK
    <2>. QED BY <1>6, <1>8, <2>1, Zenon DEF ResourceUnref
  <1>9. TypeOK'
    BY TypeStep, Zenon
  <1>10. ASSUME NEW c \in Ctx, NEW b \in BlobIds, NEW r \in ResIds,
                \/ GetBlobRefused(c, b, r)
                \/ GetBlobMismatch(c, b, r)
                \/ GetBlobNoFd(c, b, r)
                \/ GetBlobImportFails(c, b, r)
                \/ GetBlobBindFails(c, b, r)
                \/ GetBlob(c, b, r)
                \/ GetBlobDupFails(c, b, r)
         PROVE  NoStaleOwnRange'
    BY <1>1, <1>3, <1>9, <1>10, Zenon DEF GetBlobRefused, GetBlobMismatch, GetBlobNoFd,
           GetBlobImportFails, GetBlobBindFails, GetBlob, GetBlobDupFails
  <1>. QED BY <1>1, <1>2, <1>4, <1>5, <1>7, <1>8, <1>9, <1>10
           DEF Next, vars, ContextCreate, GemNew, SetGuestBlobFd, CreateWithoutFd

\* kgsl_renderer_free_object leaves no range of a guest-allocated buffer bound
\* at any address the buffer ever had.  That its unbind covers only the
\* context's own slice is enough because of Isolation.
THEOREM NoStaleRanges == Spec => []NoStaleOwnRange
  <1>1. Init => SliceInv /\ NoStaleOwnRange
    BY InitType DEF Init, SliceInv, ObjectsOwned, RangesInOwnSlice, NoStaleOwnRange
  <1>2. SliceInv /\ NoStaleOwnRange /\ [Next]_vars => SliceInv' /\ NoStaleOwnRange'
    BY TypeStep, OwnedStep, SliceStep, StaleStep, Zenon DEF SliceInv
  <1>. QED BY <1>1, <1>2, PTL DEF Spec

-----------------------------------------------------------------------------
\* While the VMM is in the middle of a blob creation it passed an fd for, that
\* fd is the parked one; any other parked fd is one a refused get_blob left.
ParkedIsOfBlob ==
    /\ vmm # None /\ vmm.pages # None => parked[vmm.ctx] = vmm.pages
    /\ \A c \in Ctx : parked[c] # None =>
           refused[c] \/ (vmm # None /\ vmm.ctx = c /\ vmm.pages # None)

\* An fd is of the blob being created or a refused one's, in every step.
LEMMA ParkedStep == TypeOK /\ ParkedIsOfBlob /\ [Next]_vars => ParkedIsOfBlob'
  <1> SUFFICES ASSUME TypeOK, ParkedIsOfBlob, [Next]_vars PROVE ParkedIsOfBlob'
    OBVIOUS
  <1>1. ASSUME vmm' = None, vmm = None, parked' = parked, refused' = refused
        PROVE  ParkedIsOfBlob'
    BY <1>1, Zenon DEF ParkedIsOfBlob
  <1>2. ASSUME NEW c \in Ctx, NEW b \in BlobIds, NEW p \in Pages, SetGuestBlobFd(c, b, p)
        PROVE  ParkedIsOfBlob'
    <2>1. vmm'.ctx = c /\ vmm'.pages = p /\ DOMAIN vmm' = {"ctx", "blob", "pages"}
      BY <1>2, Zenon DEF SetGuestBlobFd
    <2>1a. vmm' # None
      <3>1. DOMAIN <<>> = {}
        OBVIOUS
      <3>. QED BY <2>1, <3>1, Zenon DEF None
    <2>2. parked'[c] = p
      BY <1>2, Zenon DEF SetGuestBlobFd, TypeOK
    <2>3. \A d \in Ctx \ {c} : parked'[d] = parked[d] /\ refused'[d] = refused[d]
      BY <1>2, Zenon DEF SetGuestBlobFd, TypeOK
    <2>4. vmm = None
      BY <1>2, Zenon DEF SetGuestBlobFd, CreatesBlob
    <2>. QED BY <2>1, <2>1a, <2>2, <2>3, <2>4, Zenon DEF ParkedIsOfBlob
  <1>3. ASSUME NEW c \in Ctx, NEW b \in BlobIds, CreateWithoutFd(c, b)
        PROVE  ParkedIsOfBlob'
    <2>1. vmm'.pages = None
      BY <1>3, Zenon DEF CreateWithoutFd
    <2>2. vmm = None /\ parked' = parked /\ refused' = refused
      BY <1>3, Zenon DEF CreateWithoutFd, CreatesBlob
    <2>. QED BY <2>1, <2>2, Zenon DEF ParkedIsOfBlob
  <1>4. ASSUME NEW c \in Ctx, NEW b \in BlobIds, NEW r \in ResIds,
               \/ GetBlobRefused(c, b, r) \/ GetBlobMismatch(c, b, r) \/ GetBlobNoFd(c, b, r)
               \/ GetBlobImportFails(c, b, r) \/ GetBlobBindFails(c, b, r)
               \/ GetBlob(c, b, r) \/ GetBlobDupFails(c, b, r)
        PROVE  ParkedIsOfBlob'
    <2>1. vmm' = None /\ vmm # None /\ vmm.ctx = c
      BY <1>4, Zenon DEF GetBlobRefused, GetBlobMismatch, GetBlobNoFd,
           GetBlobImportFails, GetBlobBindFails, GetBlob, GetBlobDupFails, GetBlobBound, Retrieve
    <2>2. \/ parked' = parked /\ LeftParked(c)
          \/ parked[c] = None /\ UNCHANGED <<parked, refused>>
          \/ TakeFd(c)
      BY <1>4, Zenon DEF GetBlobRefused, GetBlobMismatch, GetBlobNoFd,
           GetBlobImportFails, GetBlobBindFails, GetBlob, GetBlobDupFails, GetBlobBound, Retrieve
    <2>3. parked'[c] # None => refused'[c]
      BY <2>2, Zenon DEF LeftParked, TakeFd, TypeOK
    <2>4. \A d \in Ctx \ {c} : parked'[d] = parked[d] /\ refused'[d] = refused[d]
      BY <2>2, Zenon DEF LeftParked, TakeFd, TypeOK
    <2>. QED BY <2>1, <2>3, <2>4, Zenon DEF ParkedIsOfBlob
  <1>5. ASSUME NEW c \in Ctx, ContextDestroy(c) PROVE ParkedIsOfBlob'
    <2>1. vmm' = None /\ vmm = None
      BY <1>5, Zenon DEF ContextDestroy
    <2>2. parked'[c] = None
      BY <1>5, Zenon DEF ContextDestroy, TypeOK
    <2>3. \A d \in Ctx \ {c} : parked'[d] = parked[d] /\ refused'[d] = refused[d]
      BY <1>5, Zenon DEF ContextDestroy, TypeOK
    <2>. QED BY <2>1, <2>2, <2>3, Zenon DEF ParkedIsOfBlob
  <1>6. ASSUME NEW c \in Ctx,
               \/ ContextCreate(c)
               \/ \E b \in BlobIds, size \in Sizes, iova \in GuestVa(c) : GemNew(c, b, size, iova)
               \/ \E r \in ResIds, iova \in GuestVa(c) \cup {0} : SetIova(c, r, iova)
               \/ \E r \in ResIds : AttachResource(c, r) \/ DetachResource(c, r)
        PROVE  ParkedIsOfBlob'
    BY <1>1, <1>6, Zenon DEF ContextCreate, GemNew, SetIova, AttachResource, DetachResource
  <1>7. ASSUME NEW r \in ResIds, ResourceUnref(r) PROVE ParkedIsOfBlob'
    BY <1>1, <1>7, Zenon DEF ResourceUnref
  <1>8. CASE UNCHANGED vars
    BY <1>8, Zenon DEF vars, ParkedIsOfBlob
  <1>. QED BY <1>2, <1>3, <1>4, <1>5, <1>6, <1>7, <1>8, Zenon DEF Next

\* The pages a completed buffer may have: those passed for it, or, when none
\* were, those of an fd that a refused get_blob left.
OwnPages(c, r) ==
    IF vmm.pages # None THEN objs'[c][r].mem.pages = vmm.pages
    ELSE refused[c] /\ objs'[c][r].mem.pages = parked[c]

\* Only a get_blob that succeeds files a guest-allocated object, from the fd
\* that is parked.
LEMMA CompletedStep ==
    ASSUME TypeOK, ParkedIsOfBlob, [Next]_vars, NEW d \in Ctx, NEW q \in ResIds,
           objs'[d][q] # None, objs[d][q] = None, objs'[d][q].mem.guest
    PROVE  OwnPages(d, q)
  <1>1. ASSUME objs' = objs PROVE FALSE
    BY <1>1, Zenon
  <1>2. ASSUME NEW c \in Ctx, NEW b \in BlobIds, NEW r \in ResIds, NEW e,
               GetBlobBound(c, b, r, e)
        PROVE  OwnPages(d, q)
    <2>1. d = c /\ q = r
      BY <1>2, Zenon DEF GetBlobBound, TypeOK
    <2>2. objs'[d][q].mem = Import(c, parked[c], TRUE)
      BY <1>2, <2>1, Zenon DEF GetBlobBound, TypeOK
    <2>3. IF vmm.pages # None THEN parked[c] = vmm.pages ELSE refused[c]
      BY <1>2, Zenon DEF GetBlobBound, Retrieve, ParkedIsOfBlob
    <2>4. objs'[d][q].mem.pages = parked[c]
      BY <2>2, SMTT(20) DEF Import
    <2>. QED BY <2>1, <2>3, <2>4, Zenon DEF OwnPages
  <1>3. ASSUME NEW c \in Ctx, NEW b \in BlobIds, NEW r \in ResIds,
               \/ GetBlobRefused(c, b, r) \/ GetBlobMismatch(c, b, r) \/ GetBlobNoFd(c, b, r)
               \/ GetBlobImportFails(c, b, r) \/ GetBlobBindFails(c, b, r)
               \/ GetBlob(c, b, r) \/ GetBlobDupFails(c, b, r)
        PROVE  OwnPages(d, q)
    BY <1>1, <1>2, <1>3, Zenon DEF GetBlobRefused, GetBlobMismatch, GetBlobNoFd,
           GetBlobImportFails, GetBlobBindFails, GetBlob, GetBlobDupFails
  <1>4. ASSUME NEW c \in Ctx, ContextCreate(c) \/ ContextDestroy(c) PROVE FALSE
    <2>1. CASE ContextCreate(c)
      BY <1>1, <2>1, Zenon DEF ContextCreate
    <2>2. CASE ContextDestroy(c)
      <3>1. objs'[d] = IF d = c THEN [r \in ResIds |-> None] ELSE objs[d]
        BY <2>2, Zenon DEF ContextDestroy, TypeOK
      <3>. QED BY <3>1, Zenon
    <2>. QED BY <1>4, <2>1, <2>2, Zenon
  <1>5. ASSUME NEW c \in Ctx, NEW b \in BlobIds,
               \/ \E size \in Sizes, iova \in GuestVa(c) : GemNew(c, b, size, iova)
               \/ \E p \in Pages : SetGuestBlobFd(c, b, p)
               \/ CreateWithoutFd(c, b)
        PROVE  FALSE
    BY <1>1, <1>5, Zenon DEF GemNew, SetGuestBlobFd, CreateWithoutFd
  <1>6. ASSUME NEW c \in Ctx, NEW r \in ResIds, NEW iova, SetIova(c, r, iova) PROVE FALSE
    BY <1>6, Zenon DEF SetIova, TypeOK
  <1>7. ASSUME NEW c \in Ctx, NEW r \in ResIds, AttachResource(c, r) PROVE FALSE
    <2>1. d = c /\ q = r
      BY <1>7, Zenon DEF AttachResource, TypeOK
    <2>2. objs'[d][q].mem = Import(c, res[r].pages, FALSE)
      BY <1>7, <2>1, Zenon DEF AttachResource, TypeOK
    <2>. QED BY <2>2 DEF Import
  <1>8. ASSUME NEW c \in Ctx, NEW r \in ResIds, DetachResource(c, r) PROVE FALSE
    BY <1>8, Zenon DEF DetachResource, TypeOK
  <1>9. ASSUME NEW r \in ResIds, ResourceUnref(r) PROVE FALSE
    BY <1>9, Zenon DEF ResourceUnref, TypeOK
  <1>10. CASE UNCHANGED vars
    BY <1>1, <1>10, Zenon DEF vars
  <1>. QED BY <1>3, <1>4, <1>5, <1>6, <1>7, <1>8, <1>9, <1>10, Zenon DEF Next

\* The buffer drm2kgsl_renderer_get_blob completes is backed by the pages that the
\* VMM parked for that blob, also when an earlier get_blob failed and left its
\* fd parked: drm2kgsl_renderer_set_guest_blob_fd replaces it.  One it parked
\* nothing for takes only an fd that a refused get_blob left.
THEOREM BackedByOwnPages == Spec => CompletedFromOwnPages
  <1> DEFINE Inv == TypeOK /\ ObjectsOwned /\ ParkedIsOfBlob
  <1>1. Init => Inv
    BY InitType DEF Init, ObjectsOwned, ParkedIsOfBlob
  <1>2. Inv /\ [Next]_vars => Inv'
    BY TypeStep, OwnedStep, ParkedStep, Zenon
  <1>3. Inv /\ [Next]_vars =>
          [\A c \in Ctx, r \in ResIds :
              (objs'[c][r] # None /\ objs[c][r] = None /\ objs'[c][r].mem.guest)
                 => OwnPages(c, r)]_vars
    BY CompletedStep, Zenon
  <1>. QED BY <1>1, <1>2, <1>3, PTL DEF Spec, CompletedFromOwnPages, OwnPages

-----------------------------------------------------------------------------
(***************************************************************************)
(* LiveRangesBound.  The addresses of the live buffers and of the blobs to *)
(* come are disjoint within a context, because the guest allocates them,   *)
(* and across contexts, because slices are exclusive.                      *)
(***************************************************************************)
\* The range of a live buffer, empty when it has none.
Addr(c, r) ==
    IF Live(c, r) /\ objs[c][r].iova # 0 THEN Span(objs[c][r].iova, objs[c][r].size) ELSE {}

\* The range GEM_NEW recorded for a blob.
BlobAddr(c, b) == IF blobs[c][b] # None THEN Span(blobs[c][b].iova, blobs[c][b].size) ELSE {}

\* An import has an id of its own, so an unbind that names one object spares
\* the others.
MemsDistinct ==
    /\ \A c \in Ctx, r \in ResIds : objs[c][r] # None => objs[c][r].mem.id <= mems
    /\ \A c, d \in Ctx, r, q \in ResIds :
           objs[c][r] # None /\ objs[d][q] # None /\ objs[c][r].mem = objs[d][q].mem
               => c = d /\ r = q

\* A buffer the guest knows of has its resource.
KnownHasResource ==
    \A c \in Ctx, r \in ResIds :
        objs[c][r] # None /\ (objs[c][r].exported \/ ~objs[c][r].mem.guest) => res[r] # None

RangesApart ==
    /\ \A c \in Ctx, r \in ResIds : Addr(c, r) \subseteq Slice(ctx[c])
    /\ \A c \in Ctx, r \in ResIds, b \in BlobIds : Addr(c, r) \cap BlobAddr(c, b) = {}
    /\ \A c \in Ctx, a, b \in BlobIds : a # b => BlobAddr(c, a) \cap BlobAddr(c, b) = {}
    /\ \A c \in Ctx, r \in ResIds : \A v \in Addr(c, r) : vbo[v] = objs[c][r].mem

\* The inductive invariant of LiveRangesBound.
LiveInv ==
    TypeOK /\ ObjectsOwned /\ SlicesExclusive /\ MemsDistinct /\ KnownHasResource /\ RangesApart

LEMMA SlicesDisjoint ==
    ASSUME NEW s \in Nat, NEW t \in Nat, s # t
    PROVE  Slice(s) \cap Slice(t) = {}
  <1>0. SliceSize \in Nat
    BY ObjectsAssumption, Zenon
  <1>1. ASSUME NEW x \in Nat, NEW y \in Nat, x < y PROVE x * SliceSize + SliceSize <= y * SliceSize
    <2>1. y - x - 1 \in Nat
      BY <1>1
    <2>2. (y - x - 1) * SliceSize \in Nat
      BY <1>0, <2>1
    <2>3. (y - x - 1) * SliceSize = y * SliceSize - x * SliceSize - SliceSize
      BY <1>0
    <2>. QED BY <1>0, <2>2, <2>3
  <1> DEFINE a == s * SliceSize
             b == t * SliceSize
  <1>2. a \in Int /\ b \in Int
    BY <1>0
  <1>3. a + SliceSize <= b \/ b + SliceSize <= a
    BY <1>1
  <1> HIDE DEF a, b
  <1>4. ((1 + a) .. (a + SliceSize)) \cap ((1 + b) .. (b + SliceSize)) = {}
    BY <1>0, <1>2, <1>3
  <1>. QED BY <1>4, Zenon DEF Slice, a, b

LEMMA SliceInVA ==
    ASSUME NEW s \in 0 .. NumSlices - 1
    PROVE  Slice(s) \subseteq VA
  <1>0. SliceSize \in Nat /\ NumSlices \in Nat
    BY ObjectsAssumption, Zenon
  <1>1. NumSlices - s - 1 \in Nat /\ s \in Nat
    BY <1>0
  <1>2. (NumSlices - s - 1) * SliceSize \in Nat /\ s * SliceSize \in Nat /\ NumSlices * SliceSize \in Nat
    BY <1>0, <1>1
  <1>3. (NumSlices - s - 1) * SliceSize = NumSlices * SliceSize - s * SliceSize - SliceSize
    BY <1>0, <1>1
  <1> DEFINE a == s * SliceSize
             n == NumSlices * SliceSize
  <1>4. a \in Nat /\ n \in Nat /\ a + SliceSize <= n
    BY <1>0, <1>2, <1>3
  <1> HIDE DEF a, n
  <1>5. ((1 + a) .. (a + SliceSize)) \subseteq 1 .. n
    BY <1>0, <1>4
  <1>. QED BY <1>5, Zenon DEF Slice, VA, a, n

\* The buffers of different contexts are apart.
LEMMA ContextsApart ==
    ASSUME TypeOK, SlicesExclusive, NEW c \in Ctx, NEW d \in Ctx, c # d,
           ctx[c] # NoSlice, ctx[d] # NoSlice
    PROVE  Slice(ctx[c]) \cap Slice(ctx[d]) = {}
  <1>1. ctx[c] \in Nat /\ ctx[d] \in Nat
    BY DEF TypeOK
  <1>2. ctx[c] # ctx[d]
    BY Zenon DEF SlicesExclusive
  <1>. QED BY <1>1, <1>2, SlicesDisjoint, Zenon

\* Only a context that exists has live buffers.
LEMMA AddrOwned ==
    ASSUME ObjectsOwned, NEW c \in Ctx, NEW r \in ResIds, Addr(c, r) # {}
    PROVE  Live(c, r) /\ objs[c][r] # None /\ ctx[c] # NoSlice
  BY Zenon DEF Addr, Live, ObjectsOwned

\* The guest's allocator, in terms of ranges.
LEMMA GuestVaIsFree ==
    ASSUME NEW c \in Ctx, NEW iova, NEW size, GuestVaFree(c, iova, size)
    PROVE  /\ \A b \in BlobIds : Span(iova, size) \cap BlobAddr(c, b) = {}
           /\ \A r \in ResIds : Span(iova, size) \cap Addr(c, r) = {}
  BY Zenon DEF GuestVaFree, BlobAddr, Addr

\* A call that moves no live buffer: ranges stay or go, and what the GPU sees
\* at those that stay is left alone.
LEMMA RangesFrame ==
    ASSUME RangesApart,
           \A c \in Ctx, r \in ResIds :
               \/ Addr(c, r)' = {}
               \/ /\ Addr(c, r)' = Addr(c, r) /\ ctx'[c] = ctx[c]
                  /\ objs'[c][r].mem = objs[c][r].mem
                  /\ \A v \in Addr(c, r) : vbo'[v] = vbo[v],
           \A c \in Ctx, b \in BlobIds : BlobAddr(c, b)' = {} \/ BlobAddr(c, b)' = BlobAddr(c, b)
    PROVE  RangesApart'
  <1>1. ASSUME NEW c \in Ctx, NEW r \in ResIds PROVE Addr(c, r)' \subseteq Slice(ctx'[c])
    BY <1>1, Zenon DEF RangesApart
  <1>2. ASSUME NEW c \in Ctx, NEW r \in ResIds, NEW b \in BlobIds
        PROVE  Addr(c, r)' \cap BlobAddr(c, b)' = {}
    <2>1. Addr(c, r) \cap BlobAddr(c, b) = {}
      BY Zenon DEF RangesApart
    <2>2. Addr(c, r)' = {} \/ Addr(c, r)' = Addr(c, r)
      OBVIOUS
    <2>. QED BY <2>1, <2>2, Zenon
  <1>3. ASSUME NEW c \in Ctx, NEW a \in BlobIds, NEW b \in BlobIds, a # b
        PROVE  BlobAddr(c, a)' \cap BlobAddr(c, b)' = {}
    <2>1. BlobAddr(c, a) \cap BlobAddr(c, b) = {}
      BY <1>3, Zenon DEF RangesApart
    <2>. QED BY <2>1, Zenon
  <1>4. ASSUME NEW c \in Ctx, NEW r \in ResIds, NEW v \in Addr(c, r)'
        PROVE  vbo'[v] = objs'[c][r].mem
    BY <1>4, SMTT(20) DEF RangesApart
  <1>. QED BY <1>1, <1>2, <1>3, <1>4, Zenon DEF RangesApart, Slice

\* A step that binds import m of context d at a range the guest has free, for
\* the buffer d has under q.
BindsFree(d, q, m, iova, size) ==
    /\ ctx[d] # NoSlice /\ ctx' = ctx /\ vbo' = Bound(m, iova, size)
    /\ \A v \in Span(iova, size) : v \in Slice(ctx[d])
    /\ \A r \in ResIds : r # q => Span(iova, size) \cap Addr(d, r) = {}
    /\ \A b \in BlobIds : Span(iova, size) \cap BlobAddr(d, b)' = {}
    /\ \A c \in Ctx, r \in ResIds : c # d \/ r # q =>
           Addr(c, r)' = Addr(c, r) /\ objs'[c][r].mem = objs[c][r].mem
    /\ \/ Addr(d, q)' = {}
       \/ Addr(d, q)' = Span(iova, size) /\ objs'[d][q].mem = m
    /\ \A c \in Ctx, b \in BlobIds : BlobAddr(c, b)' = {} \/ BlobAddr(c, b)' = BlobAddr(c, b)

\* No other buffer is disturbed by such a step, and the buffer that was bound,
\* if the guest knows of it, is seen there.
LEMMA RangesBind ==
    ASSUME LiveInv, NEW d \in Ctx, NEW q \in ResIds, NEW m, NEW iova, NEW size,
           BindsFree(d, q, m, iova, size)
    PROVE  RangesApart'
  <1> DEFINE S == Span(iova, size)
  <1>0. TypeOK /\ ObjectsOwned /\ SlicesExclusive /\ RangesApart
    BY Zenon DEF LiveInv
  <1>b. /\ ctx[d] # NoSlice /\ ctx' = ctx /\ vbo' = Bound(m, iova, size)
        /\ \A v \in S : v \in Slice(ctx[d])
        /\ \A r \in ResIds : r # q => S \cap Addr(d, r) = {}
        /\ \A b \in BlobIds : S \cap BlobAddr(d, b)' = {}
    BY Zenon DEF BindsFree
  <1>c. /\ \A c \in Ctx, r \in ResIds : c # d \/ r # q =>
               Addr(c, r)' = Addr(c, r) /\ objs'[c][r].mem = objs[c][r].mem
        /\ Addr(d, q)' = {} \/ (Addr(d, q)' = S /\ objs'[d][q].mem = m)
    BY Zenon DEF BindsFree
  <1>d. \A c \in Ctx, b \in BlobIds : BlobAddr(c, b)' = {} \/ BlobAddr(c, b)' = BlobAddr(c, b)
    BY Zenon DEF BindsFree
  <1> HIDE DEF S
  <1>a. \A v \in S : v \in VA
    <2>1. ctx[d] \in 0 .. NumSlices - 1
      BY <1>0, <1>b, Zenon DEF TypeOK
    <2>. QED BY <1>b, <2>1, SliceInVA, Zenon
  <1>1. ASSUME NEW c \in Ctx, NEW r \in ResIds, c # d \/ r # q
        PROVE  S \cap Addr(c, r) = {}
    <2>1. CASE c = d
      BY <1>1, <1>b, <2>1, Zenon
    <2>2. CASE c # d /\ Addr(c, r) # {}
      <3>1. ctx[c] # NoSlice /\ Addr(c, r) \subseteq Slice(ctx[c])
        BY <1>0, <2>2, AddrOwned, Zenon DEF RangesApart
      <3>2. Slice(ctx[c]) \cap Slice(ctx[d]) = {}
        BY <1>0, <1>b, <2>2, <3>1, ContextsApart, Zenon
      <3>. QED BY <1>b, <3>1, <3>2, Zenon
    <2>. QED BY <2>1, <2>2, Zenon
  <1>2. ASSUME NEW c \in Ctx, NEW r \in ResIds PROVE Addr(c, r)' \subseteq Slice(ctx'[c])
    BY <1>0, <1>b, <1>c, ZenonT(40) DEF RangesApart
  <1>3. ASSUME NEW c \in Ctx, NEW r \in ResIds, NEW b \in BlobIds
        PROVE  Addr(c, r)' \cap BlobAddr(c, b)' = {}
    <2>1. CASE c # d \/ r # q
      <3>1. Addr(c, r) \cap BlobAddr(c, b) = {} /\ Addr(c, r)' = Addr(c, r)
        BY <1>0, <1>c, <2>1, Zenon DEF RangesApart
      <3>. QED BY <1>d, <3>1, Zenon
    <2>2. CASE c = d /\ r = q
      BY <1>b, <1>c, <2>2, Zenon
    <2>. QED BY <2>1, <2>2, Zenon
  <1>4. ASSUME NEW c \in Ctx, NEW a \in BlobIds, NEW b \in BlobIds, a # b
        PROVE  BlobAddr(c, a)' \cap BlobAddr(c, b)' = {}
    <2>1. BlobAddr(c, a) \cap BlobAddr(c, b) = {}
      BY <1>0, <1>4, Zenon DEF RangesApart
    <2>. QED BY <1>d, <2>1, Zenon
  <1>5. ASSUME NEW c \in Ctx, NEW r \in ResIds, NEW v \in Addr(c, r)'
        PROVE  vbo'[v] = objs'[c][r].mem
    <2>1. CASE c # d \/ r # q
      <3>1. v \in Addr(c, r) /\ v \notin S /\ vbo[v] = objs[c][r].mem
        BY <1>0, <1>1, <1>5, <1>c, <2>1 DEF RangesApart
      <3>2. v \in VA
        <4>1. ctx[c] # NoSlice /\ v \in Slice(ctx[c])
          BY <1>0, <3>1, AddrOwned, Zenon DEF RangesApart
        <4>2. ctx[c] \in 0 .. NumSlices - 1
          BY <1>0, <4>1, Zenon DEF TypeOK
        <4>. QED BY <4>1, <4>2, SliceInVA, Zenon
      <3>3. vbo'[v] = vbo[v]
        BY <1>b, <3>1, <3>2, Zenon DEF Bound, S
      <3>. QED BY <1>c, <2>1, <3>1, <3>3, Zenon
    <2>2. CASE c = d /\ r = q
      <3>1. v \in S /\ objs'[d][q].mem = m
        BY <1>5, <1>c, <2>2, Zenon
      <3>. QED BY <1>a, <1>b, <2>2, <3>1, Zenon DEF Bound, S
    <2>. QED BY <2>1, <2>2, Zenon
  <1>. QED BY <1>2, <1>3, <1>4, <1>5, Zenon DEF RangesApart, Slice

\* Freeing objects unbinds only ranges that map them.
LEMMA RangesUnbind ==
    ASSUME LiveInv, NEW freed, vbo' = Unbound(freed), ctx' = ctx, blobs' = blobs, NEW q \in ResIds,
           \A r \in ResIds : r # q => res'[r] = res[r],
           \A o \in freed : \E d \in Ctx : o = objs[d][q] /\ o # None /\ objs'[d][q] = None,
           \A c \in Ctx, r \in ResIds :
               objs'[c][r] = None \/ (objs'[c][r] = objs[c][r] /\ res'[r] = res[r])
    PROVE  RangesApart'
  <1>0. TypeOK /\ ObjectsOwned /\ MemsDistinct /\ RangesApart
    BY Zenon DEF LiveInv
  <1>1. ASSUME NEW c \in Ctx, NEW r \in ResIds
        PROVE  \/ Addr(c, r)' = {}
               \/ /\ Addr(c, r)' = Addr(c, r) /\ ctx'[c] = ctx[c]
                  /\ objs'[c][r].mem = objs[c][r].mem
                  /\ \A v \in Addr(c, r) : vbo'[v] = vbo[v]
    <2>1. CASE objs'[c][r] = None
      BY <2>1, Zenon DEF Addr, Live
    <2>2. CASE objs'[c][r] # None
      <3>1. objs'[c][r] = objs[c][r] /\ res'[r] = res[r]
        BY <2>2, Zenon
      <3>2. Addr(c, r)' = Addr(c, r)
        BY <3>1, Zenon DEF Addr, Live
      <3>3. ASSUME NEW v \in Addr(c, r) PROVE vbo'[v] = vbo[v]
        <4>1. vbo[v] = objs[c][r].mem /\ objs[c][r] # None /\ ctx[c] # NoSlice /\ v \in Slice(ctx[c])
          BY <1>0, <3>3, AddrOwned, ZenonT(40) DEF RangesApart
        <4>2. v \in VA
          <5>1. ctx[c] \in 0 .. NumSlices - 1
            BY <1>0, <4>1, ZenonT(40) DEF TypeOK
          <5>. QED BY <4>1, <5>1, SliceInVA, Zenon
        <4>3. ASSUME NEW o \in freed, vbo[v] = o.mem PROVE FALSE
          <5>1. PICK d \in Ctx : o = objs[d][q] /\ o # None /\ objs'[d][q] = None
            BY Zenon
          <5>2. objs[d][q] # None /\ objs[c][r] # None /\ objs[d][q].mem = objs[c][r].mem
            BY <4>1, <4>3, <5>1, Zenon
          <5>3. d = c /\ q = r
            BY <1>0, <5>2 DEF MemsDistinct
          <5>. QED BY <2>2, <5>1, <5>3, Zenon
        <4>. QED BY <4>2, <4>3, Zenon DEF Unbound
      <3>. QED BY <3>1, <3>2, <3>3, Zenon
    <2>. QED BY <2>1, <2>2, Zenon
  <1>2. \A c \in Ctx, b \in BlobIds : BlobAddr(c, b)' = BlobAddr(c, b)
    BY Zenon DEF BlobAddr
  <1>. QED BY <1>0, <1>1, <1>2, RangesFrame, Zenon

\* The import that get_blob binds, and the object that an attach files
BlobMem(c) == Import(c, parked[c], TRUE)

AttachedObj(c, r) ==
    [mem |-> Import(c, res[r].pages, FALSE), size |-> res[r].size, iova |-> 0,
     exported |-> FALSE]

LEMMA PutEntry ==
    ASSUME NEW A, NEW B, NEW S, NEW f \in [A -> [B -> S]], NEW a \in A, NEW b \in B, NEW x, NEW g,
           g = [f EXCEPT ![a][b] = x]
    PROVE  g[a][b] = x /\ \A c \in A, d \in B : c # a \/ d # b => g[c][d] = f[c][d]
  <1>. QED OBVIOUS

\* What a get_blob that binds its import does, whether or not the fd of the
\* import can be duplicated
Files(c, b, r) ==
    /\ objs'[c][r].mem = BlobMem(c) /\ objs'[c][r].size = blobs[c][b].size
    /\ objs'[c][r].iova = blobs[c][b].iova
    /\ GetBlobDupFails(c, b, r) => ~objs'[c][r].exported
    /\ \A d \in Ctx, q \in ResIds : d # c \/ q # r => objs'[d][q] = objs[d][q]
    /\ blobs'[c][b] = None
    /\ \A d \in Ctx, e \in BlobIds : d # c \/ e # b => blobs'[d][e] = blobs[d][e]
    /\ mems' = mems + 1 /\ ctx' = ctx
    /\ vbo' = Bound(BlobMem(c), blobs[c][b].iova, blobs[c][b].size)
    /\ blobs[c][b] # None /\ objs[c][r] = None /\ res[r] = None
    /\ iova_in_slice(c, blobs[c][b].iova, blobs[c][b].size)
    /\ \A q \in ResIds : q # r => res'[q] = res[q]

LEMMA FiledObj ==
    ASSUME TypeOK, NEW c \in Ctx, NEW b \in BlobIds, NEW r \in ResIds,
           GetBlob(c, b, r) \/ GetBlobDupFails(c, b, r)
    PROVE  Files(c, b, r)
  <1> DEFINE o(x) == [mem |-> BlobMem(c), size |-> blobs[c][b].size,
                      iova |-> blobs[c][b].iova, exported |-> x]
  <1>0. /\ objs \in [Ctx -> [ResIds -> Obj \cup {None}]]
        /\ blobs \in [Ctx -> [BlobIds -> [size : Sizes, iova : Nat] \cup {None}]]
        /\ res \in [ResIds -> [pages : Pages, size : Sizes] \cup {None}]
    BY Zenon DEF TypeOK
  <1>1. PICK x \in BOOLEAN : GetBlobBound(c, b, r, x) /\ (GetBlobDupFails(c, b, r) => x = FALSE)
    <2>1. CASE GetBlobDupFails(c, b, r)
      BY <2>1, Zenon DEF GetBlobDupFails
    <2>2. CASE ~GetBlobDupFails(c, b, r)
      BY <2>2, Zenon DEF GetBlob
    <2>. QED BY <2>1, <2>2, Zenon
  <1>2. objs' = [objs EXCEPT ![c][r] = o(x)] /\ blobs' = [blobs EXCEPT ![c][b] = None]
    BY <1>1, Zenon DEF GetBlobBound, Retrieve, BlobMem
  <1>3. /\ objs'[c][r] = o(x)
        /\ \A d \in Ctx, q \in ResIds : d # c \/ q # r => objs'[d][q] = objs[d][q]
    BY <1>0, <1>2, PutEntry, Zenon
  <1>4. /\ blobs'[c][b] = None
        /\ \A d \in Ctx, e \in BlobIds : d # c \/ e # b => blobs'[d][e] = blobs[d][e]
    BY <1>0, <1>2, PutEntry, Zenon
  <1>5. /\ objs'[c][r].mem = BlobMem(c) /\ objs'[c][r].size = blobs[c][b].size
        /\ objs'[c][r].iova = blobs[c][b].iova /\ objs'[c][r].exported = x
    <2>1. /\ o(x).mem = BlobMem(c) /\ o(x).size = blobs[c][b].size
          /\ o(x).iova = blobs[c][b].iova /\ o(x).exported = x
      BY Zenon
    <2> HIDE DEF o
    <2>. QED BY <1>3, <2>1, Zenon
  <1>6. /\ mems' = mems + 1 /\ ctx' = ctx
        /\ vbo' = Bound(BlobMem(c), blobs[c][b].iova, blobs[c][b].size)
        /\ blobs[c][b] # None /\ objs[c][r] = None /\ res[r] = None
        /\ iova_in_slice(c, blobs[c][b].iova, blobs[c][b].size)
    BY <1>1, Zenon DEF GetBlobBound, Retrieve, BlobMem
  <1>7. \A q \in ResIds : q # r => res'[q] = res[q]
    BY <1>0, Zenon DEF GetBlob, GetBlobDupFails
  <1>8. GetBlobDupFails(c, b, r) => ~objs'[c][r].exported
    BY <1>1, <1>5, Zenon
  <1>. QED BY <1>3, <1>4, <1>5, <1>6, <1>7, <1>8, Zenon DEF Files

\* The range of a blob becomes that of the buffer, or goes when the guest is
\* told of an error.
LEMMA RangesGetBlob ==
    ASSUME LiveInv, NEW d \in Ctx, NEW e \in BlobIds, NEW q \in ResIds,
           GetBlob(d, e, q) \/ GetBlobDupFails(d, e, q)
    PROVE  RangesApart'
  <1>z. TypeOK /\ ObjectsOwned /\ KnownHasResource /\ RangesApart
    BY Zenon DEF LiveInv
  <1> DEFINE o == blobs[d][e]
             m == BlobMem(d)
  <1>a. /\ objs'[d][q].mem = m /\ objs'[d][q].size = o.size /\ objs'[d][q].iova = o.iova
        /\ GetBlobDupFails(d, e, q) => ~objs'[d][q].exported
        /\ \A c \in Ctx, r \in ResIds : c # d \/ r # q => objs'[c][r] = objs[c][r]
        /\ blobs'[d][e] = None
        /\ \A c \in Ctx, b \in BlobIds : c # d \/ b # e => blobs'[c][b] = blobs[c][b]
        /\ vbo' = Bound(m, o.iova, o.size) /\ ctx' = ctx
        /\ o # None /\ objs[d][q] = None /\ res[q] = None
        /\ iova_in_slice(d, o.iova, o.size)
        /\ \A r \in ResIds : r # q => res'[r] = res[r]
    <2>1. Files(d, e, q)
      BY <1>z, FiledObj, Zenon
    <2>. QED BY <2>1, Zenon DEF Files
  <1>1. o \in [size : Sizes, iova : Nat] /\ ctx[d] # NoSlice
    <2>1. o # None
      BY <1>a, Zenon
    <2>2. o \in [size : Sizes, iova : Nat] \cup {None}
      BY <1>z, Zenon DEF TypeOK
    <2>. QED BY <1>z, <2>1, <2>2, Zenon DEF ObjectsOwned
  <1>3. \A v \in Span(o.iova, o.size) : v \in Slice(ctx[d])
    BY <1>z, <1>1, <1>a, InSlice, Zenon
  <1>4. BlobAddr(d, e) = Span(o.iova, o.size)
    BY <1>a, Zenon DEF BlobAddr
  <1>5. \A r \in ResIds : Span(o.iova, o.size) \cap Addr(d, r) = {}
    BY <1>z, <1>4, SMTT(20) DEF RangesApart
  <1>6. BlobAddr(d, e)' = {}
    BY <1>a, Zenon DEF BlobAddr
  <1>7. \A c \in Ctx, b \in BlobIds : c # d \/ b # e => BlobAddr(c, b)' = BlobAddr(c, b)
    BY <1>a, Zenon DEF BlobAddr
  <1>8. ASSUME NEW b \in BlobIds PROVE Span(o.iova, o.size) \cap BlobAddr(d, b)' = {}
    <2>1. b # e => BlobAddr(d, e) \cap BlobAddr(d, b) = {}
      BY <1>z, Zenon DEF RangesApart
    <2>. QED BY <1>4, <1>6, <1>7, <2>1, Zenon
  <1>9. ASSUME NEW c \in Ctx, NEW r \in ResIds, c # d \/ r # q
        PROVE  Addr(c, r)' = Addr(c, r) /\ objs'[c][r].mem = objs[c][r].mem
    <2>1. objs'[c][r] = objs[c][r]
      BY <1>a, <1>9, Zenon
    <2>2. CASE r # q
      BY <1>a, <2>1, <2>2, Zenon DEF Addr, Live
    <2>3. CASE r = q
      <3>1. ~Live(c, r) /\ ~Live(c, r)'
        BY <1>z, <1>a, <2>1, <2>3, Zenon DEF Live, KnownHasResource
      <3>. QED BY <2>1, <3>1, Zenon DEF Addr
    <2>. QED BY <2>2, <2>3, Zenon
  <1>10. objs'[d][q].mem = m /\ objs'[d][q].size = o.size /\ objs'[d][q].iova = o.iova
    BY <1>a, Zenon
  <1>11. \/ Addr(d, q)' = {}
         \/ Addr(d, q)' = Span(o.iova, o.size) /\ objs'[d][q].mem = m
    BY <1>10, Zenon DEF Addr
  <1>12. \A c \in Ctx, b \in BlobIds : BlobAddr(c, b)' = {} \/ BlobAddr(c, b)' = BlobAddr(c, b)
    BY <1>6, <1>7, Zenon
  <1> HIDE DEF o, m
  <1>13. \A r \in ResIds : r # q => Span(o.iova, o.size) \cap Addr(d, r) = {}
    BY <1>5, Zenon
  <1>14. BindsFree(d, q, m, o.iova, o.size)
    BY <1>1, <1>a, <1>3, <1>8, <1>9, <1>11, <1>12, <1>13, Zenon DEF BindsFree
  <1>. QED BY <1>14, RangesBind, Zenon

\* A buffer moves to a range the guest has free.
LEMMA RangesSetIova ==
    ASSUME LiveInv, NEW d \in Ctx, NEW q \in ResIds, NEW iova \in GuestVa(d) \cup {0},
           SetIova(d, q, iova)
    PROVE  RangesApart'
  <1>z. TypeOK /\ ObjectsOwned /\ KnownHasResource /\ RangesApart
    BY Zenon DEF LiveInv
  <1> DEFINE o == objs[d][q]
  <1>1. o \in Obj /\ o # None /\ ctx[d] # NoSlice /\ UNCHANGED <<ctx, res, blobs>>
    BY <1>z DEF SetIova, TypeOK, ObjectsOwned
  <1>2. /\ \A c \in Ctx, r \in ResIds : c # d \/ r # q => objs'[c][r] = objs[c][r]
        /\ objs'[d][q] = [o EXCEPT !.iova = iova]
    BY <1>z, Zenon DEF SetIova, TypeOK
  <1>3. objs'[d][q].mem = o.mem /\ objs'[d][q].size = o.size /\ objs'[d][q].iova = iova
    BY <1>1, <1>2, Zenon DEF Obj
  <1>4. \A c \in Ctx, b \in BlobIds : BlobAddr(c, b)' = BlobAddr(c, b)
    BY <1>1, Zenon DEF BlobAddr
  <1>5. ASSUME NEW c \in Ctx, NEW r \in ResIds, c # d \/ r # q
        PROVE  Addr(c, r)' = Addr(c, r) /\ objs'[c][r].mem = objs[c][r].mem
    <2>1. objs'[c][r] = objs[c][r]
      BY <1>2, <1>5, Zenon
    <2>. QED BY <1>1, <2>1, Zenon DEF Addr, Live
  <1>6. CASE iova = 0
    <2>1. Addr(d, q)' = {}
      BY <1>3, <1>6, Zenon DEF Addr
    <2>2. vbo' = vbo
      BY <1>6, Zenon DEF SetIova
    <2>3. ASSUME NEW c \in Ctx, NEW r \in ResIds
          PROVE  \/ Addr(c, r)' = {}
                 \/ /\ Addr(c, r)' = Addr(c, r) /\ ctx'[c] = ctx[c]
                    /\ objs'[c][r].mem = objs[c][r].mem
                    /\ \A v \in Addr(c, r) : vbo'[v] = vbo[v]
      BY <1>1, <1>5, <2>1, <2>2, Zenon
    <2>. QED BY <1>z, <1>4, <2>3, RangesFrame, Zenon
  <1>7. CASE iova # 0
    <2>1. /\ GuestVaFree(d, iova, o.size) /\ iova_in_slice(d, iova, o.size)
          /\ vbo' = Bound(o.mem, iova, o.size)
      BY <1>7, Zenon DEF SetIova
    <2>2. iova \in Nat /\ o.size \in Sizes
      <3>1. ctx[d] \in Nat /\ SliceSize \in Nat
        BY <1>z, <1>1, ObjectsAssumption DEF TypeOK
      <3>2. ctx[d] * SliceSize \in Nat
        BY <3>1, SMTT(20)
      <3>. QED BY <1>1, <1>7, <3>1, <3>2 DEF GuestVa, Base, Obj
    <2>3. \A v \in Span(iova, o.size) : v \in Slice(ctx[d])
      BY <1>z, <1>1, <2>1, <2>2, InSlice, Zenon
    <2>4. /\ \A b \in BlobIds : Span(iova, o.size) \cap BlobAddr(d, b)' = {}
          /\ \A r \in ResIds : Span(iova, o.size) \cap Addr(d, r) = {}
      BY <1>4, <2>1, GuestVaIsFree, SMTT(20)
    <2>5. Addr(d, q)' = {} \/ Addr(d, q)' = Span(iova, o.size)
      BY <1>3, Zenon DEF Addr
    <2> DEFINE m == o.mem
               size == o.size
    <2>6. /\ vbo' = Bound(m, iova, size)
          /\ \A v \in Span(iova, size) : v \in Slice(ctx[d])
          /\ \A r \in ResIds : r # q => Span(iova, size) \cap Addr(d, r) = {}
          /\ \A b \in BlobIds : Span(iova, size) \cap BlobAddr(d, b)' = {}
          /\ Addr(d, q)' = {} \/ (Addr(d, q)' = Span(iova, size) /\ objs'[d][q].mem = m)
      BY <1>3, <2>1, <2>3, <2>4, <2>5, Zenon
    <2> HIDE DEF o, m, size
    <2>7. BindsFree(d, q, m, iova, size)
      BY <1>1, <1>4, <1>5, <2>6, Zenon DEF BindsFree
    <2>. QED BY <2>7, RangesBind, Zenon
  <1>. QED BY <1>6, <1>7, Zenon

LEMMA RangesStep == LiveInv /\ [Next]_vars => RangesApart'
  <1> SUFFICES ASSUME LiveInv, [Next]_vars PROVE RangesApart'
    OBVIOUS
  <1>0. TypeOK /\ ObjectsOwned /\ SlicesExclusive /\ MemsDistinct /\ KnownHasResource /\ RangesApart
    BY Zenon DEF LiveInv
  <1>1. ASSUME UNCHANGED <<ctx, objs, res, vbo>>,
               \A c \in Ctx, b \in BlobIds : blobs'[c][b] = None \/ blobs'[c][b] = blobs[c][b]
        PROVE  RangesApart'
    <2>1. \A c \in Ctx, r \in ResIds : Addr(c, r)' = Addr(c, r)
      BY <1>1, Zenon DEF Addr, Live
    <2>2. \A c \in Ctx, b \in BlobIds : BlobAddr(c, b)' = {} \/ BlobAddr(c, b)' = BlobAddr(c, b)
      BY <1>1, Zenon DEF BlobAddr
    <2>. QED BY <1>0, <1>1, <2>1, <2>2, RangesFrame, Zenon
  <1>2. ASSUME NEW d \in Ctx, ContextCreate(d) PROVE RangesApart'
    <2>1. UNCHANGED <<objs, res, vbo, blobs>> /\ ctx[d] = NoSlice
          /\ \A c \in Ctx : c # d => ctx'[c] = ctx[c]
      BY <1>0, <1>2, Zenon DEF ContextCreate, TypeOK
    <2>2. \A c \in Ctx, r \in ResIds : Addr(c, r)' = Addr(c, r)
      BY <2>1, Zenon DEF Addr, Live
    <2>3. \A r \in ResIds : Addr(d, r) = {}
      BY <1>0, <2>1, AddrOwned, Zenon
    <2>4. \A c \in Ctx, b \in BlobIds : BlobAddr(c, b)' = BlobAddr(c, b)
      BY <2>1, Zenon DEF BlobAddr
    <2>. QED BY <1>0, <2>1, <2>2, <2>3, <2>4, RangesFrame, Zenon
  <1>3. ASSUME NEW d \in Ctx, ContextDestroy(d) PROVE RangesApart'
    <2>1. /\ \A c \in Ctx : c # d => objs'[c] = objs[c] /\ ctx'[c] = ctx[c] /\ blobs'[c] = blobs[c]
          /\ \A r \in ResIds : objs'[d][r] = None
          /\ \A b \in BlobIds : blobs'[d][b] = None
          /\ res' = res /\ vbo' = Cleared(d) /\ ctx[d] # NoSlice
      BY <1>0, <1>3, Zenon DEF ContextDestroy, TypeOK
    <2>2. \A r \in ResIds : Addr(d, r)' = {}
      BY <2>1, Zenon DEF Addr, Live
    <2>3. ASSUME NEW c \in Ctx, NEW r \in ResIds, c # d PROVE Addr(c, r)' = Addr(c, r)
      BY <2>1, <2>3, Zenon DEF Addr, Live
    <2>4. ASSUME NEW c \in Ctx, NEW r \in ResIds, c # d, NEW v \in Addr(c, r)
          PROVE  vbo'[v] = vbo[v]
      <3>1. ctx[c] # NoSlice /\ v \in Slice(ctx[c])
        BY <1>0, <2>4, AddrOwned, Zenon DEF RangesApart
      <3>2. v \notin Slice(ctx[d])
        BY <1>0, <2>1, <2>4, <3>1, ContextsApart, Zenon
      <3>3. v \in VA
        <4>1. ctx[c] \in 0 .. NumSlices - 1
          BY <1>0, <3>1, Zenon DEF TypeOK
        <4>. QED BY <3>1, <4>1, SliceInVA, Zenon
      <3>. QED BY <2>1, <3>2, <3>3, Zenon DEF Cleared
    <2>5. \A c \in Ctx, b \in BlobIds : BlobAddr(c, b)' = {} \/ BlobAddr(c, b)' = BlobAddr(c, b)
      BY <2>1, Zenon DEF BlobAddr
    <2>6. ASSUME NEW c \in Ctx, NEW r \in ResIds
          PROVE  \/ Addr(c, r)' = {}
                 \/ /\ Addr(c, r)' = Addr(c, r) /\ ctx'[c] = ctx[c]
                    /\ objs'[c][r].mem = objs[c][r].mem
                    /\ \A v \in Addr(c, r) : vbo'[v] = vbo[v]
      BY <2>1, <2>2, <2>3, <2>4, Zenon
    <2>. QED BY <1>0, <2>5, <2>6, RangesFrame, Zenon
  <1>4. ASSUME NEW d \in Ctx, NEW e \in BlobIds, NEW size \in Sizes, NEW iova \in GuestVa(d),
               GemNew(d, e, size, iova)
        PROVE  RangesApart'
    <2>1. /\ UNCHANGED <<ctx, objs, res, vbo>> /\ GuestVaFree(d, iova, size)
          /\ \A c \in Ctx, b \in BlobIds : c # d \/ b # e => blobs'[c][b] = blobs[c][b]
          /\ blobs'[d][e] = [size |-> size, iova |-> iova]
      BY <1>0, <1>4, Zenon DEF GemNew, TypeOK
    <2>2. \A c \in Ctx, r \in ResIds : Addr(c, r)' = Addr(c, r)
      BY <2>1, Zenon DEF Addr, Live
    <2>3. \A c \in Ctx, b \in BlobIds : c # d \/ b # e => BlobAddr(c, b)' = BlobAddr(c, b)
      BY <2>1, Zenon DEF BlobAddr
    <2>4. BlobAddr(d, e)' = {} \/ BlobAddr(d, e)' = Span(iova, size)
      <3>1. blobs'[d][e].size = size /\ blobs'[d][e].iova = iova
        BY <2>1, SMTT(20)
      <3>. QED BY <3>1, Zenon DEF BlobAddr
    <2>5. /\ \A b \in BlobIds : Span(iova, size) \cap BlobAddr(d, b) = {}
          /\ \A r \in ResIds : Span(iova, size) \cap Addr(d, r) = {}
      BY <2>1, GuestVaIsFree, Zenon
    <2>6. ASSUME NEW c \in Ctx, NEW r \in ResIds, NEW b \in BlobIds
          PROVE  Addr(c, r)' \cap BlobAddr(c, b)' = {}
      <3>1. Addr(c, r) \cap BlobAddr(c, b) = {}
        BY <1>0, Zenon DEF RangesApart
      <3>. QED BY <2>2, <2>3, <2>4, <2>5, <3>1, SMTT(20)
    <2>7. ASSUME NEW c \in Ctx, NEW a \in BlobIds, NEW b \in BlobIds, a # b
          PROVE  BlobAddr(c, a)' \cap BlobAddr(c, b)' = {}
      <3>1. BlobAddr(c, a) \cap BlobAddr(c, b) = {}
        BY <1>0, <2>7, Zenon DEF RangesApart
      <3>2. c = d => Span(iova, size) \cap BlobAddr(c, a) = {} /\ Span(iova, size) \cap BlobAddr(c, b) = {}
        BY <2>5, Zenon
      <3>3. CASE c # d \/ (a # e /\ b # e)
        BY <2>3, <3>1, <3>3, Zenon
      <3>4. CASE c = d /\ a = e
        BY <2>3, <2>4, <2>7, <3>2, <3>4, Zenon
      <3>5. CASE c = d /\ b = e
        BY <2>3, <2>4, <2>7, <3>2, <3>5, Zenon
      <3>. QED BY <3>3, <3>4, <3>5, Zenon
    <2>8. ASSUME NEW c \in Ctx, NEW r \in ResIds
          PROVE  Addr(c, r)' \subseteq Slice(ctx'[c]) /\ \A v \in Addr(c, r)' : vbo'[v] = objs'[c][r].mem
      BY <1>0, <2>1, <2>2, SMTT(20) DEF RangesApart
    <2>. QED BY <2>6, <2>7, <2>8, Zenon DEF RangesApart, Slice
  <1>5. ASSUME NEW d \in Ctx, NEW q \in ResIds, AttachResource(d, q) PROVE RangesApart'
    <2>1. /\ UNCHANGED <<ctx, res, blobs, vbo>>
          /\ \A c \in Ctx, r \in ResIds : c # d \/ r # q => objs'[c][r] = objs[c][r]
          /\ objs'[d][q].iova = 0
      BY <1>0, <1>5, Zenon DEF AttachResource, TypeOK
    <2>2. Addr(d, q)' = {}
      BY <2>1, Zenon DEF Addr
    <2>3. ASSUME NEW c \in Ctx, NEW r \in ResIds, c # d \/ r # q
          PROVE  Addr(c, r)' = Addr(c, r) /\ objs'[c][r].mem = objs[c][r].mem
      <3>1. objs'[c][r] = objs[c][r]
        BY <2>1, <2>3, Zenon
      <3>. QED BY <2>1, <3>1, Zenon DEF Addr, Live
    <2>4. \A c \in Ctx, b \in BlobIds : BlobAddr(c, b)' = BlobAddr(c, b)
      BY <2>1, Zenon DEF BlobAddr
    <2>5. ASSUME NEW c \in Ctx, NEW r \in ResIds
          PROVE  \/ Addr(c, r)' = {}
                 \/ /\ Addr(c, r)' = Addr(c, r) /\ ctx'[c] = ctx[c]
                    /\ objs'[c][r].mem = objs[c][r].mem
                    /\ \A v \in Addr(c, r) : vbo'[v] = vbo[v]
      BY <2>1, <2>2, <2>3, Zenon
    <2>. QED BY <1>0, <2>4, <2>5, RangesFrame, Zenon
  <1>6. ASSUME NEW d \in Ctx, NEW q \in ResIds, DetachResource(d, q) PROVE RangesApart'
    <2> DEFINE freed == {objs[d][q]}
    <2>1. /\ UNCHANGED <<ctx, res, blobs>> /\ vbo' = Unbound(freed) /\ objs[d][q] # None
          /\ objs'[d][q] = None
          /\ \A c \in Ctx, r \in ResIds : objs'[c][r] = None \/ objs'[c][r] = objs[c][r]
      BY <1>0, <1>6, Zenon DEF DetachResource, TypeOK
    <2>2. \A o \in freed : \E c \in Ctx : o = objs[c][q] /\ o # None /\ objs'[c][q] = None
      BY <2>1, Zenon
    <2> HIDE DEF freed
    <2>. QED BY <2>1, <2>2, RangesUnbind, Zenon
  <1>7. ASSUME NEW q \in ResIds, ResourceUnref(q) PROVE RangesApart'
    <2> DEFINE freed == {objs[c][q] : c \in Ctx} \ {None}
    <2>1. /\ UNCHANGED <<ctx, blobs>> /\ vbo' = Unbound(freed)
          /\ \A c \in Ctx, r \in ResIds :
                 objs'[c][r] = IF r = q THEN None ELSE objs[c][r]
          /\ \A r \in ResIds : r # q => res'[r] = res[r]
      BY <1>0, <1>7, Zenon DEF ResourceUnref, TypeOK
    <2>2. \A o \in freed : \E c \in Ctx : o = objs[c][q] /\ o # None /\ objs'[c][q] = None
      BY <2>1, Zenon
    <2>3. \A c \in Ctx, r \in ResIds :
              objs'[c][r] = None \/ (objs'[c][r] = objs[c][r] /\ res'[r] = res[r])
      BY <2>1, Zenon
    <2> HIDE DEF freed
    <2>. QED BY <2>1, <2>2, <2>3, RangesUnbind, Zenon
  <1>8. ASSUME NEW d \in Ctx, NEW e \in BlobIds, NEW q \in ResIds,
                \/ GetBlobRefused(d, e, q) \/ GetBlobMismatch(d, e, q) \/ GetBlobNoFd(d, e, q)
                \/ GetBlobImportFails(d, e, q) \/ GetBlobBindFails(d, e, q)
         PROVE  RangesApart'
    <2>1. UNCHANGED <<ctx, objs, res, vbo>>
      BY <1>8, Zenon DEF GetBlobRefused, GetBlobMismatch, GetBlobNoFd,
           GetBlobImportFails, GetBlobBindFails
    <2>2. \A c \in Ctx, b \in BlobIds : blobs'[c][b] = None \/ blobs'[c][b] = blobs[c][b]
      <3>1. blobs' = blobs \/ blobs' = [blobs EXCEPT ![d][e] = None]
        BY <1>8, Zenon DEF GetBlobRefused, GetBlobMismatch, GetBlobNoFd,
           GetBlobImportFails, GetBlobBindFails, Retrieve
      <3>2. blobs \in [Ctx -> [BlobIds -> [size : Sizes, iova : Nat] \cup {None}]]
        BY <1>0, Zenon DEF TypeOK
      <3>3. CASE blobs' = [blobs EXCEPT ![d][e] = None]
        BY <3>2, <3>3, Zenon
      <3>. QED BY <3>1, <3>3, Zenon
    <2>. QED BY <1>1, <2>1, <2>2, Zenon
  <1>9. ASSUME NEW d \in Ctx, NEW e \in BlobIds, NEW p \in Pages, SetGuestBlobFd(d, e, p)
         PROVE  RangesApart'
    BY <1>1, <1>9, Zenon DEF SetGuestBlobFd
  <1>9a. ASSUME NEW d \in Ctx, NEW e \in BlobIds, CreateWithoutFd(d, e)
         PROVE  RangesApart'
    BY <1>1, <1>9a, Zenon DEF CreateWithoutFd
  <1>10. CASE UNCHANGED vars
    BY <1>1, <1>10, Zenon DEF vars
  <1>. QED BY <1>2, <1>3, <1>4, <1>5, <1>6, <1>7, <1>8, <1>9, <1>9a, <1>10, RangesGetBlob, RangesSetIova, Zenon
           DEF Next


\* An object comes with a fresh import or keeps the one it had.
LEMMA MemsKept ==
    ASSUME TypeOK, MemsDistinct, mems' \in Nat, mems <= mems',
           \A c \in Ctx, r \in ResIds :
               objs'[c][r] = None \/ (objs[c][r] # None /\ objs'[c][r].mem = objs[c][r].mem)
    PROVE  MemsDistinct'
  <1>1. ASSUME NEW c \in Ctx, NEW r \in ResIds, objs'[c][r] # None
        PROVE  objs'[c][r].mem.id <= mems'
    <2>1. objs[c][r] # None /\ objs'[c][r].mem = objs[c][r].mem
      BY <1>1, Zenon
    <2>2. objs[c][r] \in Obj
      BY <2>1, SMTT(20) DEF TypeOK
    <2>3. objs[c][r].mem.id \in Nat /\ objs[c][r].mem.id <= mems /\ mems \in Nat
      BY <2>1, <2>2, ObjectsAssumption DEF MemsDistinct, TypeOK, Obj, Mem
    <2>. QED BY <2>1, <2>3
  <1>2. ASSUME NEW c \in Ctx, NEW d \in Ctx, NEW r \in ResIds, NEW q \in ResIds,
               objs'[c][r] # None, objs'[d][q] # None, objs'[c][r].mem = objs'[d][q].mem
        PROVE  c = d /\ r = q
    <2>1. objs[c][r] # None /\ objs[d][q] # None /\ objs[c][r].mem = objs[d][q].mem
      BY <1>2, Zenon
    <2>. QED BY <2>1, Zenon DEF MemsDistinct
  <1>. QED BY <1>1, <1>2 DEF MemsDistinct

LEMMA MemsFresh ==
    ASSUME TypeOK, MemsDistinct, mems' = mems + 1, NEW d \in Ctx, NEW q \in ResIds,
           objs'[d][q].mem.id = mems + 1,
           \A c \in Ctx, r \in ResIds : c # d \/ r # q => objs'[c][r] = objs[c][r]
    PROVE  MemsDistinct'
  <1>0. mems \in Nat
    BY ObjectsAssumption, SMTT(20) DEF TypeOK
  <1>1. ASSUME NEW c \in Ctx, NEW r \in ResIds, objs[c][r] # None
        PROVE  objs[c][r].mem.id \in Nat /\ objs[c][r].mem.id <= mems
    <2>1. objs[c][r] \in Obj
      BY <1>1 DEF TypeOK
    <2>. QED BY <1>1, <2>1, SMTT(20) DEF MemsDistinct, Obj, Mem
  <1>2. ASSUME NEW c \in Ctx, NEW r \in ResIds, objs'[c][r] # None
        PROVE  objs'[c][r].mem.id <= mems'
    <2>1. CASE c = d /\ r = q
      BY <1>0, <2>1, SMTT(20)
    <2>2. CASE c # d \/ r # q
      <3>1. objs'[c][r] = objs[c][r]
        BY <2>2, Zenon
      <3>. QED BY <1>0, <1>1, <1>2, <3>1, SMTT(20)
    <2>. QED BY <2>1, <2>2, Zenon
  <1>3. ASSUME NEW c \in Ctx, NEW r \in ResIds, c # d \/ r # q, objs'[c][r] # None
        PROVE  objs'[c][r].mem # objs'[d][q].mem
    <2>1. objs'[c][r] = objs[c][r]
      BY <1>3, Zenon
    <2>. QED BY <1>0, <1>1, <1>3, <2>1
  <1>4. ASSUME NEW a \in Ctx, NEW c \in Ctx, NEW r \in ResIds, NEW s \in ResIds,
               objs'[a][r] # None, objs'[c][s] # None, objs'[a][r].mem = objs'[c][s].mem
        PROVE  a = c /\ r = s
    <2>1. CASE a = d /\ r = q
      BY <1>3, <1>4, <2>1, Zenon
    <2>2. CASE c = d /\ s = q
      BY <1>3, <1>4, <2>2, Zenon
    <2>3. CASE (a # d \/ r # q) /\ (c # d \/ s # q)
      <3>1. objs'[a][r] = objs[a][r] /\ objs'[c][s] = objs[c][s]
        BY <2>3, Zenon
      <3>. QED BY <1>4, <3>1 DEF MemsDistinct
    <2>. QED BY <2>1, <2>2, <2>3, Zenon
  <1>. QED BY <1>2, <1>4, SMTT(20) DEF MemsDistinct

LEMMA MemsStep == TypeOK /\ MemsDistinct /\ [Next]_vars => MemsDistinct'
  <1> SUFFICES ASSUME TypeOK, MemsDistinct, [Next]_vars PROVE MemsDistinct'
    OBVIOUS
  <1>0. mems \in Nat /\ objs \in [Ctx -> [ResIds -> Obj \cup {None}]]
    BY ObjectsAssumption DEF TypeOK
  <1>1. ASSUME objs' = objs, mems' = mems \/ mems' = mems + 1 PROVE MemsDistinct'
    BY <1>0, <1>1, MemsKept
  <1>2. ASSUME NEW c \in Ctx, ContextDestroy(c) PROVE MemsDistinct'
    <2>1. mems' = mems /\ objs' = [objs EXCEPT ![c] = [r \in ResIds |-> None]]
      BY <1>2, Zenon DEF ContextDestroy
    <2>2. \A d \in Ctx, r \in ResIds : objs'[d][r] = None \/ objs'[d][r] = objs[d][r]
      BY <1>0, <2>1, Zenon
    <2>. QED BY <1>0, <2>1, <2>2, MemsKept
  <1>3. ASSUME NEW c \in Ctx, NEW b \in BlobIds, NEW r \in ResIds,
               GetBlob(c, b, r) \/ GetBlobDupFails(c, b, r)
        PROVE  MemsDistinct'
    <2>1. /\ mems' = mems + 1 /\ objs'[c][r].mem = BlobMem(c)
          /\ \A d \in Ctx, q \in ResIds : d # c \/ q # r => objs'[d][q] = objs[d][q]
      <3>1. Files(c, b, r)
        BY <1>3, FiledObj, Zenon
      <3>. QED BY <3>1, Zenon DEF Files
    <2>2. BlobMem(c).id = mems + 1
      BY Zenon DEF BlobMem, Import
    <2>. QED BY <2>1, <2>2, MemsFresh
  <1>4. ASSUME NEW c \in Ctx, NEW r \in ResIds, NEW iova, SetIova(c, r, iova)
        PROVE  MemsDistinct'
    <2>1. /\ mems' = mems /\ objs[c][r] # None
          /\ objs'[c][r] = [objs[c][r] EXCEPT !.iova = iova]
          /\ \A d \in Ctx, q \in ResIds : d # c \/ q # r => objs'[d][q] = objs[d][q]
      BY <1>0, <1>4, Zenon DEF SetIova
    <2>2. objs'[c][r].mem = objs[c][r].mem
      BY <1>0, <2>1 DEF Obj
    <2>3. \A d \in Ctx, q \in ResIds :
              objs'[d][q] = None \/ (objs[d][q] # None /\ objs'[d][q].mem = objs[d][q].mem)
      BY <2>1, <2>2, Zenon
    <2>. QED BY <1>0, <2>1, <2>3, MemsKept
  <1>5. ASSUME NEW c \in Ctx, NEW r \in ResIds, AttachResource(c, r) PROVE MemsDistinct'
    <2>1. mems' = mems + 1 /\ objs' = [objs EXCEPT ![c][r] = AttachedObj(c, r)]
      BY <1>5, Zenon DEF AttachResource, AttachedObj
    <2>2. /\ objs'[c][r] = AttachedObj(c, r)
          /\ \A d \in Ctx, q \in ResIds : d # c \/ q # r => objs'[d][q] = objs[d][q]
      BY <1>0, <2>1, PutEntry, Zenon
    <2>3. AttachedObj(c, r).mem.id = mems + 1
      BY Zenon DEF AttachedObj, Import
    <2>. QED BY <2>1, <2>2, <2>3, MemsFresh
  <1>6. ASSUME NEW c \in Ctx, NEW r \in ResIds, DetachResource(c, r) PROVE MemsDistinct'
    <2>1. mems' = mems /\ objs' = [objs EXCEPT ![c][r] = None]
      BY <1>6, Zenon DEF DetachResource
    <2>2. \A d \in Ctx, q \in ResIds : objs'[d][q] = None \/ objs'[d][q] = objs[d][q]
      BY <1>0, <2>1, Zenon
    <2>. QED BY <1>0, <2>1, <2>2, MemsKept
  <1>7. ASSUME NEW r \in ResIds, ResourceUnref(r) PROVE MemsDistinct'
    <2>1. mems' = mems /\ objs' = [c \in Ctx |-> [objs[c] EXCEPT ![r] = None]]
      BY <1>7, Zenon DEF ResourceUnref
    <2>2. \A d \in Ctx, q \in ResIds : objs'[d][q] = None \/ objs'[d][q] = objs[d][q]
      BY <1>0, <2>1, Zenon
    <2>. QED BY <1>0, <2>1, <2>2, MemsKept
  <1>8. ASSUME NEW c \in Ctx, NEW b \in BlobIds, NEW r \in ResIds,
               \/ GetBlobRefused(c, b, r) \/ GetBlobMismatch(c, b, r) \/ GetBlobNoFd(c, b, r)
               \/ GetBlobImportFails(c, b, r) \/ GetBlobBindFails(c, b, r)
        PROVE  MemsDistinct'
    BY <1>1, <1>8, Zenon DEF GetBlobRefused, GetBlobMismatch, GetBlobNoFd,
           GetBlobImportFails, GetBlobBindFails
  <1>9. ASSUME UNCHANGED <<objs, mems>> PROVE MemsDistinct'
    BY <1>1, <1>9, Zenon
  <1>. QED BY <1>2, <1>3, <1>4, <1>5, <1>6, <1>7, <1>8, <1>9, SMTT(20)
           DEF Next, vars, ContextCreate, GemNew, SetGuestBlobFd, CreateWithoutFd

LEMMA KnownStep == TypeOK /\ KnownHasResource /\ [Next]_vars => KnownHasResource'
  <1> SUFFICES ASSUME TypeOK, KnownHasResource, [Next]_vars PROVE KnownHasResource'
    OBVIOUS
  <1>0. /\ objs \in [Ctx -> [ResIds -> Obj \cup {None}]]
        /\ res \in [ResIds -> [pages : Pages, size : Sizes] \cup {None}]
    BY Zenon DEF TypeOK
  <1>1. ASSUME res' = res,
               \A c \in Ctx, r \in ResIds : objs'[c][r] = None \/ objs'[c][r] = objs[c][r]
        PROVE  KnownHasResource'
    BY <1>1, Zenon DEF KnownHasResource
  <1>2. ASSUME NEW c \in Ctx, ContextDestroy(c) PROVE KnownHasResource'
    <2>1. res' = res /\ objs' = [objs EXCEPT ![c] = [r \in ResIds |-> None]]
      BY <1>2, Zenon DEF ContextDestroy
    <2>2. \A d \in Ctx, r \in ResIds : objs'[d][r] = None \/ objs'[d][r] = objs[d][r]
      BY <1>0, <2>1, Zenon
    <2>. QED BY <1>1, <2>1, <2>2, Zenon
  <1>3. ASSUME NEW c \in Ctx, NEW b \in BlobIds, NEW r \in ResIds, GetBlob(c, b, r)
        PROVE  KnownHasResource'
    <2>1. /\ res'[r] = [pages |-> parked[c], size |-> blobs[c][b].size]
          /\ \A q \in ResIds : q # r => res'[q] = res[q]
          /\ \A d \in Ctx, q \in ResIds : q # r => objs'[d][q] = objs[d][q]
      BY <1>0, <1>3, Zenon DEF GetBlob, GetBlobBound
    <2>2. res'[r] # None
      <3>1. "pages" \in DOMAIN res'[r] /\ DOMAIN <<>> = {}
        BY <2>1
      <3>. QED BY <3>1, Zenon DEF None
    <2>. QED BY <2>1, <2>2, SMTT(20) DEF KnownHasResource
  <1>4. ASSUME NEW c \in Ctx, NEW b \in BlobIds, NEW r \in ResIds, GetBlobDupFails(c, b, r)
        PROVE  KnownHasResource'
    <2>1. /\ res' = res /\ ~objs'[c][r].exported /\ objs'[c][r].mem = BlobMem(c)
          /\ \A d \in Ctx, q \in ResIds : d # c \/ q # r => objs'[d][q] = objs[d][q]
      <3>1. res' = res
        BY <1>4, Zenon DEF GetBlobDupFails
      <3>2. Files(c, b, r)
        BY <1>4, FiledObj, Zenon
      <3>. QED BY <1>4, <3>1, <3>2, Zenon DEF Files
    <2>2. BlobMem(c).guest
      BY Zenon DEF BlobMem, Import
    <2>3. ASSUME NEW d \in Ctx, NEW q \in ResIds, objs'[d][q] # None,
                 objs'[d][q].exported \/ ~objs'[d][q].mem.guest
          PROVE  res'[q] # None
      <3>1. d # c \/ q # r
        BY <2>1, <2>2, <2>3, Zenon
      <3>. QED BY <2>1, <2>3, <3>1, Zenon DEF KnownHasResource
    <2>. QED BY <2>3, Zenon DEF KnownHasResource
  <1>5. ASSUME NEW c \in Ctx, NEW r \in ResIds, NEW iova, SetIova(c, r, iova)
        PROVE  KnownHasResource'
    <2>1. /\ res' = res /\ objs[c][r] # None
          /\ objs'[c][r] = [objs[c][r] EXCEPT !.iova = iova]
          /\ \A d \in Ctx, q \in ResIds : d # c \/ q # r => objs'[d][q] = objs[d][q]
      BY <1>0, <1>5, Zenon DEF SetIova
    <2>2. objs'[c][r].mem = objs[c][r].mem /\ objs'[c][r].exported = objs[c][r].exported
      BY <1>0, <2>1 DEF Obj
    <2>3. ASSUME NEW d \in Ctx, NEW q \in ResIds, objs'[d][q] # None,
                 objs'[d][q].exported \/ ~objs'[d][q].mem.guest
          PROVE  res'[q] # None
      <3>1. CASE d = c /\ q = r
        BY <2>1, <2>2, <2>3, <3>1, Zenon DEF KnownHasResource
      <3>2. CASE d # c \/ q # r
        BY <2>1, <2>3, <3>2, ZenonT(40) DEF KnownHasResource
      <3>. QED BY <3>1, <3>2, Zenon
    <2>. QED BY <2>3, Zenon DEF KnownHasResource
  <1>6. ASSUME NEW c \in Ctx, NEW r \in ResIds, AttachResource(c, r) PROVE KnownHasResource'
    <2>1. /\ res' = res /\ res[r] # None
          /\ \A d \in Ctx, q \in ResIds : d # c \/ q # r => objs'[d][q] = objs[d][q]
      BY <1>0, <1>6, Zenon DEF AttachResource
    <2>. QED BY <2>1 DEF KnownHasResource
  <1>7. ASSUME NEW c \in Ctx, NEW r \in ResIds, DetachResource(c, r) PROVE KnownHasResource'
    <2>1. res' = res /\ objs' = [objs EXCEPT ![c][r] = None]
      BY <1>7, Zenon DEF DetachResource
    <2>2. \A d \in Ctx, q \in ResIds : objs'[d][q] = None \/ objs'[d][q] = objs[d][q]
      BY <1>0, <2>1, Zenon
    <2>. QED BY <1>1, <2>1, <2>2, Zenon
  <1>8. ASSUME NEW r \in ResIds, ResourceUnref(r) PROVE KnownHasResource'
    <2>1. /\ \A c \in Ctx, q \in ResIds : objs'[c][q] = IF q = r THEN None ELSE objs[c][q]
          /\ \A q \in ResIds : q # r => res'[q] = res[q]
      BY <1>0, <1>8, Zenon DEF ResourceUnref
    <2>. QED BY <2>1, SMTT(20) DEF KnownHasResource
  <1>9. ASSUME UNCHANGED <<objs, res>> PROVE KnownHasResource'
    BY <1>1, <1>9, Zenon
  <1>10. ASSUME NEW c \in Ctx, NEW b \in BlobIds, NEW r \in ResIds,
                \/ GetBlobRefused(c, b, r) \/ GetBlobMismatch(c, b, r) \/ GetBlobNoFd(c, b, r)
                \/ GetBlobImportFails(c, b, r) \/ GetBlobBindFails(c, b, r)
         PROVE  KnownHasResource'
    BY <1>9, <1>10, Zenon DEF GetBlobRefused, GetBlobMismatch, GetBlobNoFd,
           GetBlobImportFails, GetBlobBindFails
  <1>. QED BY <1>2, <1>3, <1>4, <1>5, <1>6, <1>7, <1>8, <1>9, <1>10, SMTT(20)
           DEF Next, vars, ContextCreate, GemNew, SetGuestBlobFd, CreateWithoutFd

\* Every buffer the guest knows of is what the GPU sees at every page of its
\* address, whatever was moved, attached, freed, destroyed or failed since
\* (vbo_op, free_object, gem_set_iova): LiveRangesBound for any number of
\* contexts, slices, blobs, resources and imports.
THEOREM LiveRangesStayBound == Spec => []LiveRangesBound
  <1>1. Init => LiveInv
    <2> SUFFICES ASSUME Init PROVE LiveInv
      BY Zenon
    <2>1. TypeOK /\ ObjectsOwned /\ SlicesExclusive /\ MemsDistinct /\ KnownHasResource
      BY InitType, Zenon DEF Init, ObjectsOwned, SlicesExclusive, MemsDistinct, KnownHasResource
    <2>2. \A c \in Ctx, r \in ResIds : Addr(c, r) = {}
      BY Zenon DEF Init, Addr, Live
    <2>3. \A c \in Ctx, b \in BlobIds : BlobAddr(c, b) = {}
      BY Zenon DEF Init, BlobAddr
    <2>. QED BY <2>1, <2>2, <2>3, Zenon DEF LiveInv, RangesApart
  <1>2. LiveInv /\ [Next]_vars => LiveInv'
    BY TypeStep, OwnedStep, ExclusiveStep, MemsStep, KnownStep, RangesStep, Zenon DEF LiveInv
  <1>3. LiveInv => LiveRangesBound
    BY Zenon DEF LiveInv, RangesApart, Addr, LiveRangesBound
  <1>. QED BY <1>1, <1>2, <1>3, PTL DEF Spec

=============================================================================
