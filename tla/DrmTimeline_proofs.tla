-------------------------- MODULE DrmTimeline_proofs --------------------------
(***************************************************************************)
(* The sync thread of a native context's timeline, for any number of       *)
(* submitqueues, submissions and fences: its pointer stays good while the  *)
(* mutex is released, it retires only what the GPU has passed, and the     *)
(* fences put on the timeline implement FenceTimeline.                     *)
(***************************************************************************)
EXTENDS DrmTimeline, TLAPS

-----------------------------------------------------------------------------
(***************************************************************************)
(* The inductive invariant                                                 *)
(***************************************************************************)

\* What is pending are the fences put on the timeline last, in order.
Numbered ==
    /\ Len(pending_fences) <= queued /\ queued <= fence_id
    /\ \A i \in DOMAIN pending_fences :
           pending_fences[i].nr = (queued - Len(pending_fences)) + i

\* In timestamp mode a fence, and what is stashed for the next one, waits for
\* the submission its queue made last.
Stamped ==
    use_wait_timestamp =>
        /\ last # None => last[2] = issued[last[1]]
        /\ \A i \in DOMAIN pending_fences : pending_fences[i].ts = pending_fences[i].issued

\* The GPU passes only what was submitted, and a wait that said so said so
\* of something that is past.
Passed ==
    /\ \A q \in Queues : done[q] <= issued[q]
    /\ tpc = "relock" /\ ret = "retired" => GpuPassed(cur)

Inv == TypeOK /\ WaitedFenceIsFirst /\ Numbered /\ Stamped /\ Passed


-----------------------------------------------------------------------------
(***************************************************************************)
(* Lists                                                                   *)
(***************************************************************************)

\* The numbers of a list's fences, as FenceTimeline sees them
Numbers(l) == [i \in DOMAIN l |-> l[i].nr]

LEMMA FenceFields ==
    ASSUME NEW f \in Fence
    PROVE  /\ f # None /\ f.id \in 1..MaxFences /\ f.nr \in 1..MaxFences
           /\ f.queue \in Queues /\ f.ts \in 1..MaxSubmits /\ f.issued \in 0..MaxSubmits
  <1>1. "id" \in DOMAIN f /\ DOMAIN <<>> = {}
    BY DEF Fence
  <1>. QED BY <1>1, Zenon DEF Fence, None

LEMMA NumbersAt ==
    ASSUME NEW l \in Seq(Fence)
    PROVE  /\ Numbers(l) \in Seq(Nat) /\ Len(Numbers(l)) = Len(l)
           /\ \A i \in 1 .. Len(l) : Numbers(l)[i] = l[i].nr
  <1>1. Len(l) \in Nat /\ DOMAIN l = 1 .. Len(l) /\ \A i \in 1 .. Len(l) : l[i] \in Fence
    OBVIOUS
  <1>2. \A i \in 1 .. Len(l) : l[i].nr \in Nat
    BY <1>1, FenceFields, DrmConstants
  <1> DEFINE n == Len(l)
  <1> HIDE DEF n
  <1>3. Numbers(l) = [i \in 1..n |-> l[i].nr]
    BY <1>1, Zenon DEF Numbers, n
  <1>4. Numbers(l) \in [1..n -> Nat]
    BY <1>2, <1>3, Zenon DEF n
  <1>5. n \in Nat
    BY <1>1, Zenon DEF n
  <1>6. Numbers(l) \in Seq(Nat) /\ Len(Numbers(l)) = n
    BY <1>4, <1>5
  <1>. QED BY <1>3, <1>6, Zenon DEF n

LEMMA SameNumbers ==
    ASSUME NEW s \in Seq(Nat), NEW t \in Seq(Nat), Len(s) = Len(t),
           \A i \in 1 .. Len(s) : s[i] = t[i]
    PROVE  s = t
  <1>. QED BY SMTT(30)

\* list_addtail
LEMMA AppendFence ==
    ASSUME NEW l \in Seq(Fence), NEW f \in Fence
    PROVE  /\ Append(l, f) \in Seq(Fence) /\ Len(Append(l, f)) = Len(l) + 1
           /\ \A i \in 1 .. Len(l) : Append(l, f)[i] = l[i]
           /\ Append(l, f)[Len(l) + 1] = f
           /\ Append(l, f) # <<>> /\ (l # <<>> => Head(Append(l, f)) = Head(l))
           /\ Numbers(Append(l, f)) = Append(Numbers(l), f.nr)
  <1>1. /\ Append(l, f) \in Seq(Fence) /\ Len(l) \in Nat /\ Len(Append(l, f)) = Len(l) + 1
        /\ \A i \in 1 .. Len(l) : Append(l, f)[i] = l[i]
        /\ Append(l, f)[Len(l) + 1] = f
    OBVIOUS
  <1> DEFINE m == Append(l, f)
             a == Numbers(l)
             b == Numbers(m)
  <1>2. m # <<>> /\ (l # <<>> => Head(m) = Head(l))
    <2>1. m # <<>> /\ Head(m) = m[1]
      BY <1>1
    <2>2. l # <<>> => Head(l) = l[1] /\ 1 \in 1 .. Len(l)
      BY <1>1
    <2>. QED BY <1>1, <2>1, <2>2, Zenon
  <1> HIDE DEF m, a, b
  <1>3. /\ b \in Seq(Nat) /\ Len(b) = Len(l) + 1
        /\ \A i \in 1 .. Len(l) + 1 : b[i] = m[i].nr
    BY <1>1, NumbersAt, Zenon DEF b, m
  <1>4. a \in Seq(Nat) /\ Len(a) = Len(l) /\ \A i \in 1 .. Len(l) : a[i] = l[i].nr
    BY NumbersAt, Zenon DEF a
  <1>5. f.nr \in Nat
    BY FenceFields, DrmConstants
  <1>6. /\ Append(a, f.nr) \in Seq(Nat) /\ Len(Append(a, f.nr)) = Len(l) + 1
        /\ \A i \in 1 .. Len(l) : Append(a, f.nr)[i] = a[i]
        /\ Append(a, f.nr)[Len(l) + 1] = f.nr
    BY <1>1, <1>4, <1>5
  <1>7. \A i \in 1 .. Len(l) + 1 : i \in 1 .. Len(l) \/ i = Len(l) + 1
    BY <1>1
  <1>8. /\ m[Len(l) + 1] = f /\ \A i \in 1 .. Len(l) : m[i] = l[i]
        /\ \A i \in 1 .. Len(l) : i \in 1 .. Len(l) + 1
        /\ Len(l) + 1 \in 1 .. Len(l) + 1
    BY <1>1 DEF m
  <1>9. \A i \in 1 .. Len(l) + 1 : b[i] = Append(a, f.nr)[i]
    BY <1>3, <1>4, <1>6, <1>7, <1>8, Zenon
  <1>10. b = Append(a, f.nr)
    BY <1>3, <1>6, <1>9, SameNumbers, Zenon
  <1>. QED BY <1>1, <1>2, <1>10, Zenon DEF m, a, b

\* list_del of the first fence: the fences differ in their numbers, so the
\* first one is the one found.
LEMMA DelFirst ==
    ASSUME NEW l \in Seq(Fence), l # <<>>, NEW n \in Int,
           \A i \in DOMAIN l : l[i].nr = n + i
    PROVE  /\ ListDel(l, Head(l)) \in Seq(Fence)
           /\ Len(ListDel(l, Head(l))) = Len(l) - 1
           /\ \A i \in 1 .. Len(l) - 1 : ListDel(l, Head(l))[i] = l[i + 1] /\ i + 1 \in DOMAIN l
           /\ Numbers(ListDel(l, Head(l))) = SubSeq(Numbers(l), 2, Len(Numbers(l)))
           /\ 1 \in DOMAIN Numbers(l) /\ Numbers(l)[1] = Head(l).nr
  <1>1. /\ Len(l) \in Nat \ {0} /\ DOMAIN l = 1 .. Len(l) /\ Head(l) = l[1] /\ 1 \in DOMAIN l
        /\ Tail(l) \in Seq(Fence) /\ Len(Tail(l)) = Len(l) - 1
        /\ \A i \in 1 .. Len(l) - 1 : Tail(l)[i] = l[i + 1] /\ i + 1 \in DOMAIN l
    OBVIOUS
  <1> DEFINE t == Tail(l)
             b == Numbers(l)
  <1> HIDE DEF t, b
  <1>2. ListDel(l, l[1]) = t
    <2>1. \A i \in DOMAIN l : l[i] = l[1] => i = 1
      <3>1. \A i \in DOMAIN l : l[i].nr = l[1].nr => n + i = n + 1
        BY <1>1, Zenon
      <3>2. \A i \in DOMAIN l : n + i = n + 1 => i = 1
        BY <1>1
      <3>. QED BY <3>1, <3>2, Zenon
    <2> DEFINE k == CHOOSE i \in DOMAIN l : l[i] = l[1]
    <2>2. k = 1
      BY <1>1, <2>1, Zenon
    <2>3. ListDel(l, l[1]) = SubSeq(l, 1, k - 1) \o SubSeq(l, k + 1, Len(l))
      BY <1>1, Zenon DEF ListDel
    <2> HIDE DEF k
    <2>4. SubSeq(l, 1, 0) = <<>> /\ SubSeq(l, 2, Len(l)) = t
      BY <1>1 DEF t
    <2>5. SubSeq(l, 1, k - 1) \o SubSeq(l, k + 1, Len(l)) = <<>> \o t
      BY <2>2, <2>4
    <2>6. t \in Seq(Fence)
      BY <1>1, Zenon DEF t
    <2>7. <<>> \o t = t
      BY <2>6
    <2>. QED BY <2>3, <2>5, <2>7, Zenon
  <1>3. /\ b \in Seq(Nat) /\ Len(b) = Len(l) /\ \A i \in 1 .. Len(l) : b[i] = l[i].nr
    BY NumbersAt, Zenon DEF b
  <1>4. /\ Numbers(t) \in Seq(Nat) /\ Len(Numbers(t)) = Len(l) - 1
        /\ \A i \in 1 .. Len(l) - 1 : Numbers(t)[i] = t[i].nr
    BY <1>1, NumbersAt, Zenon DEF t
  <1>5. /\ SubSeq(b, 2, Len(b)) \in Seq(Nat) /\ Len(SubSeq(b, 2, Len(b))) = Len(l) - 1
        /\ \A i \in 1 .. Len(l) - 1 : SubSeq(b, 2, Len(b))[i] = b[i + 1]
    BY <1>1, <1>3
  <1>6. \A i \in 1 .. Len(l) - 1 : t[i] = l[i + 1] /\ i + 1 \in 1 .. Len(l)
    BY <1>1, Zenon DEF t
  <1>7. \A i \in 1 .. Len(l) - 1 : Numbers(t)[i] = SubSeq(b, 2, Len(b))[i]
    BY <1>3, <1>4, <1>5, <1>6, Zenon
  <1>8. Numbers(t) = SubSeq(b, 2, Len(b))
    BY <1>4, <1>5, <1>7, SameNumbers, Zenon
  <1>9. 1 \in DOMAIN b /\ b[1] = l[1].nr
    BY <1>1, <1>3
  <1>. QED BY <1>1, <1>2, <1>8, <1>9, Zenon DEF t, b


-----------------------------------------------------------------------------
(***************************************************************************)
(* The steps                                                               *)
(***************************************************************************)

\* No fence is put on the timeline or taken from it.
Quiet == UNCHANGED <<queued, pending_fences, retired>>

LEMMA Initially == Init => Inv
  <1> SUFFICES ASSUME Init PROVE Inv
    OBVIOUS
  <1>1. TypeOK
    <2>1. 0 \in 0..MaxSubmits /\ 0 \in 0..MaxFences
      BY DrmConstants
    <2>2. <<>> \in Seq(Fence) /\ <<>> \in Seq(1..MaxFences)
      OBVIOUS
    <2>. QED BY <2>1, <2>2, Zenon DEF Init, TypeOK
  <1>. QED BY <1>1 DEF Init, Inv, WaitedFenceIsFirst, Numbered, Stamped, Passed

LEMMA StepSubmit ==
    ASSUME Inv, NEW q \in Queues, GemSubmit(q)
    PROVE  Inv' /\ Quiet
  <1> USE DEF Inv
  <1>0. issued[q] \in 0..MaxSubmits /\ issued[q] < MaxSubmits /\ MaxSubmits \in Nat
    BY DrmConstants, Zenon DEF GemSubmit, TypeOK
  <1>1. /\ issued' \in [Queues -> 0..MaxSubmits] /\ issued'[q] = issued[q] + 1
        /\ \A p \in Queues : p # q => issued'[p] = issued[p]
    BY <1>0 DEF GemSubmit, TypeOK
  <1>2. last' = <<q, issued[q] + 1>> \/ (last' = last /\ ~use_wait_timestamp)
    BY Zenon DEF GemSubmit, KGSL_GUEST_TS
  <1>3. last' \in {None} \cup (Queues \X (1..MaxSubmits))
    <2>1. <<q, issued[q] + 1>> \in Queues \X (1..MaxSubmits)
      BY <1>0
    <2>. QED BY <1>2, <2>1, Zenon DEF TypeOK
  <1>4. TypeOK'
    BY <1>1, <1>3, Zenon DEF GemSubmit, TypeOK, thread
  <1>5. Stamped'
    <2>1. use_wait_timestamp => last'[1] = q /\ last'[2] = issued[q] + 1
      BY <1>2
    <2>. QED BY <1>1, <2>1, Zenon DEF GemSubmit, Stamped
  <1>6. Passed'
    <2>1. \A p \in Queues : done[p] \in Int /\ issued[p] \in Int
      BY DrmConstants DEF TypeOK
    <2>2. \A p \in Queues : done[p] <= issued'[p]
      BY <1>1, <2>1 DEF Passed
    <2>. QED BY <2>2, Zenon DEF GemSubmit, Passed, GpuPassed, thread
  <1>7. WaitedFenceIsFirst' /\ Numbered'
    BY Zenon DEF GemSubmit, WaitedFenceIsFirst, Numbered, thread
  <1>. QED BY <1>4, <1>5, <1>6, <1>7, Zenon DEF GemSubmit, Quiet

\* The timestamps the GPU has passed only grow.
LEMMA PassedKept ==
    ASSUME Inv, done' \in [Queues -> 0..MaxSubmits], \A q \in Queues : done[q] <= done'[q],
           cur' = cur, tpc' = tpc, ret' = ret
    PROVE  tpc' = "relock" /\ ret' = "retired" => GpuPassed(cur)'
  <1> SUFFICES ASSUME tpc = "relock", ret = "retired" PROVE cur.ts <= done'[cur.queue]
    BY Zenon DEF GpuPassed
  <1>1. cur \in Fence
    <2>1. pending_fences # <<>> /\ Head(pending_fences) = cur /\ pending_fences \in Seq(Fence)
      BY Zenon DEF Inv, WaitedFenceIsFirst, TypeOK
    <2>. QED BY <2>1
  <1>2. cur.queue \in Queues /\ cur.ts \in Int
    BY <1>1, FenceFields, DrmConstants
  <1>3. cur.ts <= done[cur.queue]
    BY Zenon DEF Inv, Passed, GpuPassed
  <1>4. done[cur.queue] \in Int /\ done'[cur.queue] \in Int
    BY <1>2, DrmConstants DEF Inv, TypeOK
  <1>. QED BY <1>2, <1>3, <1>4

LEMMA StepGpu ==
    ASSUME Inv, NEW q \in Queues, SubmitqueueClose(q) \/ GpuRetire(q)
    PROVE  Inv' /\ Quiet
  <1>0. /\ TypeOK /\ WaitedFenceIsFirst /\ Numbered /\ Stamped
        /\ \A p \in Queues : done[p] <= issued[p]
    BY Zenon DEF Inv, Passed
  <1>1. \A p \in Queues : done[p] \in 0..MaxSubmits /\ issued[p] \in 0..MaxSubmits
    BY <1>0, Zenon DEF TypeOK
  <1>2. /\ UNCHANGED <<use_wait_timestamp, issued, last, mpc, fence_id, queued, tpc, cur, ret,
                       pending_fences, stop_sync_thread, signalled, retired, told>>
        /\ open' \subseteq open
    BY Zenon DEF SubmitqueueClose, GpuRetire, command, thread
  <1>3. /\ done'[q] = issued[q] \/ (done'[q] = done[q] + 1 /\ done[q] < issued[q])
        /\ \A p \in Queues : p # q => done'[p] = done[p]
        /\ DOMAIN done' = Queues /\ done' = [p \in Queues |-> done'[p]]
    BY <1>0, Zenon DEF SubmitqueueClose, GpuRetire, TypeOK
  <1>4. \A p \in Queues : /\ done'[p] \in 0..MaxSubmits
                          /\ done[p] <= done'[p] /\ done'[p] <= issued[p]
    <2>1. MaxSubmits \in Nat
      BY DrmConstants, Zenon
    <2>. QED BY <1>0, <1>1, <1>3, <2>1
  <1>5. done' \in [Queues -> 0..MaxSubmits]
    BY <1>3, <1>4, Zenon
  <1>6. TypeOK'
    BY <1>0, <1>2, <1>5, ZenonT(40) DEF TypeOK
  <1>7. Passed'
    <2>1. tpc' = "relock" /\ ret' = "retired" => GpuPassed(cur)'
      BY <1>2, <1>4, <1>5, PassedKept, Zenon
    <2>. QED BY <1>2, <1>4, <2>1, Zenon DEF Passed
  <1>8. WaitedFenceIsFirst' /\ Numbered' /\ Stamped'
    BY <1>0, <1>2, Zenon DEF WaitedFenceIsFirst, Numbered, Stamped
  <1>. QED BY <1>2, <1>6, <1>7, <1>8, Zenon DEF Inv, Quiet


LEMMA NewFenceFields ==
    ASSUME Inv, last # None, fence_id < MaxFences
    PROVE  /\ NewFence \in Fence /\ NewFence.nr = queued + 1 /\ queued + 1 \in 0..MaxFences
           /\ use_wait_timestamp => NewFence.ts = NewFence.issued
  <1>1. last \in Queues \X (1..MaxSubmits) /\ queued <= fence_id
        /\ fence_id \in 0..MaxFences /\ queued \in 0..MaxFences /\ MaxFences \in Nat
    BY DrmConstants, Zenon DEF Inv, TypeOK, Numbered
  <1>2. last[1] \in Queues /\ last[2] \in 1..MaxSubmits
    BY <1>1, Zenon
  <1>3. issued[last[1]] \in 0..MaxSubmits
    BY <1>2, Zenon DEF Inv, TypeOK
  <1>4. fence_id + 1 \in 1..MaxFences /\ queued + 1 \in 1..MaxFences /\ queued + 1 \in 0..MaxFences
    BY <1>1
  <1>5. NewFence \in Fence
    BY <1>2, <1>3, <1>4, Zenon DEF NewFence, Fence
  <1>6. NewFence.nr = queued + 1 /\ NewFence.ts = last[2] /\ NewFence.issued = issued[last[1]]
    BY Zenon DEF NewFence
  <1>. QED BY <1>4, <1>5, <1>6, Zenon DEF Inv, Stamped

LEMMA StepQueue ==
    ASSUME Inv, SubmitFenceQueued
    PROVE  /\ Inv' /\ retired' = retired /\ queued' = queued + 1
           /\ Numbers(pending_fences)' = Append(Numbers(pending_fences), queued + 1)
  <1> DEFINE p == pending_fences
             f == NewFence
  <1>0. /\ TypeOK /\ WaitedFenceIsFirst /\ Numbered /\ Stamped /\ Passed
        /\ p \in Seq(Fence) /\ Len(p) \in Nat /\ DOMAIN p = 1 .. Len(p)
        /\ queued \in 0..MaxFences /\ fence_id \in 0..MaxFences /\ MaxFences \in Nat
    BY DrmConstants DEF Inv, TypeOK
  <1>1. /\ last # None /\ fence_id < MaxFences
        /\ pending_fences' = Append(p, f) /\ last' = None
        /\ fence_id' = fence_id + 1 /\ queued' = queued + 1
        /\ signalled' = (signalled \/ tpc = "cond")
        /\ UNCHANGED <<use_wait_timestamp, issued, open, mpc, tpc, cur, ret, done,
                       stop_sync_thread, retired, told>>
    BY Zenon DEF SubmitFenceQueued, CndSignal, thread
  <1>2. /\ f \in Fence /\ f.nr = queued + 1 /\ queued + 1 \in 0..MaxFences
        /\ use_wait_timestamp => f.ts = f.issued
    BY <1>1, NewFenceFields, Zenon
  <1> HIDE DEF f
  <1>3. /\ pending_fences' \in Seq(Fence) /\ Len(pending_fences') = Len(p) + 1
        /\ \A i \in 1 .. Len(p) : pending_fences'[i] = p[i]
        /\ pending_fences'[Len(p) + 1] = f
        /\ pending_fences' # <<>> /\ (p # <<>> => Head(pending_fences') = Head(p))
        /\ Numbers(pending_fences') = Append(Numbers(p), f.nr)
    BY <1>0, <1>1, <1>2, AppendFence, Zenon
  <1>4. TypeOK'
    <2>1. fence_id + 1 \in 0..MaxFences
      BY <1>0, <1>1
    <2>. QED BY <1>0, <1>1, <1>2, <1>3, <2>1, Zenon DEF TypeOK
  <1>5. WaitedFenceIsFirst'
    BY <1>0, <1>1, <1>3, Zenon DEF WaitedFenceIsFirst
  <1>6. DOMAIN pending_fences' = 1 .. Len(p) + 1
    BY <1>3
  <1>7. \A i \in 1 .. Len(p) + 1 : i \in 1 .. Len(p) \/ i = Len(p) + 1
    BY <1>0
  <1>8. Numbered'
    <2>1. Len(pending_fences') <= queued' /\ queued' <= fence_id'
      BY <1>0, <1>1, <1>3 DEF Numbered
    <2>2. \A i \in 1 .. Len(p) + 1 : pending_fences'[i].nr = (queued' - Len(pending_fences')) + i
      <3>1. \A i \in 1 .. Len(p) : pending_fences'[i].nr = (queued - Len(p)) + i
        BY <1>0, <1>3, Zenon DEF Numbered
      <3>2. /\ \A i \in 1 .. Len(p) : (queued - Len(p)) + i = ((queued + 1) - (Len(p) + 1)) + i
            /\ queued + 1 = ((queued + 1) - (Len(p) + 1)) + (Len(p) + 1)
        BY <1>0
      <3>. QED BY <1>1, <1>2, <1>3, <1>7, <3>1, <3>2, Zenon
    <2>. QED BY <1>6, <2>1, <2>2, Zenon DEF Numbered
  <1>9. Stamped'
    <2> SUFFICES ASSUME use_wait_timestamp'
                 PROVE  \A i \in DOMAIN pending_fences' : pending_fences'[i].ts = pending_fences'[i].issued
      BY <1>1, Zenon DEF Stamped
    <2>1. \A i \in 1 .. Len(p) : p[i].ts = p[i].issued
      BY <1>0, <1>1, Zenon DEF Stamped
    <2>. QED BY <1>1, <1>2, <1>3, <1>6, <1>7, <2>1, Zenon
  <1>10. Passed'
    BY <1>0, <1>1, Zenon DEF Passed, GpuPassed
  <1>. QED BY <1>1, <1>2, <1>3, <1>4, <1>5, <1>8, <1>9, <1>10, Zenon DEF Inv, f

LEMMA StepNow ==
    ASSUME Inv, SubmitFenceNow
    PROVE  Inv' /\ Quiet
  <1>0. /\ TypeOK /\ WaitedFenceIsFirst /\ Numbered /\ Stamped /\ Passed
        /\ queued \in Int /\ fence_id \in 0..MaxFences /\ MaxFences \in Nat
    BY DrmConstants DEF Inv, TypeOK
  <1>1. /\ fence_id < MaxFences /\ fence_id' = fence_id + 1
        /\ told' = Append(told, fence_id + 1)
        /\ UNCHANGED <<use_wait_timestamp, issued, open, last, mpc, queued, tpc, cur, ret, done,
                       pending_fences, stop_sync_thread, signalled, retired>>
    BY Zenon DEF SubmitFenceNow, thread
  <1>2. fence_id + 1 \in 0..MaxFences /\ fence_id + 1 \in 1..MaxFences
    BY <1>0, <1>1
  <1>3. told' \in Seq(1..MaxFences)
    BY <1>0, <1>1, <1>2 DEF TypeOK
  <1>4. TypeOK'
    BY <1>0, <1>1, <1>2, <1>3, Zenon DEF TypeOK
  <1>5. Numbered'
    BY <1>0, <1>1 DEF Numbered
  <1>6. WaitedFenceIsFirst' /\ Stamped' /\ Passed'
    BY <1>0, <1>1, Zenon DEF WaitedFenceIsFirst, Stamped, Passed, GpuPassed
  <1>. QED BY <1>1, <1>4, <1>5, <1>6, Zenon DEF Inv, Quiet

LEMMA StepFails ==
    ASSUME Inv, SubmitFenceFails
    PROVE  Inv' /\ Quiet
  <1>0. /\ TypeOK /\ WaitedFenceIsFirst /\ Numbered /\ Stamped /\ Passed
        /\ queued \in Int /\ fence_id \in 0..MaxFences /\ MaxFences \in Nat
    BY DrmConstants DEF Inv, TypeOK
  <1>1. /\ fence_id < MaxFences /\ fence_id' = fence_id + 1
        /\ UNCHANGED <<use_wait_timestamp, issued, open, last, mpc, queued, tpc, cur, ret, done,
                       pending_fences, stop_sync_thread, signalled, retired, told>>
    BY Zenon DEF SubmitFenceFails, thread
  <1>2. fence_id + 1 \in 0..MaxFences
    BY <1>0, <1>1
  <1>3. TypeOK'
    BY <1>0, <1>1, <1>2, Zenon DEF TypeOK
  <1>4. Numbered'
    BY <1>0, <1>1 DEF Numbered
  <1>5. WaitedFenceIsFirst' /\ Stamped' /\ Passed'
    BY <1>0, <1>1, Zenon DEF WaitedFenceIsFirst, Stamped, Passed, GpuPassed
  <1>. QED BY <1>1, <1>3, <1>4, <1>5, Zenon DEF Inv, Quiet

LEMMA StepStop ==
    ASSUME Inv, FiniStop
    PROVE  Inv' /\ Quiet
  <1>0. TypeOK /\ WaitedFenceIsFirst /\ Numbered /\ Stamped /\ Passed
    BY Zenon DEF Inv
  <1>1. /\ stop_sync_thread' = TRUE /\ mpc' = "join"
        /\ signalled' = (signalled \/ tpc = "cond")
        /\ UNCHANGED <<use_wait_timestamp, issued, open, last, fence_id, queued, tpc, cur, ret,
                       done, pending_fences, retired, told>>
    BY Zenon DEF FiniStop, CndSignal, thread
  <1>2. TypeOK'
    BY <1>0, <1>1, Zenon DEF TypeOK
  <1>3. WaitedFenceIsFirst' /\ Numbered' /\ Stamped' /\ Passed'
    BY <1>0, <1>1, Zenon DEF WaitedFenceIsFirst, Numbered, Stamped, Passed, GpuPassed
  <1>. QED BY <1>1, <1>2, <1>3, Zenon DEF Inv, Quiet

LEMMA StepJoin ==
    ASSUME Inv, FiniJoin
    PROVE  Inv' /\ pending_fences' = <<>> /\ queued' = queued /\ retired' = retired
  <1>0. TypeOK /\ Numbered /\ Passed /\ queued \in Nat
    BY DrmConstants DEF Inv, TypeOK
  <1>1. /\ tpc = "exit" /\ mpc' = "gone" /\ last' = None /\ pending_fences' = <<>>
        /\ UNCHANGED <<use_wait_timestamp, issued, open, fence_id, queued, tpc, cur, ret, done,
                       stop_sync_thread, signalled, retired, told>>
    BY Zenon DEF FiniJoin, thread
  <1>2. <<>> \in Seq(Fence) /\ Len(<<>>) = 0 /\ DOMAIN <<>> = {}
    OBVIOUS
  <1>3. TypeOK'
    BY <1>0, <1>1, <1>2, Zenon DEF TypeOK
  <1>4. Numbered'
    BY <1>0, <1>1, <1>2 DEF Numbered
  <1>5. WaitedFenceIsFirst' /\ Stamped' /\ Passed'
    BY <1>0, <1>1, <1>2, Zenon DEF WaitedFenceIsFirst, Stamped, Passed
  <1>. QED BY <1>1, <1>3, <1>4, <1>5, Zenon DEF Inv


LEMMA StepThread ==
    ASSUME Inv, ThreadLoop \/ ThreadWake \/ ThreadWait
    PROVE  Inv' /\ Quiet
  <1>0. /\ TypeOK /\ WaitedFenceIsFirst /\ Numbered /\ Stamped /\ Passed
    BY Zenon DEF Inv
  <1>1. /\ UNCHANGED <<use_wait_timestamp, issued, open, last, mpc, fence_id, queued, done,
                       pending_fences, stop_sync_thread, retired, told>>
    BY Zenon DEF ThreadLoop, ThreadWake, ThreadWait, ThreadWaitPassed, ThreadWaitTimeout,
           ThreadWaitError, WaitEnds, command
  <1>2. Numbered' /\ Stamped' /\ Quiet
    BY <1>0, <1>1, Zenon DEF Numbered, Stamped, Quiet
  <1>3. CASE ThreadLoop
    <2>1. /\ ret' = ret /\ signalled' = signalled
          /\ \/ tpc' \in {"exit", "cond"} /\ cur' = cur
             \/ tpc' = "wait" /\ pending_fences # <<>> /\ cur' = Head(pending_fences)
      BY <1>3, Zenon DEF ThreadLoop
    <2>2. pending_fences # <<>> => Head(pending_fences) \in Fence
      BY <1>0 DEF TypeOK
    <2>3. TypeOK'
      BY <1>0, <1>1, <2>1, <2>2, Zenon DEF TypeOK
    <2>4. WaitedFenceIsFirst' /\ Passed'
      BY <1>0, <1>1, <2>1, Zenon DEF WaitedFenceIsFirst, Passed
    <2>. QED BY <1>2, <2>3, <2>4, Zenon DEF Inv
  <1>4. CASE ThreadWake
    <2>1. UNCHANGED <<cur, ret>> /\ signalled' = FALSE /\ tpc' = "loop"
      BY <1>4, Zenon DEF ThreadWake
    <2>2. TypeOK'
      BY <1>0, <1>1, <2>1, Zenon DEF TypeOK
    <2>3. WaitedFenceIsFirst' /\ Passed'
      BY <1>0, <1>1, <2>1, Zenon DEF WaitedFenceIsFirst, Passed
    <2>. QED BY <1>2, <2>2, <2>3, Zenon DEF Inv
  <1>5. CASE ThreadWait
    <2>1. /\ tpc = "wait" /\ UNCHANGED <<cur, signalled>> /\ tpc' = "relock"
          /\ \/ GpuPassed(cur) /\ ret' = "retired"
             \/ ret' = "timeout" \/ ret' = "error"
      BY <1>5, Zenon DEF ThreadWait, ThreadWaitPassed, ThreadWaitTimeout, ThreadWaitError,
             WaitEnds
    <2>2. TypeOK'
      BY <1>0, <1>1, <2>1, Zenon DEF TypeOK
    <2>3. WaitedFenceIsFirst' /\ Passed'
      BY <1>0, <1>1, <2>1, Zenon DEF WaitedFenceIsFirst, Passed, GpuPassed
    <2>. QED BY <1>2, <2>2, <2>3, Zenon DEF Inv
  <1>. QED BY <1>3, <1>4, <1>5, Zenon

\* thread_sync retires the fence it waited for, and destroys that one.
LEMMA StepRelock ==
    ASSUME Inv, ThreadRelock
    PROVE  /\ Inv'
           /\ \/ Quiet
              \/ /\ ~ReWait /\ tpc = "relock" /\ queued' = queued
                 /\ 1 \in DOMAIN Numbers(pending_fences)
                 /\ retired' = Numbers(pending_fences)[1]
                 /\ Numbers(pending_fences)' =
                        SubSeq(Numbers(pending_fences), 2, Len(Numbers(pending_fences)))
  <1> DEFINE p == pending_fences
  <1>0. /\ TypeOK /\ WaitedFenceIsFirst /\ Numbered /\ Stamped /\ Passed
        /\ p \in Seq(Fence) /\ Len(p) \in Nat /\ DOMAIN p = 1 .. Len(p)
        /\ queued \in Int
    BY DrmConstants DEF Inv, TypeOK
  <1>1. /\ tpc = "relock" /\ tpc' = "loop"
        /\ UNCHANGED <<use_wait_timestamp, issued, open, last, mpc, fence_id, queued, cur, ret,
                       done, stop_sync_thread, signalled>>
    BY Zenon DEF ThreadRelock, command
  <1>2. WaitedFenceIsFirst' /\ Passed'
    BY <1>0, <1>1, Zenon DEF WaitedFenceIsFirst, Passed
  <1>3. CASE ReWait
    <2>1. UNCHANGED <<pending_fences, retired, told>>
      BY <1>3, Zenon DEF ThreadRelock
    <2>2. TypeOK'
      BY <1>0, <1>1, <2>1, Zenon DEF TypeOK
    <2>3. Numbered' /\ Stamped'
      BY <1>0, <1>1, <2>1, Zenon DEF Numbered, Stamped
    <2>. QED BY <1>1, <1>2, <2>1, <2>2, <2>3, Zenon DEF Inv, Quiet
  <1>4. CASE ~ReWait
    <2>1. /\ retired' = cur.nr /\ told' = Append(told, cur.id)
          /\ pending_fences' = ListDel(p, cur)
      BY <1>4, Zenon DEF ThreadRelock
    <2>2. p # <<>> /\ cur = Head(p) /\ cur \in Fence
      <3>1. p # <<>> /\ cur = Head(p)
        BY <1>0, <1>1, Zenon DEF WaitedFenceIsFirst
      <3>. QED BY <1>0, <3>1
    <2>3. cur.nr \in 1..MaxFences /\ cur.nr \in 0..MaxFences /\ cur.id \in 1..MaxFences
      BY <2>2, FenceFields, DrmConstants
    <2> DEFINE n == queued - Len(p)
    <2>4. n \in Int /\ \A i \in DOMAIN p : p[i].nr = n + i
      BY <1>0 DEF Numbered
    <2>5. /\ pending_fences' \in Seq(Fence) /\ Len(pending_fences') = Len(p) - 1
          /\ \A i \in 1 .. Len(p) - 1 : pending_fences'[i] = p[i + 1] /\ i + 1 \in DOMAIN p
          /\ Numbers(pending_fences') = SubSeq(Numbers(p), 2, Len(Numbers(p)))
          /\ 1 \in DOMAIN Numbers(p) /\ Numbers(p)[1] = cur.nr
      <3> HIDE DEF n
      <3>. QED BY <1>0, <2>1, <2>2, <2>4, DelFirst, Zenon
    <2>6. told' \in Seq(1..MaxFences)
      BY <1>0, <2>1, <2>3 DEF TypeOK
    <2>7. TypeOK'
      BY <1>0, <1>1, <2>1, <2>3, <2>5, <2>6, Zenon DEF TypeOK
    <2>8. DOMAIN pending_fences' = 1 .. Len(p) - 1
      BY <2>5
    <2>9. Numbered'
      <3>1. Len(pending_fences') <= queued' /\ queued' <= fence_id'
        BY <1>0, <1>1, <2>5 DEF Numbered
      <3>2. \A i \in 1 .. Len(p) - 1 : pending_fences'[i].nr = n + (i + 1)
        BY <2>4, <2>5, Zenon
      <3>3. \A i \in 1 .. Len(p) - 1 : n + (i + 1) = (queued - (Len(p) - 1)) + i
        BY <1>0
      <3>. QED BY <1>1, <2>5, <2>8, <3>1, <3>2, <3>3, Zenon DEF Numbered
    <2>10. Stamped'
      <3> SUFFICES ASSUME use_wait_timestamp
                   PROVE  /\ last # None => last[2] = issued[last[1]]
                          /\ \A i \in 1 .. Len(p) - 1 :
                                 pending_fences'[i].ts = pending_fences'[i].issued
        BY <1>1, <2>8, Zenon DEF Stamped
      <3>. QED BY <1>0, <2>5, Zenon DEF Stamped
    <2>. QED BY <1>1, <1>2, <1>4, <2>1, <2>5, <2>7, <2>9, <2>10, Zenon DEF Inv
  <1>. QED BY <1>3, <1>4, Zenon

LEMMA Step == Inv /\ [Next]_vars => Inv'
  <1> SUFFICES ASSUME Inv, [Next]_vars PROVE Inv'
    OBVIOUS
  <1>1. CASE UNCHANGED vars
    <2>1. TypeOK' /\ WaitedFenceIsFirst' /\ Numbered' /\ Stamped' /\ Passed'
      BY <1>1 DEF vars, command, thread, Inv, TypeOK, WaitedFenceIsFirst, Numbered, Stamped,
             Passed, GpuPassed
    <2>. QED BY <2>1, Zenon DEF Inv
  <1>. QED BY <1>1, StepSubmit, StepGpu, StepQueue, StepNow, StepFails, StepStop, StepJoin, StepThread,
              StepRelock, Zenon DEF Next, SyncThread, Done

LEMMA Always == Spec => []Inv
  <1>. QED BY Initially, Step, PTL DEF Spec

-----------------------------------------------------------------------------
(***************************************************************************)
(* The theorems                                                            *)
(***************************************************************************)

\* While thread_sync waits with fence_mutex released, submissions, the closing
\* of queues and drm_timeline_fini leave the fence it points to the first of
\* the list, so the fence it destroys afterwards is a valid one.
THEOREM WaitStaysConsistent == Spec => []WaitConsistent
  <1>1. Inv => WaitConsistent
    BY Zenon DEF Inv, WaitConsistent
  <1>. QED BY <1>1, Always, PTL

\* The sync thread retires a fence only when the GPU is past it, unless the
\* timeline is stopping or the wait by timestamp failed with an error: a chunk
\* of the wait that times out and a failing poll never count.
THEOREM RetiresOnlyPassed == Spec => RetiresPassed
  <1> DEFINE Past == (retired' # retired /\ ~stop_sync_thread) =>
                 \/ use_wait_timestamp /\ ret = "error"
                 \/ (IF use_wait_timestamp THEN cur.issued ELSE cur.ts) <= done[cur.queue]
  <1>1. Inv /\ [Next]_vars => [Past]_vars
    <2> SUFFICES ASSUME Inv, Next, retired' # retired, ~stop_sync_thread,
                        ~(use_wait_timestamp /\ ret = "error")
                 PROVE  (IF use_wait_timestamp THEN cur.issued ELSE cur.ts) <= done[cur.queue]
      BY Zenon DEF vars
    <2>1. ThreadRelock /\ ~ReWait
      BY Zenon DEF Next, SyncThread, Done, vars, GemSubmit, SubmitqueueClose, GpuRetire,
             SubmitFenceQueued, SubmitFenceNow, SubmitFenceFails, FiniStop, FiniJoin,
             ThreadLoop, ThreadWake, ThreadWait, ThreadWaitPassed, ThreadWaitTimeout,
             ThreadWaitError, WaitEnds, ThreadRelock
    <2>2. tpc = "relock" /\ ret = "retired"
      BY <2>1, Zenon DEF ThreadRelock, ReWait, Inv, TypeOK, Passed
    <2>3. cur.ts <= done[cur.queue]
      BY <2>2, Zenon DEF Inv, Passed, GpuPassed
    <2>4. use_wait_timestamp => cur.ts = cur.issued
      <3>1. /\ pending_fences # <<>> /\ cur = Head(pending_fences)
            /\ pending_fences \in Seq(Fence)
        BY <2>2, Zenon DEF Inv, TypeOK, WaitedFenceIsFirst
      <3>2. cur = pending_fences[1] /\ 1 \in DOMAIN pending_fences
        BY <3>1
      <3>. QED BY <3>2, Zenon DEF Inv, Stamped
    <2>. QED BY <2>3, <2>4, Zenon
  <1>. QED BY <1>1, Always, PTL DEF Spec, RetiresPassed

\* What is done to the numbers on the list, in terms of FenceTimeline
LEMMA Refines == Inv /\ [Next]_vars => [Fences!Next]_(Fences!vars)
  <1> SUFFICES ASSUME Inv, [Next]_vars PROVE [Fences!Next]_(Fences!vars)
    OBVIOUS
  <1> DEFINE p == Numbers(pending_fences)
  <1>0. 1 \in TheRing /\ TheRing = {1}
    BY Zenon DEF TheRing
  <1>1. CASE Quiet \/ UNCHANGED vars
    BY <1>1, Zenon DEF Quiet, vars, command, Fences!vars
  <1>2. CASE SubmitFenceQueued
    <2>1. retired' = retired /\ queued' = queued + 1 /\ p' = Append(p, queued + 1)
      BY <1>2, StepQueue, Zenon
    <2>2. Fences!Submit(1)
      <3> HIDE DEF p
      <3>1. [r \in TheRing |-> queued'] = [[r \in TheRing |-> queued] EXCEPT ![1] = @ + 1]
        BY <1>0, <2>1, Zenon
      <3>2. [r \in TheRing |-> p'] = [[r \in TheRing |-> p] EXCEPT ![1] = Append(@, queued + 1)]
        BY <1>0, <2>1, Zenon
      <3>3. [r \in TheRing |-> queued][1] = queued
        BY <1>0, Zenon
      <3>. QED BY <2>1, <3>1, <3>2, <3>3, Zenon DEF Fences!Submit, p, Numbers
    <2>. QED BY <1>0, <2>2, Zenon DEF Fences!Next
  <1>3. CASE FiniJoin
    <2>1. pending_fences' = <<>> /\ queued' = queued /\ retired' = retired
      BY <1>3, StepJoin, Zenon
    <2>2. [i \in DOMAIN pending_fences |-> pending_fences[i].nr]' = <<>>
      BY <2>1
    <2>3. Fences!Destroy
      BY <2>1, <2>2, Zenon DEF Fences!Destroy
    <2>. QED BY <2>3, Zenon DEF Fences!Next
  <1>4. CASE ThreadRelock /\ ~Quiet
    <2>1. /\ queued' = queued /\ 1 \in DOMAIN p /\ retired' = p[1]
          /\ p' = SubSeq(p, 2, Len(p))
      BY <1>4, StepRelock, Zenon
    <2>2. Fences!Retire(1)
      <3> HIDE DEF p
      <3>1. [r \in TheRing |-> retired'] = [[r \in TheRing |-> retired] EXCEPT ![1] = p[1]]
        BY <1>0, <2>1, Zenon
      <3>2. [r \in TheRing |-> p'] =
                [[r \in TheRing |-> p] EXCEPT ![1] = SubSeq(@, 1 + 1, Len(@))]
        <4>1. SubSeq(p, 1 + 1, Len(p)) = p'
          BY <2>1
        <4> DEFINE t == SubSeq(p, 1 + 1, Len(p))
        <4>2. [r \in TheRing |-> t] = [[r \in TheRing |-> p] EXCEPT ![1] = t]
          BY <1>0, Zenon
        <4>3. [[r \in TheRing |-> p] EXCEPT ![1] = SubSeq(@, 1 + 1, Len(@))]
                  = [[r \in TheRing |-> p] EXCEPT ![1] = t]
          BY <1>0, Zenon
        <4>. QED BY <4>1, <4>2, <4>3, Zenon
      <3>3. [r \in TheRing |-> p][1] = p
        BY <1>0, Zenon
      <3>. QED BY <2>1, <3>1, <3>2, <3>3, Zenon DEF Fences!Retire, p, Numbers
    <2>. QED BY <1>0, <2>2, Zenon DEF Fences!Next
  <1>. QED BY <1>1, <1>2, <1>3, <1>4, StepSubmit, StepGpu, StepNow, StepFails, StepStop, StepThread,
              Zenon
           DEF Next, SyncThread, Done

\* The fences put on a timeline retire in the order of their submission, each
\* at most once, and those pending when drm_timeline_fini joins the thread are
\* dropped: the timeline implements FenceTimeline for any number of fences.
THEOREM TimelineInOrder == Spec => QueuedInOrder
  <1>1. Init => Fences!Init
    BY DEF Init, Fences!Init
  <1>. QED BY <1>1, Refines, Always, PTL DEF Spec, QueuedInOrder, Fences!Spec

=============================================================================
