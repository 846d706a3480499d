------------------------ MODULE ProxyTimeline_proofs ------------------------
(***************************************************************************)
(* The fences of a proxy context, for any number of rings, any modulus of  *)
(* the seqnos, any stall limit and any number of fences: no pending fence  *)
(* leaves the busy mask, the lists implement FenceTimeline, and while the  *)
(* worker lives only what it has finished retires.                         *)
(***************************************************************************)
EXTENDS ProxyTimeline, TLAPS

-----------------------------------------------------------------------------
(***************************************************************************)
(* What every context whose fences implement FenceTimeline promises: the   *)
(* fences of a ring retire in the order they were submitted, each at most  *)
(* once.  Nothing here depends on what newest is in ProxyTimeline.         *)
(***************************************************************************)

\* The fences of a ring: n the newest, p those pending, t the one retired last.
RingInOrder(n, p, t) ==
    /\ \A i, j \in DOMAIN p : i < j => p[i] < p[j]
    /\ \A i \in DOMAIN p : t < p[i] /\ p[i] <= n
    /\ t <= n

FencesInv == Fences!TypeOK /\ Fences!InOrder

LEMMA InOrderByRing == Fences!InOrder <=> \A r \in Rings : RingInOrder(newest[r], fences[r], retired[r])
  <1>. QED BY Zenon DEF Fences!InOrder, RingInOrder

LEMMA InOrderByRingNext ==
    Fences!InOrder' <=> \A r \in Rings : RingInOrder(newest'[r], fences'[r], retired'[r])
  <1>. QED BY Zenon DEF Fences!InOrder, RingInOrder

\* Appending the next number keeps a ring in order.
LEMMA AppendInOrder ==
    ASSUME NEW n \in Nat, NEW p \in Seq(Nat), NEW t \in Nat, RingInOrder(n, p, t)
    PROVE  RingInOrder(n + 1, Append(p, n + 1), t) /\ Append(p, n + 1) \in Seq(Nat)
  <1>1. /\ DOMAIN p = 1 .. Len(p) /\ Len(p) \in Nat
        /\ DOMAIN Append(p, n + 1) = 1 .. Len(p) + 1
    OBVIOUS
  <1>2. /\ \A i \in 1 .. Len(p) : Append(p, n + 1)[i] = p[i] /\ p[i] \in Nat
        /\ Append(p, n + 1)[Len(p) + 1] = n + 1
    OBVIOUS
  <1>. QED BY <1>1, <1>2 DEF RingInOrder

LEMMA SuffixAt ==
    ASSUME NEW p \in Seq(Nat), NEW m \in 1 .. Len(p) + 1
    PROVE  \A i \in 1 .. (Len(p) - m) + 1 : SubSeq(p, m, Len(p))[i] = p[(m + i) - 1]
  <1>1. m \in Int /\ Len(p) \in Int
    OBVIOUS
  <1>2. \A i \in m .. Len(p) : p[i] \in Nat
    BY <1>1
  <1>. QED BY <1>1, <1>2

\* Retiring a prefix up to k keeps a ring in order.
LEMMA RetireInOrder ==
    ASSUME NEW n \in Nat, NEW p \in Seq(Nat), NEW t \in Nat, RingInOrder(n, p, t),
           NEW k \in DOMAIN p
    PROVE  /\ RingInOrder(n, SubSeq(p, k + 1, Len(p)), p[k])
           /\ SubSeq(p, k + 1, Len(p)) \in Seq(Nat)
           /\ p[k] \in Nat /\ p[k] > t
  <1>1. DOMAIN p = 1 .. Len(p) /\ Len(p) \in Nat /\ p[k] \in Nat
    OBVIOUS
  <1> DEFINE q == SubSeq(p, k + 1, Len(p))
  <1>2. DOMAIN q = 1 .. Len(p) - k /\ q \in Seq(Nat)
    BY <1>1
  <1>3. \A i \in 1 .. Len(p) - k : k + i \in 1 .. Len(p) /\ p[k + i] \in Nat
    BY <1>1
  <1>3a. \A i \in 1 .. Len(p) - k : q[i] = p[k + i]
    <2>1. k \in Int /\ k + 1 \in 1 .. Len(p) + 1 /\ (Len(p) - (k + 1)) + 1 = Len(p) - k
      BY <1>1
    <2>2. \A i \in 1 .. Len(p) - k : q[i] = p[((k + 1) + i) - 1]
      BY <2>1, SuffixAt, Zenon
    <2>3. \A i \in 1 .. Len(p) - k : ((k + 1) + i) - 1 = k + i
      BY <1>1
    <2> HIDE DEF q
    <2>. QED BY <2>2, <2>3, Zenon
  <1> HIDE DEF q
  <1>4. /\ p[k] > t /\ p[k] <= n
        /\ \A i \in 1 .. Len(p) - k : p[k] < p[k + i] /\ p[k + i] <= n
        /\ \A i, j \in 1 .. Len(p) - k : i < j => p[k + i] < p[k + j]
    <2>1. \A i \in 1 .. Len(p) - k : k < k + i
      BY <1>1
    <2>2. \A i, j \in 1 .. Len(p) - k : i < j => k + i < k + j
      BY <1>1
    <2>. QED BY <1>1, <1>3, <2>1, <2>2, Zenon DEF RingInOrder
  <1>5. RingInOrder(n, q, p[k])
    BY <1>2, <1>3a, <1>4, Zenon DEF RingInOrder
  <1>. QED BY <1>1, <1>2, <1>4, <1>5, Zenon DEF q

\* Dropping the last fence keeps a ring in order.
LEMMA WithdrawInOrder ==
    ASSUME NEW n \in Nat, NEW p \in Seq(Nat), NEW t \in Nat, RingInOrder(n, p, t), p # <<>>
    PROVE  /\ RingInOrder(n, SubSeq(p, 1, Len(p) - 1), t)
           /\ SubSeq(p, 1, Len(p) - 1) \in Seq(Nat)
  <1>1. DOMAIN p = 1 .. Len(p) /\ Len(p) \in Nat \ {0}
    OBVIOUS
  <1> DEFINE q == SubSeq(p, 1, Len(p) - 1)
  <1>2. DOMAIN q = 1 .. Len(p) - 1 /\ q \in Seq(Nat)
    BY <1>1
  <1>3. \A i \in 1 .. Len(p) - 1 : q[i] = p[i] /\ i \in DOMAIN p
    BY <1>1
  <1> HIDE DEF q
  <1>4. RingInOrder(n, q, t)
    <2>1. \A i, j \in DOMAIN q : i < j => q[i] < q[j]
      <3>1. \A i, j \in DOMAIN p : i < j => p[i] < p[j]
        BY Zenon DEF RingInOrder
      <3>2. \A i \in DOMAIN q : i \in DOMAIN p /\ q[i] = p[i]
        BY <1>2, <1>3, Zenon
      <3>. QED BY <3>1, <3>2, Zenon
    <2>2. \A i \in DOMAIN q : t < q[i] /\ q[i] <= n
      BY <1>2, <1>3, Zenon DEF RingInOrder
    <2>. QED BY <2>1, <2>2, Zenon DEF RingInOrder
  <1>. QED BY <1>2, <1>4, Zenon DEF q

\* Each operation keeps the order of every ring and retires forwards.
LEMMA FencesStep ==
    FencesInv /\ [Fences!Next]_(Fences!vars) => FencesInv' /\ (\A r \in Rings : retired'[r] >= retired[r])
  <1> SUFFICES ASSUME FencesInv, [Fences!Next]_(Fences!vars)
               PROVE  FencesInv' /\ \A r \in Rings : retired'[r] >= retired[r]
    OBVIOUS
  <1> USE DEF FencesInv
  <1>0. \A r \in Rings : /\ newest[r] \in Nat /\ fences[r] \in Seq(Nat) /\ retired[r] \in Nat
                         /\ RingInOrder(newest[r], fences[r], retired[r])
    BY InOrderByRing, Zenon DEF Fences!TypeOK
  <1>1. ASSUME NEW r \in Rings, Fences!Submit(r)
        PROVE  FencesInv' /\ \A q \in Rings : retired'[q] >= retired[q]
    <2>1. /\ RingInOrder(newest[r] + 1, Append(fences[r], newest[r] + 1), retired[r])
          /\ Append(fences[r], newest[r] + 1) \in Seq(Nat)
      BY <1>0, AppendInOrder, Zenon
    <2>2. Fences!TypeOK'
      BY <1>1, <1>0, <2>1 DEF Fences!Submit, Fences!TypeOK
    <2>3. \A q \in Rings : RingInOrder(newest'[q], fences'[q], retired'[q])
      BY <1>0, <1>1, <2>1, Zenon DEF Fences!Submit, Fences!TypeOK
    <2>. QED BY <1>0, <1>1, <2>2, <2>3, InOrderByRingNext DEF Fences!Submit
  <1>2. ASSUME NEW r \in Rings, Fences!SubmitSignaled(r)
        PROVE  FencesInv' /\ \A q \in Rings : retired'[q] >= retired[q]
    <2>1. Fences!TypeOK'
      BY <1>2, <1>0 DEF Fences!SubmitSignaled, Fences!TypeOK
    <2>2. RingInOrder(newest[r] + 1, <<>>, newest[r] + 1)
      BY <1>0 DEF RingInOrder
    <2>3. \A q \in Rings : RingInOrder(newest'[q], fences'[q], retired'[q])
      BY <1>0, <1>2, <2>2, Zenon DEF Fences!SubmitSignaled, Fences!TypeOK
    <2>4. retired[r] <= newest[r]
      BY <1>0, Zenon DEF RingInOrder
    <2>5. \A q \in Rings : retired'[q] >= retired[q]
      BY <1>0, <1>2, <2>4 DEF Fences!SubmitSignaled, Fences!TypeOK
    <2>. QED BY <2>1, <2>3, <2>5, InOrderByRingNext, Zenon
  <1>3. ASSUME NEW r \in Rings, Fences!Retire(r)
        PROVE  FencesInv' /\ \A q \in Rings : retired'[q] >= retired[q]
    <2>1. PICK k \in DOMAIN fences[r] :
              /\ retired' = [retired EXCEPT ![r] = fences[r][k]]
              /\ fences' = [fences EXCEPT ![r] = SubSeq(fences[r], k + 1, Len(fences[r]))]
              /\ UNCHANGED newest
      BY <1>3, Zenon DEF Fences!Retire
    <2>2. /\ RingInOrder(newest[r], SubSeq(fences[r], k + 1, Len(fences[r])), fences[r][k])
          /\ SubSeq(fences[r], k + 1, Len(fences[r])) \in Seq(Nat)
          /\ fences[r][k] \in Nat /\ fences[r][k] > retired[r]
      BY <1>0, RetireInOrder, Zenon
    <2>3. Fences!TypeOK'
      BY <2>1, <2>2, Zenon DEF Fences!TypeOK
    <2>4. \A q \in Rings : RingInOrder(newest'[q], fences'[q], retired'[q])
      BY <1>0, <2>1, <2>2, Zenon DEF Fences!TypeOK
    <2>5. \A q \in Rings : retired'[q] >= retired[q]
      BY <1>0, <2>1, <2>2, SMTT(30) DEF Fences!TypeOK
    <2>. QED BY <2>3, <2>4, <2>5, InOrderByRingNext, Zenon
  <1>4. ASSUME NEW r \in Rings, Fences!Withdraw(r)
        PROVE  FencesInv' /\ \A q \in Rings : retired'[q] >= retired[q]
    <2>1. /\ RingInOrder(newest[r], SubSeq(fences[r], 1, Len(fences[r]) - 1), retired[r])
          /\ SubSeq(fences[r], 1, Len(fences[r]) - 1) \in Seq(Nat)
      BY <1>0, <1>4, WithdrawInOrder, Zenon DEF Fences!Withdraw
    <2>2. Fences!TypeOK'
      BY <1>4, <2>1, Zenon DEF Fences!Withdraw, Fences!TypeOK
    <2>3. \A q \in Rings : RingInOrder(newest'[q], fences'[q], retired'[q])
      BY <1>0, <1>4, <2>1, Zenon DEF Fences!Withdraw, Fences!TypeOK
    <2>. QED BY <1>0, <1>4, <2>2, <2>3, InOrderByRingNext DEF Fences!Withdraw
  <1>5. CASE Fences!Destroy
    <2>1. Fences!TypeOK'
      BY <1>5 DEF Fences!Destroy, Fences!TypeOK
    <2>2. \A q \in Rings : RingInOrder(newest'[q], fences'[q], retired'[q])
      BY <1>0, <1>5 DEF Fences!Destroy, RingInOrder
    <2>. QED BY <1>0, <1>5, <2>1, <2>2, InOrderByRingNext DEF Fences!Destroy
  <1>6. CASE UNCHANGED Fences!vars
    BY <1>0, <1>6 DEF Fences!vars, Fences!TypeOK, Fences!InOrder
  <1>. QED BY <1>1, <1>2, <1>3, <1>4, <1>5, <1>6, Zenon DEF Fences!Next

LEMMA InitInOrder == Fences!Init => FencesInv
  <1>. QED BY DEF Fences!Init, FencesInv, Fences!TypeOK, Fences!InOrder

\* The pending fences of a ring are in submission order, none of them retired
\* before, whatever was withdrawn or dropped (submit_fence and fence_retire of
\* struct virgl_context).
THEOREM PendingInOrder == Fences!Spec => []Fences!InOrder
  <1>1. FencesInv => Fences!InOrder
    BY Zenon DEF FencesInv
  <1>. QED BY InitInOrder, FencesStep, <1>1, PTL DEF Fences!Spec

\* fence_retire never goes back: no fence of a ring retires after a later one.
THEOREM RetirementInOrder == Fences!Spec => Fences!RetiresInOrder
  <1>. QED BY InitInOrder, FencesStep, PTL DEF Fences!Spec, Fences!RetiresInOrder

-----------------------------------------------------------------------------
(***************************************************************************)
(* The inductive invariant                                                 *)
(***************************************************************************)

\* A scan works on rings of the mask only, so the mask covers what is pending
\* also while proxy_context_submit_fence reads it without the lock.
ScanInMask == tpc = "scan" => todo \cup new_mask \subseteq busy_mask

\* Between its allocation and the end of proxy_context_submit_fence, the
\* fence submitted is the newest of its ring.
InFlight ==
    /\ \A r \in Rings : next_seqno[r] >= 1
    /\ spc \in {"add", "send", "recover"} =>
           next_seqno[sring] >= 2 /\ sfence = next_seqno[sring] - 1

\* old_busy_mask covers every fence that is pending, but the one in flight.
MaskKept ==
    /\ spc = "add" => \A r \in Rings : fences[r] # <<>> => r \in smask
    /\ spc \in {"send", "recover"} =>
           \A r \in Rings : r \notin smask =>
               /\ r # sring => fences[r] = <<>>
               /\ \A i \in DOMAIN fences[r] : fences[r][i] = sfence

MaskInv == BusyConsistent /\ ScanInMask /\ InFlight /\ MaskKept

Inv == MaskInv /\ FencesInv

\* The fences of ring r the worker has got from its socket and not finished
Accepted(r) == {accepted[r][i] : i \in DOMAIN accepted[r]}

\* The fences of ring r that are in the socket
Requested(r) == {requests[i].fence : i \in {j \in DOMAIN requests : requests[j].ring = r}}

\* The worker has finished the fences of ring r up to l: the seqno it shows is
\* l's, and what it has yet to finish comes to it in order and after l.
FinishedUpTo(r, l) ==
    /\ timeline_seqnos[r] = l % M
    /\ retired[r] <= l /\ l <= newest[r]
    /\ \A f \in Accepted(r) \cup Requested(r) : l < f /\ f <= newest[r]
    /\ \A i, j \in DOMAIN accepted[r] : i < j => accepted[r][i] < accepted[r][j]
    /\ \A f \in Accepted(r), g \in Requested(r) : f < g
    /\ \A i, j \in DOMAIN requests :
           i < j /\ requests[i].ring = r /\ requests[j].ring = r =>
               requests[i].fence < requests[j].fence
    /\ spc = "send" /\ sring = r =>
           l < sfence /\ \A f \in Accepted(r) \cup Requested(r) : f < sfence

\* The list of ring r holds every fence since the one retired last, and there
\* is room on it for one that is being submitted.
Contiguous(r) ==
    /\ \A i \in DOMAIN fences[r] : fences[r][i] = retired[r] + i
    /\ retired[r] + Len(fences[r]) = newest[r]
    /\ Len(fences[r]) <= MaxPending
    /\ spc = "add" /\ sring = r => Len(fences[r]) < MaxPending

WorkerInv ==
    /\ spc = "recover" => ~alive
    /\ spc = "gone" => tpc = "exit"
    /\ alive /\ spc # "gone" =>
           \A r \in Rings : Contiguous(r) /\ \E l \in Nat : FinishedUpTo(r, l)

-----------------------------------------------------------------------------
(***************************************************************************)
(* Lists                                                                   *)
(***************************************************************************)

\* What is left of a list when its first n entries retire
Rest(p, n) == SubSeq(p, n + 1, Len(p))

\* It is the list without them, and is empty when all of them do.
LEMMA SuffixOf ==
    ASSUME NEW p \in Seq(Nat), NEW n \in 0 .. Len(p)
    PROVE  /\ Rest(p, n) \in Seq(Nat)
           /\ Len(Rest(p, n)) = Len(p) - n
           /\ \A i \in 1 .. Len(p) - n : Rest(p, n)[i] = p[n + i]
           /\ n = 0 => Rest(p, n) = p
           /\ (Rest(p, n) # <<>>) <=> (n < Len(p))
  <1> DEFINE q == SubSeq(p, n + 1, Len(p))
  <1>1. Len(p) \in Nat /\ n \in Nat /\ n + 1 \in 1 .. Len(p) + 1
    OBVIOUS
  <1>2. q \in Seq(Nat) /\ Len(q) = Len(p) - n
    BY <1>1
  <1>3. \A i \in 1 .. Len(p) - n : q[i] = p[n + i]
    <2>1. \A i \in 1 .. (Len(p) - (n + 1)) + 1 : q[i] = p[((n + 1) + i) - 1]
      BY <1>1, SuffixAt, Zenon
    <2>2. /\ (Len(p) - (n + 1)) + 1 = Len(p) - n
          /\ \A i \in 1 .. Len(p) - n : ((n + 1) + i) - 1 = n + i
      BY <1>1
    <2> HIDE DEF q
    <2>. QED BY <2>1, <2>2, Zenon
  <1> HIDE DEF q
  <1>4. n = 0 => q = p
    <2>1. n = 0 => Len(q) = Len(p) /\ \A i \in 1 .. Len(p) : q[i] = p[i]
      BY <1>1, <1>2, <1>3
    <2>. QED BY <2>1, <1>2
  <1>5. (q # <<>>) <=> (n < Len(p))
    BY <1>1, <1>2
  <1>. QED BY <1>2, <1>3, <1>4, <1>5, Zenon DEF q, Rest

\* list_del of the newest fence of a list drops its last entry, or finds that
\* the fence was retired.
LEMMA ListDelNewest ==
    ASSUME NEW p \in Seq(Nat), NEW f \in Nat,
           \A i, j \in DOMAIN p : i < j => p[i] < p[j],
           \A i \in DOMAIN p : p[i] <= f
    PROVE  \/ p # <<>> /\ p[Len(p)] = f /\ ListDel(p, f) = SubSeq(p, 1, Len(p) - 1)
           \/ ListDel(p, f) = p /\ \A i \in DOMAIN p : p[i] # f
  <1>1. DOMAIN p = 1 .. Len(p) /\ Len(p) \in Nat /\ \A i \in DOMAIN p : p[i] \in Nat
    OBVIOUS
  <1>2. CASE \E i \in DOMAIN p : p[i] = f
    <2> DEFINE k == CHOOSE i \in DOMAIN p : p[i] = f
    <2>1. k \in DOMAIN p /\ p[k] = f
      BY <1>2, Zenon
    <2>2. ListDel(p, f) = SubSeq(p, 1, k - 1) \o SubSeq(p, k + 1, Len(p))
      BY <1>2, Zenon DEF ListDel
    <2> HIDE DEF k
    <2>3. k = Len(p) /\ p # <<>>
      <3>1. Len(p) \in DOMAIN p
        BY <1>1, <2>1
      <3>. QED BY <1>1, <2>1, <3>1, SMTT(30)
    <2>4. SubSeq(p, k + 1, Len(p)) = <<>>
      BY <2>3, <1>1
    <2>5. SubSeq(p, 1, Len(p) - 1) \in Seq(Nat)
      BY <1>1, <2>3
    <2>. QED BY <2>1, <2>2, <2>3, <2>4, <2>5
  <1>3. CASE ~ \E i \in DOMAIN p : p[i] = f
    BY <1>3, Zenon DEF ListDel
  <1>. QED BY <1>2, <1>3, Zenon

-----------------------------------------------------------------------------
(***************************************************************************)
(* Every step is a step of FenceTimeline or leaves it alone.               *)
(***************************************************************************)

\* The variables FenceTimeline is about are unchanged.
Untouched == newest' = newest /\ UNCHANGED <<fences, retired>>

\* What one ring's look at its seqno does to its list
LEMMA RetireTimelineCases ==
    ASSUME NEW r \in Rings, TypeOK, RetireTimeline(r)
    PROVE  \/ Stalled(r) /\ UNCHANGED <<cur_seqno, fences, retired>>
              /\ new_mask' = new_mask \cup {r}
              /\ stall_count' = [stall_count EXCEPT ![r] = IF @ < StallLimit THEN @ + 1 ELSE @]
           \/ \E n \in 0 .. Len(fences[r]) :
                  /\ RetireFences(r, n)
                  /\ alive => SignaledPrefix(fences[r], timeline_seqnos[r], n)
  <1>1. fences[r] \in Seq(Nat) /\ Len(fences[r]) \in 0 .. Len(fences[r])
    BY DEF TypeOK
  <1>2. ForceRetire(r) => ~alive
    BY Zenon DEF ForceRetire
  <1>. QED BY <1>1, <1>2, Zenon DEF RetireTimeline

LEMMA RetireFencesRefines ==
    ASSUME Inv, NEW r \in Rings, NEW n \in 0 .. Len(fences[r]), RetireFences(r, n),
           newest' = newest
    PROVE  Fences!Retire(r) \/ Untouched
  <1>1. fences \in [Rings -> Seq(Nat)] /\ fences[r] \in Seq(Nat)
    BY Zenon DEF Inv, MaskInv, BusyConsistent, TypeOK
  <1>2. CASE n = 0
    <2>1. Rest(fences[r], n) = fences[r]
      BY <1>1, <1>2, SuffixOf, Zenon
    <2>. QED BY <1>1, <1>2, <2>1, Zenon DEF RetireFences, Untouched, Rest
  <1>3. CASE n # 0
    <2>1. n \in DOMAIN fences[r]
      BY <1>1, <1>3
    <2>. QED BY <2>1, <1>3, Zenon DEF RetireFences, Fences!Retire
  <1>. QED BY <1>2, <1>3, Zenon

\* What the invariant says of the list the submission in flight is about
LEMMA InFlightIsNewest ==
    ASSUME Inv, spc \in {"send", "recover"}
    PROVE  /\ sring \in Rings /\ fences[sring] \in Seq(Nat) /\ sfence \in Nat
           /\ sfence = newest[sring]
           /\ \A i, j \in DOMAIN fences[sring] : i < j => fences[sring][i] < fences[sring][j]
           /\ \A i \in DOMAIN fences[sring] : fences[sring][i] <= sfence
  <1>1. sring \in Rings /\ fences[sring] \in Seq(Nat) /\ sfence \in Nat
    BY Zenon DEF Inv, MaskInv, BusyConsistent, TypeOK
  <1>2. sfence = newest[sring]
    BY <1>1, Zenon DEF Inv, MaskInv, InFlight, newest
  <1>3. Fences!InOrder
    BY Zenon DEF Inv, FencesInv
  <1>. QED BY <1>1, <1>2, <1>3, Zenon DEF Fences!InOrder

LEMMA SubmitRecoverRefines ==
    ASSUME Inv, SubmitRecover
    PROVE  Fences!Withdraw(sring) \/ Untouched
  <1>1. /\ sring \in Rings /\ fences[sring] \in Seq(Nat) /\ sfence \in Nat
        /\ sfence = newest[sring]
        /\ \A i, j \in DOMAIN fences[sring] : i < j => fences[sring][i] < fences[sring][j]
        /\ \A i \in DOMAIN fences[sring] : fences[sring][i] <= sfence
    BY InFlightIsNewest, Zenon DEF SubmitRecover
  <1>2. newest' = newest /\ UNCHANGED retired
    BY Zenon DEF SubmitRecover, newest
  <1>3. fences' = [fences EXCEPT ![sring] = ListDel(fences[sring], sfence)]
    BY Zenon DEF SubmitRecover
  <1>4. fences \in [Rings -> Seq(Nat)]
    BY Zenon DEF Inv, MaskInv, BusyConsistent, TypeOK
  <1>5. \/ /\ fences[sring] # <<>> /\ fences[sring][Len(fences[sring])] = sfence
           /\ ListDel(fences[sring], sfence) = SubSeq(fences[sring], 1, Len(fences[sring]) - 1)
        \/ ListDel(fences[sring], sfence) = fences[sring]
    BY <1>1, ListDelNewest, Zenon
  <1>. QED BY <1>1, <1>2, <1>3, <1>4, <1>5, Zenon DEF Fences!Withdraw, Untouched

\* The mapped step
LEMMA StepRefines ==
    ASSUME Inv, [Next]_vars
    PROVE  [Fences!Next]_(Fences!vars)
  <1>0. TypeOK /\ InFlight
    BY Zenon DEF Inv, MaskInv, BusyConsistent
  <1>1. ASSUME Untouched PROVE [Fences!Next]_(Fences!vars)
    BY <1>1, Zenon DEF Untouched, Fences!vars
  <1>2. CASE SubmitAdd
    <2>1. /\ sring \in Rings /\ next_seqno \in [Rings -> Nat] /\ next_seqno[sring] >= 2
          /\ sfence = next_seqno[sring] - 1 /\ spc = "add" /\ spc' = "send"
          /\ UNCHANGED <<next_seqno, sring, retired>>
          /\ fences' = [fences EXCEPT ![sring] = Append(fences[sring], sfence)]
      BY <1>0, <1>2, Zenon DEF SubmitAdd, TypeOK, InFlight, told
    <2>2. newest[sring] + 1 = sfence
      BY <2>1 DEF newest
    <2>3. newest' = [newest EXCEPT ![sring] = newest[sring] + 1]
      <3>1. newest'[sring] = newest[sring] + 1
        BY <2>1 DEF newest
      <3>2. \A q \in Rings : q # sring => newest'[q] = newest[q]
        BY <2>1, Zenon DEF newest
      <3>3. DOMAIN newest = Rings /\ newest' = [q \in Rings |-> newest'[q]]
        BY <2>1, Zenon DEF newest
      <3>4. newest = [q \in Rings |-> newest[q]]
        BY Zenon DEF newest
      <3> HIDE DEF newest
      <3>. QED BY <2>1, <3>1, <3>2, <3>3, <3>4, Zenon
    <2>4. Fences!Submit(sring)
      BY <2>1, <2>2, <2>3, Zenon DEF Fences!Submit
    <2>. QED BY <2>1, <2>4, Zenon DEF Fences!Next
  <1>3. CASE SubmitRecover
    <2>1. sring \in Rings
      BY <1>0, Zenon DEF TypeOK
    <2>. QED BY <1>1, <1>3, <2>1, SubmitRecoverRefines, Zenon DEF Fences!Next
  <1>4. CASE SyncScan
    <2>1. PICK r \in todo : RetireTimeline(r)
      BY <1>4, Zenon DEF SyncScan
    <2>2. r \in Rings /\ newest' = newest
      BY <1>0, <1>4, Zenon DEF SyncScan, TypeOK, submit, newest
    <2>3. CASE UNCHANGED <<fences, retired>>
      BY <1>1, <2>2, <2>3, Zenon DEF Untouched
    <2>4. ASSUME NEW n \in 0 .. Len(fences[r]), RetireFences(r, n)
          PROVE  [Fences!Next]_(Fences!vars)
      BY <1>1, <2>2, <2>4, RetireFencesRefines, Zenon DEF Fences!Next
    <2>. QED BY <1>0, <2>1, <2>2, <2>3, <2>4, RetireTimelineCases, Zenon
  <1>5. CASE DestroyJoin
    <2>1. newest' = newest
      BY <1>5, Zenon DEF DestroyJoin, newest
    <2>2. Fences!Destroy
      BY <1>5, <2>1, Zenon DEF DestroyJoin, Fences!Destroy, told
    <2>. QED BY <2>2, Zenon DEF Fences!Next
  <1>6. ASSUME NEW r \in Rings, SubmitFence(r) PROVE [Fences!Next]_(Fences!vars)
    <2>1. /\ spc = "idle" /\ spc' = "add" /\ sring' = r
          /\ next_seqno' = [next_seqno EXCEPT ![r] = next_seqno[r] + 1]
          /\ next_seqno \in [Rings -> Nat]
          /\ UNCHANGED <<fences, retired>>
      BY <1>0, <1>6, Zenon DEF SubmitFence, TypeOK, told
    <2>2. newest' = newest
      BY <2>1 DEF newest
    <2>. QED BY <1>1, <2>1, <2>2, Zenon DEF Untouched
  <1>7. ASSUME UNCHANGED <<next_seqno, sring, fences, retired>>,
               (spc = "add") = (spc' = "add")
        PROVE  [Fences!Next]_(Fences!vars)
    BY <1>1, <1>7, Zenon DEF Untouched, newest
  <1>8. CASE SubmitSend
    BY <1>7, <1>8, Zenon DEF SubmitSend, proxy, told
  <1>9. CASE DestroyWake
    BY <1>7, <1>9, Zenon DEF DestroyWake, proxy, told
  <1>10. CASE DestroyStop
    BY <1>7, <1>10, Zenon DEF DestroyStop, told
  <1>11. CASE SyncTop \/ SyncPoll \/ SyncFlush \/ SyncLock
    BY <1>7, <1>11, Zenon DEF SyncTop, SyncPoll, SyncFlush, SyncLock, proxy, submit, told
  <1>12. CASE SyncUnlock
    BY <1>7, <1>12, Zenon DEF SyncUnlock, submit, told
  <1>13. CASE Worker \/ WorkerDies
    BY <1>7, <1>13, Zenon DEF Worker, WorkerAccept, UpdateTimeline, NotifyTimeline, WorkerDies,
       proxy, submit, told
  <1>14. CASE UNCHANGED vars
    BY <1>7, <1>14, Zenon DEF vars, proxy, submit, told
  <1>. QED BY <1>2, <1>3, <1>4, <1>5, <1>6, <1>8, <1>9, <1>10, <1>11, <1>12, <1>13, <1>14, Zenon
       DEF Next, SyncThread, SubmitThread, Done

-----------------------------------------------------------------------------
(***************************************************************************)
(* The busy mask                                                           *)
(***************************************************************************)

LEMMA Constants ==
    /\ NumRings \in Nat \ {0} /\ StallLimit \in Nat \ {0} /\ M \in Nat /\ M >= 2
    /\ MaxPending \in Nat /\ 2 * (MaxPending + 1) <= M
  <1>1. M \in Nat /\ M % 2 = 0 /\ MaxPending \in Nat /\ MaxPending <= M \div 2 - 1
    BY ProxyConstants, Zenon DEF INT_MAX
  <1>2. M = 2 * (M \div 2) /\ M \div 2 \in Nat
    BY <1>1
  <1>. QED BY <1>1, <1>2, ProxyConstants

LEMMA InitMask == Init => MaskInv
  <1>1. 0 \in Rings /\ 0 \in 0 .. M - 1 /\ 0 \in 0 .. StallLimit
    BY Constants DEF Rings
  <1>2. Init => TypeOK
    BY <1>1 DEF Init, TypeOK
  <1>. QED BY <1>2 DEF Init, MaskInv, BusyConsistent, BusyCovers, ScanInMask, InFlight, MaskKept

\* Ring r keeps some of its fences, and is to be looked at again if it does.
ListShrinks(r) ==
    /\ \A q \in Rings : q # r => fences'[q] = fences[q]
    /\ \A i \in DOMAIN fences'[r] : \E j \in DOMAIN fences[r] : fences'[r][i] = fences[r][j]
    /\ fences'[r] # <<>> => fences[r] # <<>> /\ r \in new_mask'
    /\ new_mask \subseteq new_mask' /\ new_mask' \subseteq new_mask \cup {r}

\* A scan of ring r
LEMMA ScanMask ==
    ASSUME MaskInv, NEW r \in todo, RetireTimeline(r), tpc = "scan",
           todo' = todo \ {r},
           UNCHANGED <<next_seqno, busy_mask, stop, submit, tpc, shared, worker, failed>>
    PROVE  MaskInv'
  <1>0. TypeOK /\ BusyCovers /\ ScanInMask /\ InFlight /\ MaskKept /\ r \in Rings
    BY Zenon DEF MaskInv, BusyConsistent, TypeOK
  <1>1. UNCHANGED <<next_seqno, busy_mask, stop, spc, sring, sfence, smask, tpc,
                    timeline_seqnos, eventfd, alive, requests, accepted, to_notify, failed>>
    BY Zenon DEF submit, shared, worker
  <1>2. fences[r] \in Seq(Nat) /\ fences \in [Rings -> Seq(Nat)] /\ retired \in [Rings -> Nat]
    BY <1>0, Zenon DEF TypeOK
  <1>3. /\ fences' \in [Rings -> Seq(Nat)]
        /\ retired' \in [Rings -> Nat]
        /\ cur_seqno' \in [Rings -> 0 .. M - 1]
        /\ stall_count' \in [Rings -> 0 .. StallLimit]
        /\ ListShrinks(r)
    <2>1. CASE /\ Stalled(r) /\ UNCHANGED <<cur_seqno, fences, retired>>
               /\ new_mask' = new_mask \cup {r}
               /\ stall_count' = [stall_count EXCEPT ![r] = IF @ < StallLimit THEN @ + 1 ELSE @]
      <3>1. stall_count' \in [Rings -> 0 .. StallLimit]
        <4>1. /\ stall_count \in [Rings -> 0 .. StallLimit]
              /\ (IF stall_count[r] < StallLimit THEN stall_count[r] + 1 ELSE stall_count[r])
                    \in 0 .. StallLimit
          <5>1. stall_count \in [Rings -> 0 .. StallLimit] /\ stall_count[r] \in 0 .. StallLimit
            BY <1>0, Zenon DEF TypeOK
          <5>. QED BY <5>1, Constants
        <4>. QED BY <2>1, <4>1, Zenon
      <3>. QED BY <1>0, <1>2, <2>1, <3>1, Zenon DEF TypeOK, ListShrinks, Stalled
    <2>2. ASSUME NEW n \in 0 .. Len(fences[r]), RetireFences(r, n)
          PROVE  /\ fences' \in [Rings -> Seq(Nat)]
                 /\ retired' \in [Rings -> Nat]
                 /\ cur_seqno' \in [Rings -> 0 .. M - 1]
                 /\ stall_count' \in [Rings -> 0 .. StallLimit]
                 /\ ListShrinks(r)
      <3> DEFINE q == Rest(fences[r], n)
      <3>1. /\ q \in Seq(Nat) /\ Len(q) = Len(fences[r]) - n
            /\ \A i \in 1 .. Len(fences[r]) - n : q[i] = fences[r][n + i]
            /\ n = 0 => q = fences[r]
            /\ (q # <<>>) <=> (n < Len(fences[r]))
        BY <1>2, SuffixOf, Zenon
      <3>2. fences' = [fences EXCEPT ![r] = q] /\ fences'[r] = q
        BY <1>0, <1>2, <2>2, Zenon DEF RetireFences, Rest
      <3> HIDE DEF q
      <3>3. fences' \in [Rings -> Seq(Nat)] /\ \A p \in Rings : p # r => fences'[p] = fences[p]
        BY <1>2, <3>1, <3>2, Zenon
      <3>4. retired' \in [Rings -> Nat]
        BY <1>0, <1>2, <2>2 DEF RetireFences
      <3>5. /\ cur_seqno' \in [Rings -> 0 .. M - 1]
            /\ stall_count' \in [Rings -> 0 .. StallLimit]
        <4>1. 0 \in 0 .. StallLimit
          BY Constants
        <4>2. /\ cur_seqno \in [Rings -> 0 .. M - 1] /\ timeline_seqnos[r] \in 0 .. M - 1
              /\ stall_count \in [Rings -> 0 .. StallLimit]
          BY <1>0, Zenon DEF TypeOK
        <4>. QED BY <2>2, <4>1, <4>2, Zenon DEF RetireFences
      <3>6. \A i \in DOMAIN fences'[r] : \E j \in DOMAIN fences[r] : fences'[r][i] = fences[r][j]
        <4>1. \A i \in 1 .. Len(fences[r]) - n : n + i \in DOMAIN fences[r]
          BY <1>2
        <4>2. DOMAIN q = 1 .. Len(fences[r]) - n
          BY <3>1
        <4>3. \A i \in DOMAIN q : n + i \in DOMAIN fences[r] /\ q[i] = fences[r][n + i]
          BY <3>1, <4>1, <4>2, Zenon
        <4>. QED BY <3>2, <4>3, Zenon
      <3>7. /\ fences'[r] # <<>> => fences[r] # <<>> /\ r \in new_mask'
            /\ new_mask \subseteq new_mask' /\ new_mask' \subseteq new_mask \cup {r}
        BY <1>2, <2>2, <3>1, <3>2 DEF RetireFences
      <3>. QED BY <3>3, <3>4, <3>5, <3>6, <3>7, Zenon DEF ListShrinks
    <2>. QED BY <1>0, <2>1, <2>2, RetireTimelineCases, Zenon
  <1>4. TypeOK'
    <2>1. todo' \subseteq Rings /\ new_mask' \subseteq Rings
      BY <1>0, <1>3, Zenon DEF TypeOK, ListShrinks
    <2>. QED BY <1>0, <1>1, <1>3, <2>1, Zenon DEF TypeOK
  <1>5. BusyCovers'
    BY <1>0, <1>1, <1>3, Zenon DEF BusyCovers, ListShrinks
  <1>6. ScanInMask' /\ InFlight'
    BY <1>0, <1>1, <1>3, Zenon DEF ScanInMask, InFlight, ListShrinks
  <1>7. MaskKept'
    <2>1. (spc = "add" => \A q \in Rings : fences[q] # <<>> => q \in smask)'
      BY <1>0, <1>1, <1>3, Zenon DEF MaskKept, ListShrinks
    <2>2. ASSUME spc \in {"send", "recover"}, NEW q \in Rings, q \notin smask
          PROVE  /\ q # sring => fences'[q] = <<>>
                 /\ \A i \in DOMAIN fences'[q] : fences'[q][i] = sfence
      <3>1. /\ q # sring => fences[q] = <<>>
            /\ \A i \in DOMAIN fences[q] : fences[q][i] = sfence
        BY <1>0, <2>2, Zenon DEF MaskKept
      <3>2. CASE q = r
        BY <1>3, <3>1, <3>2, Zenon DEF ListShrinks
      <3>3. CASE q # r
        BY <1>3, <3>1, <3>3, Zenon DEF ListShrinks
      <3>. QED BY <3>2, <3>3, Zenon
    <2>. QED BY <1>1, <2>1, <2>2, Zenon DEF MaskKept
  <1>. QED BY <1>4, <1>5, <1>6, <1>7, Zenon DEF MaskInv, BusyConsistent

LEMMA SubmitFenceMask ==
    ASSUME MaskInv, NEW r \in Rings, SubmitFence(r)
    PROVE  MaskInv'
  <1>0. TypeOK /\ BusyCovers /\ ScanInMask /\ InFlight /\ MaskKept
    BY Zenon DEF MaskInv, BusyConsistent
  <1>1. /\ spc = "idle" /\ spc' = "add" /\ smask' = busy_mask /\ sring' = r
        /\ sfence' = next_seqno[r]
        /\ next_seqno' = [next_seqno EXCEPT ![r] = next_seqno[r] + 1]
        /\ next_seqno \in [Rings -> Nat] /\ next_seqno[r] >= 1
    BY <1>0, Zenon DEF SubmitFence, TypeOK, InFlight
  <1>2. UNCHANGED <<fences, cur_seqno, stall_count, busy_mask, stop, tpc, todo, new_mask,
                    timeline_seqnos, eventfd, alive, requests, accepted, to_notify,
                    retired, failed>>
    BY Zenon DEF SubmitFence, sync, shared, worker, told
  <1>3. TypeOK'
    <2>1. next_seqno' \in [Rings -> Nat] /\ sfence' \in Nat
      BY <1>1
    <2>. QED BY <1>0, <1>1, <1>2, <2>1, Zenon DEF TypeOK
  <1>4. BusyCovers' /\ ScanInMask'
    BY <1>0, <1>2, Zenon DEF BusyCovers, ScanInMask
  <1>5. InFlight'
    BY <1>0, <1>1 DEF InFlight
  <1>6. MaskKept'
    <2>1. \A q \in Rings : fences[q] # <<>> => q \in busy_mask
      BY <1>0, Zenon DEF BusyCovers, ScanInMask
    <2>. QED BY <1>1, <1>2, <2>1, Zenon DEF MaskKept
  <1>. QED BY <1>3, <1>4, <1>5, <1>6, Zenon DEF MaskInv, BusyConsistent

LEMMA SubmitAddMask ==
    ASSUME MaskInv, SubmitAdd
    PROVE  MaskInv'
  <1>0. TypeOK /\ BusyCovers /\ ScanInMask /\ InFlight /\ MaskKept
    BY Zenon DEF MaskInv, BusyConsistent
  <1>1. /\ spc = "add" /\ spc' = "send" /\ tpc # "scan"
        /\ fences' = [fences EXCEPT ![sring] = Append(fences[sring], sfence)]
        /\ busy_mask' = busy_mask \cup {sring}
        /\ sring \in Rings /\ sfence \in Nat /\ fences \in [Rings -> Seq(Nat)]
    BY <1>0, Zenon DEF SubmitAdd, MutexFree, TypeOK
  <1>2. UNCHANGED <<next_seqno, cur_seqno, stall_count, stop, sring, sfence, smask, tpc, todo,
                    new_mask, timeline_seqnos, eventfd, alive, requests, accepted, to_notify,
                    retired, failed>>
    BY Zenon DEF SubmitAdd, sync, shared, worker, told
  <1>3. TypeOK'
    <2>1. fences' \in [Rings -> Seq(Nat)]
      BY <1>1
    <2>. QED BY <1>0, <1>1, <1>2, <2>1, Zenon DEF TypeOK
  <1>4. BusyCovers' /\ ScanInMask'
    BY <1>0, <1>1, <1>2, Zenon DEF BusyCovers, ScanInMask
  <1>5. InFlight'
    BY <1>0, <1>1, <1>2, Zenon DEF InFlight
  <1>6. MaskKept'
    <2>1. \A q \in Rings : fences[q] # <<>> => q \in smask
      BY <1>0, <1>1, Zenon DEF MaskKept
    <2>2. ASSUME NEW q \in Rings, q \notin smask
          PROVE  /\ q # sring => fences'[q] = <<>>
                 /\ \A i \in DOMAIN fences'[q] : fences'[q][i] = sfence
      <3>1. fences[q] = <<>>
        BY <2>1, <2>2, Zenon
      <3>2. CASE q = sring
        <4>1. fences'[q] = <<sfence>>
          BY <1>1, <3>1, <3>2
        <4>. QED BY <3>2, <4>1
      <3>3. CASE q # sring
        <4>1. fences'[q] = <<>>
          BY <1>1, <3>1, <3>3, Zenon
        <4>. QED BY <4>1
      <3>. QED BY <3>2, <3>3, Zenon
    <2>. QED BY <1>1, <1>2, <2>2, Zenon DEF MaskKept
  <1>. QED BY <1>3, <1>4, <1>5, <1>6, Zenon DEF MaskInv, BusyConsistent

LEMMA SubmitRecoverMask ==
    ASSUME Inv, SubmitRecover
    PROVE  MaskInv'
  <1>0. TypeOK /\ BusyCovers /\ ScanInMask /\ InFlight /\ MaskKept
    BY Zenon DEF Inv, MaskInv, BusyConsistent
  <1>1. /\ spc = "recover" /\ spc' = "idle" /\ tpc # "scan"
        /\ fences' = [fences EXCEPT ![sring] = ListDel(fences[sring], sfence)]
        /\ busy_mask' = smask
        /\ failed' = [failed EXCEPT ![sring] = failed[sring] \cup {sfence}]
        /\ fences \in [Rings -> Seq(Nat)]
    BY <1>0, Zenon DEF SubmitRecover, MutexFree, TypeOK
  <1>2. UNCHANGED <<next_seqno, cur_seqno, stall_count, stop, sring, sfence, smask, tpc, todo,
                    new_mask, timeline_seqnos, eventfd, alive, requests, accepted, to_notify,
                    retired>>
    BY Zenon DEF SubmitRecover, sync, shared, worker
  <1>3. /\ sring \in Rings /\ fences[sring] \in Seq(Nat) /\ sfence \in Nat
        /\ \A i, j \in DOMAIN fences[sring] : i < j => fences[sring][i] < fences[sring][j]
        /\ \A i \in DOMAIN fences[sring] : fences[sring][i] <= sfence
    BY <1>1, InFlightIsNewest, Zenon
  <1>4. \/ /\ fences[sring] # <<>> /\ fences[sring][Len(fences[sring])] = sfence
           /\ ListDel(fences[sring], sfence) = SubSeq(fences[sring], 1, Len(fences[sring]) - 1)
        \/ /\ ListDel(fences[sring], sfence) = fences[sring]
           /\ \A i \in DOMAIN fences[sring] : fences[sring][i] # sfence
    BY <1>3, ListDelNewest, Zenon
  <1>5. /\ ListDel(fences[sring], sfence) \in Seq(Nat)
        /\ sring \notin smask => ListDel(fences[sring], sfence) = <<>>
    <2>1. sring \notin smask => \A i \in DOMAIN fences[sring] : fences[sring][i] = sfence
      BY <1>0, <1>1, <1>3, Zenon DEF MaskKept
    <2>2. CASE /\ fences[sring] # <<>>
               /\ ListDel(fences[sring], sfence) = SubSeq(fences[sring], 1, Len(fences[sring]) - 1)
      <3>1. Len(fences[sring]) \in Nat \ {0} /\ DOMAIN fences[sring] = 1 .. Len(fences[sring])
        BY <1>3, <2>2
      <3>2. sring \notin smask => Len(fences[sring]) = 1
        <4>1. SUFFICES ASSUME sring \notin smask, Len(fences[sring]) # 1 PROVE FALSE
          OBVIOUS
        <4>2. 1 \in DOMAIN fences[sring] /\ 2 \in DOMAIN fences[sring]
          <5>1. \A n \in Nat \ {0} : n # 1 => 1 \in 1 .. n /\ 2 \in 1 .. n
            OBVIOUS
          <5>. QED BY <3>1, <4>1, <5>1, Zenon
        <4>3. fences[sring][1] < fences[sring][2]
          BY <1>3, <4>2
        <4>. QED BY <1>3, <2>1, <4>1, <4>2, <4>3
      <3>3. SubSeq(fences[sring], 1, Len(fences[sring]) - 1) \in Seq(Nat)
        BY <1>3, <3>1
      <3>4. Len(fences[sring]) = 1 => SubSeq(fences[sring], 1, Len(fences[sring]) - 1) = <<>>
        BY <1>3, <3>1
      <3>. QED BY <2>2, <3>2, <3>3, <3>4, Zenon
    <2>3. CASE /\ ListDel(fences[sring], sfence) = fences[sring]
               /\ \A i \in DOMAIN fences[sring] : fences[sring][i] # sfence
      BY <1>3, <2>1, <2>3
    <2>. QED BY <1>4, <2>2, <2>3, Zenon
  <1>6. TypeOK'
    <2>1. fences' \in [Rings -> Seq(Nat)]
      BY <1>1, <1>3, <1>5, Zenon
    <2>2. failed' \in [Rings -> SUBSET Nat]
      BY <1>0, <1>1, <1>3, Zenon DEF TypeOK
    <2>. QED BY <1>0, <1>1, <1>2, <2>1, <2>2, Zenon DEF TypeOK
  <1>7. BusyCovers'
    <2>1. \A q \in Rings : q # sring /\ q \notin smask => fences[q] = <<>>
      BY <1>0, <1>1, Zenon DEF MaskKept
    <2>. QED BY <1>1, <1>2, <1>3, <1>5, <2>1, Zenon DEF BusyCovers
  <1>8. ScanInMask' /\ InFlight' /\ MaskKept'
    BY <1>0, <1>1, <1>2, Zenon DEF ScanInMask, InFlight, MaskKept
  <1>. QED BY <1>6, <1>7, <1>8, Zenon DEF MaskInv, BusyConsistent

\* The other steps of the two threads and of the worker
LEMMA OtherMask ==
    ASSUME MaskInv,
           \/ SubmitSend \/ DestroyWake \/ DestroyJoin \/ DestroyStop
           \/ SyncTop \/ SyncPoll \/ SyncFlush \/ SyncLock \/ SyncUnlock
           \/ Worker \/ WorkerDies \/ UNCHANGED vars
    PROVE  MaskInv'
  <1>0. TypeOK /\ BusyCovers /\ ScanInMask /\ InFlight /\ MaskKept
    BY Zenon DEF MaskInv, BusyConsistent
  <1>1. ASSUME UNCHANGED <<proxy, sync>>, TypeOK', UNCHANGED <<sring, sfence, smask>>,
               spc' = spc \/ (spc = "send" /\ spc' = "recover") \/ spc' \in {"idle", "join"}
        PROVE  MaskInv'
    BY <1>0, <1>1, Zenon DEF MaskInv, BusyConsistent, BusyCovers, ScanInMask, InFlight, MaskKept,
       proxy, sync
  <1>2. CASE SubmitSend
    <2>1. TypeOK'
      <3>1. requests' \in Seq([ring : Rings, fence : Nat])
        <4> DEFINE R == [ring : Rings, fence : Nat]
        <4>1. requests \in Seq(R) /\ [ring |-> sring, fence |-> sfence] \in R
          BY <1>0, Zenon DEF TypeOK
        <4>2. \/ requests' = Append(requests, [ring |-> sring, fence |-> sfence])
              \/ requests' = requests
          BY <1>2, Zenon DEF SubmitSend
        <4> HIDE DEF R
        <4>3. requests' \in Seq(R)
          BY <4>1, <4>2
        <4>. QED BY <4>3, Zenon DEF R
      <3>. QED BY <1>0, <1>2, <3>1, Zenon DEF SubmitSend, TypeOK, proxy, sync, worker, told
    <2>. QED BY <1>1, <1>2, <2>1, Zenon DEF SubmitSend
  <1>3. CASE DestroyWake
    <2>1. TypeOK'
      BY <1>0, <1>3, Zenon DEF DestroyWake, TypeOK, proxy, sync, worker, told
    <2>. QED BY <1>1, <1>3, <2>1, Zenon DEF DestroyWake
  <1>4. CASE DestroyJoin
    <2>1. TypeOK'
      <3>1. fences' \in [Rings -> Seq(Nat)]
        BY <1>4 DEF DestroyJoin
      <3>. QED BY <1>0, <1>4, <3>1, Zenon DEF DestroyJoin, TypeOK, sync, shared, worker, told
    <2>. QED BY <1>0, <1>4, <2>1, Zenon DEF DestroyJoin, sync, MaskInv, BusyConsistent, BusyCovers,
         ScanInMask, InFlight, MaskKept
  <1>5. CASE DestroyStop
    <2>1. TypeOK'
      BY <1>0, <1>5, Zenon DEF DestroyStop, TypeOK, sync, shared, worker, told
    <2>. QED BY <1>0, <1>5, <2>1, Zenon DEF DestroyStop, sync, MaskInv, BusyConsistent, BusyCovers,
         ScanInMask, InFlight, MaskKept
  <1>6. CASE SyncTop \/ SyncPoll \/ SyncFlush
    <2>1. TypeOK'
      BY <1>0, <1>6, Zenon DEF SyncTop, SyncPoll, SyncFlush, TypeOK, proxy, submit, shared, worker, told
    <2>2. tpc # "scan" /\ tpc' # "scan" /\ UNCHANGED <<proxy, submit>>
      BY <1>6, Zenon DEF SyncTop, SyncPoll, SyncFlush
    <2>. QED BY <1>0, <2>1, <2>2, Zenon DEF proxy, submit, MaskInv, BusyConsistent, BusyCovers,
         ScanInMask, InFlight, MaskKept
  <1>7. CASE SyncLock
    <2>1. TypeOK'
      BY <1>0, <1>7, Zenon DEF SyncLock, TypeOK, proxy, submit, shared, worker, told
    <2>. QED BY <1>0, <1>7, <2>1, Zenon DEF SyncLock, proxy, submit, MaskInv, BusyConsistent,
         BusyCovers, ScanInMask, InFlight, MaskKept
  <1>8. CASE SyncUnlock
    <2>1. TypeOK'
      BY <1>0, <1>8, Zenon DEF SyncUnlock, TypeOK, submit, shared, worker, told
    <2>. QED BY <1>0, <1>8, <2>1, Zenon DEF SyncUnlock, submit, MaskInv, BusyConsistent,
         BusyCovers, ScanInMask, InFlight, MaskKept
  <1>9. CASE WorkerAccept
    <2>1. /\ requests \in Seq([ring : Rings, fence : Nat]) /\ requests # <<>>
          /\ accepted \in [Rings -> Seq(Nat)]
      BY <1>0, <1>9, Zenon DEF WorkerAccept, TypeOK
    <2>2. requests' \in Seq([ring : Rings, fence : Nat]) /\ accepted' \in [Rings -> Seq(Nat)]
      <3>1. Head(requests) \in [ring : Rings, fence : Nat]
            /\ Tail(requests) \in Seq([ring : Rings, fence : Nat])
        <4> DEFINE R == [ring : Rings, fence : Nat]
        <4>1. requests \in Seq(R) /\ requests # <<>>
          BY <2>1, Zenon
        <4> HIDE DEF R
        <4>2. Head(requests) \in R /\ Tail(requests) \in Seq(R)
          BY <4>1
        <4>. QED BY <4>2, Zenon DEF R
      <3>. QED BY <1>9, <2>1, <3>1 DEF WorkerAccept
    <2>3. TypeOK'
      BY <1>0, <1>9, <2>2, Zenon DEF WorkerAccept, TypeOK, proxy, submit, sync, told
    <2>. QED BY <1>1, <1>9, <2>3, Zenon DEF WorkerAccept, submit
  <1>10. ASSUME NEW r \in Rings, UpdateTimeline(r) PROVE MaskInv'
    <2>1. accepted \in [Rings -> Seq(Nat)] /\ accepted[r] \in Seq(Nat) /\ accepted[r] # <<>>
      BY <1>0, <1>10, Zenon DEF UpdateTimeline, TypeOK
    <2>2. accepted' \in [Rings -> Seq(Nat)] /\ timeline_seqnos' \in [Rings -> 0 .. M - 1]
      <3>1. Head(accepted[r]) \in Nat /\ Tail(accepted[r]) \in Seq(Nat)
        BY <2>1
      <3>2. Head(accepted[r]) % M \in 0 .. M - 1
        BY <3>1, Constants
      <3>. QED BY <1>0, <1>10, <2>1, <3>1, <3>2, Zenon DEF UpdateTimeline, TypeOK
    <2>3. TypeOK'
      BY <1>0, <1>10, <2>2, Zenon DEF UpdateTimeline, TypeOK, proxy, submit, sync, told
    <2>. QED BY <1>1, <1>10, <2>3, Zenon DEF UpdateTimeline, submit
  <1>11. ASSUME NEW r \in Rings, NotifyTimeline(r) PROVE MaskInv'
    <2>1. TypeOK'
      BY <1>0, <1>11, Zenon DEF NotifyTimeline, TypeOK, proxy, submit, sync, told
    <2>. QED BY <1>1, <1>11, <2>1, Zenon DEF NotifyTimeline, submit
  <1>12. CASE WorkerDies
    <2>1. TypeOK'
      <3>1. requests' \in Seq([ring : Rings, fence : Nat]) /\ accepted' \in [Rings -> Seq(Nat)]
        BY <1>12 DEF WorkerDies
      <3>. QED BY <1>0, <1>12, <3>1, Zenon DEF WorkerDies, TypeOK, proxy, submit, sync, told
    <2>. QED BY <1>1, <1>12, <2>1, Zenon DEF WorkerDies, submit
  <1>13. CASE UNCHANGED vars
    <2>1. TypeOK'
      BY <1>0, <1>13, Zenon DEF vars, TypeOK, proxy, submit, sync, shared, worker, told
    <2>. QED BY <1>1, <1>13, <2>1, Zenon DEF vars, submit
  <1>. QED BY <1>2, <1>3, <1>4, <1>5, <1>6, <1>7, <1>8, <1>9, <1>10, <1>11, <1>12, <1>13, Zenon
       DEF Worker

LEMMA StepMask ==
    ASSUME Inv, [Next]_vars
    PROVE  MaskInv'
  <1>0. MaskInv
    BY Zenon DEF Inv
  <1>1. ASSUME SyncScan PROVE MaskInv'
    <2>1. PICK r \in todo : RetireTimeline(r) /\ todo' = todo \ {r}
      BY <1>1, Zenon DEF SyncScan
    <2>2. /\ tpc = "scan"
          /\ UNCHANGED <<next_seqno, busy_mask, stop, submit, tpc, shared, worker, failed>>
      BY <1>1, Zenon DEF SyncScan
    <2>. QED BY <1>0, <2>1, <2>2, ScanMask, Zenon
  <1>. QED BY <1>0, <1>1, SubmitFenceMask, SubmitAddMask, SubmitRecoverMask, OtherMask, Zenon
       DEF Next, SyncThread, SubmitThread, Done

LEMMA Initially == Init => Inv /\ Fences!Init
  <1>1. Init => newest = [r \in Rings |-> 0]
    BY DEF Init, newest
  <1>2. Init => Fences!Init
    BY <1>1, Zenon DEF Init, Fences!Init
  <1>3. Init => FencesInv
    BY <1>2, InitInOrder, Zenon
  <1>. QED BY <1>2, <1>3, InitMask, Zenon DEF Inv

LEMMA Step == Inv /\ [Next]_vars => Inv' /\ [Fences!Next]_(Fences!vars)
  <1> SUFFICES ASSUME Inv, [Next]_vars PROVE Inv' /\ [Fences!Next]_(Fences!vars)
    OBVIOUS
  <1>1. MaskInv'
    BY StepMask, Zenon
  <1>2. [Fences!Next]_(Fences!vars)
    BY StepRefines, Zenon
  <1>3. FencesInv'
    BY <1>2, FencesStep, Zenon DEF Inv
  <1>. QED BY <1>1, <1>2, <1>3, Zenon DEF Inv

LEMMA Always == Spec => []Inv
  <1>. QED BY Initially, Step, PTL DEF Spec

\* No pending fence leaves the busy mask, whatever the recovery of a failed
\* proxy_context_submit_fence writes back: the sync thread looks at its ring.
THEOREM MaskCoversPending == Spec => []BusyConsistent
  <1>1. Inv => BusyConsistent
    BY Zenon DEF Inv, MaskInv
  <1>. QED BY <1>1, Always, PTL

\* The proxy's lists implement the fences of struct virgl_context.
THEOREM ProxyImplementsTimeline == Spec => ImplementsFenceTimeline
  <1>. QED BY Initially, Step, Always, PTL DEF Spec, ImplementsFenceTimeline, Fences!Spec

\* The fences of a proxy context never retire after a later one of their ring
\* (proxy_context_retire_timeline_fences_locked).
THEOREM ProxyRetiresInOrder == Spec => Fences!RetiresInOrder
  <1>. QED BY ProxyImplementsTimeline, RetirementInOrder, Zenon DEF ImplementsFenceTimeline

-----------------------------------------------------------------------------
(***************************************************************************)
(* Seqnos                                                                  *)
(***************************************************************************)

LEMMA DivMod ==
    ASSUME NEW m \in Nat \ {0}, NEW x \in Int
    PROVE  /\ x \div m \in Int /\ x % m \in 0 .. m - 1
           /\ x = m * (x \div m) + (x % m)
  <1>. QED OBVIOUS

LEMMA SmallMultiple ==
    ASSUME NEW m \in Nat \ {0}, NEW k \in Int, NEW a \in 0 .. m - 1, NEW b \in 0 .. m - 1,
           m * k = a - b
    PROVE  k = 0
  <1>1. k >= 1 => m * k >= m
    OBVIOUS
  <1>2. k <= -1 => m * k <= -m
    OBVIOUS
  <1>. QED BY <1>1, <1>2

LEMMA ModUnique ==
    ASSUME NEW m \in Nat \ {0}, NEW x \in Int, NEW k \in Int, NEW b \in 0 .. m - 1,
           x = m * k + b
    PROVE  x % m = b
  <1>1. x \div m \in Int /\ x % m \in 0 .. m - 1 /\ x = m * (x \div m) + (x % m)
    BY DivMod, Zenon
  <1>2. m * (k - (x \div m)) = (x % m) - b
    BY <1>1
  <1>3. k - (x \div m) = 0
    BY <1>1, <1>2, SmallMultiple
  <1>. QED BY <1>1, <1>3

\* A fence after l is not signaled by the seqno of l, when no more than
\* MaxPending fences are pending.
LEMMA LaterNotSignaled ==
    ASSUME NEW l \in Nat, NEW f \in Nat, l < f, f <= l + MaxPending
    PROVE  ~IsSignaled(f, l % M)
  <1>1. M \in Nat \ {0} /\ MaxPending \in Nat /\ 2 * (MaxPending + 1) <= M
    BY Constants
  <1>2. l \div M \in Int /\ l % M \in 0 .. M - 1 /\ l = M * (l \div M) + (l % M)
    BY <1>1, DivMod
  <1> DEFINE q == l \div M
             b == M - (f - l)
  <1>3. q \in Int /\ b \in 0 .. M - 1 /\ (l % M) - f \in Int
    BY <1>1, <1>2
  <1>4. (l % M) - f = M * (-q - 1) + b
    <2>1. M * (-q - 1) = -(M * q) - M
      BY <1>1, <1>3
    <2>. QED BY <1>1, <1>2, <2>1
  <1> HIDE DEF q
  <1>5. -q - 1 \in Int
    BY <1>3
  <1>6. ((l % M) - f) % M = b
    <2> HIDE DEF b
    <2>. QED BY <1>1, <1>3, <1>4, <1>5, ModUnique, Zenon
  <1>7. INT_MAX = M \div 2 - 1 /\ M = 2 * (M \div 2) /\ M \div 2 \in Nat
    <2>1. M % 2 = 0
      BY ProxyConstants, Zenon
    <2>2. M = 2 * (M \div 2) /\ M \div 2 \in Nat
      BY <1>1, <2>1
    <2>. QED BY <2>2, Zenon DEF INT_MAX
  <1>8. ~(b < INT_MAX)
    <2>1. MaxPending <= INT_MAX
      BY ProxyConstants, Zenon
    <2>. QED BY <1>1, <1>7, <2>1
  <1>. QED BY <1>6, <1>8, Zenon DEF IsSignaled

-----------------------------------------------------------------------------
(***************************************************************************)
(* The worker                                                              *)
(***************************************************************************)
AtWork == \A r \in Rings : Contiguous(r) /\ \E l \in Nat : FinishedUpTo(r, l)

LEMMA InitWorker == Init => WorkerInv
  <1> SUFFICES ASSUME Init PROVE WorkerInv
    OBVIOUS
  <1>1. \A r \in Rings : newest[r] = 0
    BY DEF Init, newest
  <1>2. 0 % M = 0
    <2>1. M \in Nat \ {0} /\ 0 \in 0 .. M - 1 /\ 0 = M * 0 + 0
      BY Constants
    <2>. QED BY <2>1, ModUnique
  <1>3. \A r \in Rings : Contiguous(r)
    BY <1>1, Constants DEF Init, Contiguous
  <1>4. ASSUME NEW r \in Rings PROVE FinishedUpTo(r, 0)
    <2>1. Accepted(r) = {} /\ Requested(r) = {}
      BY DEF Init, Accepted, Requested
    <2>. QED BY <1>1, <1>2, <2>1 DEF Init, FinishedUpTo
  <1>. QED BY <1>3, <1>4, Zenon DEF Init, WorkerInv

LEMMA RequestsAt ==
    ASSUME NEW R, NEW s \in Seq(R)
    PROVE  /\ \A i \in DOMAIN s : s[i] \in R
           /\ s # <<>> => /\ 1 \in DOMAIN s /\ Head(s) = s[1]
                          /\ DOMAIN Tail(s) = 1 .. Len(s) - 1
                          /\ \A i \in DOMAIN Tail(s) : Tail(s)[i] = s[i + 1] /\ i + 1 \in DOMAIN s
           /\ \A x \in R : /\ DOMAIN Append(s, x) = DOMAIN s \cup {Len(s) + 1}
                           /\ Append(s, x)[Len(s) + 1] = x
                           /\ \A i \in DOMAIN s : Append(s, x)[i] = s[i] /\ i < Len(s) + 1
  <1>1. DOMAIN s = 1 .. Len(s) /\ Len(s) \in Nat /\ \A i \in DOMAIN s : s[i] \in R
    OBVIOUS
  <1>2. ASSUME s # <<>>
        PROVE  /\ 1 \in DOMAIN s /\ Head(s) = s[1]
               /\ DOMAIN Tail(s) = 1 .. Len(s) - 1
               /\ \A i \in DOMAIN Tail(s) : Tail(s)[i] = s[i + 1] /\ i + 1 \in DOMAIN s
    BY <1>1, <1>2
  <1>3. ASSUME NEW x \in R
        PROVE  /\ DOMAIN Append(s, x) = DOMAIN s \cup {Len(s) + 1}
               /\ Append(s, x)[Len(s) + 1] = x
               /\ \A i \in DOMAIN s : Append(s, x)[i] = s[i] /\ i < Len(s) + 1
    BY <1>1
  <1>. QED BY <1>1, <1>2, <1>3, Zenon

\* The types the steps below work with
LEMMA WorkerTypes ==
    ASSUME Inv, NEW r \in Rings
    PROVE  /\ fences[r] \in Seq(Nat) /\ retired[r] \in Nat /\ newest[r] \in Nat
           /\ Len(fences[r]) \in Nat /\ DOMAIN fences[r] = 1 .. Len(fences[r])
           /\ accepted[r] \in Seq(Nat) /\ next_seqno[r] \in Nat
           /\ sring \in Rings /\ sfence \in Nat
           /\ Accepted(r) \subseteq Nat /\ Requested(r) \subseteq Nat
  <1>1. TypeOK
    BY Zenon DEF Inv, MaskInv, BusyConsistent
  <1>2. newest[r] \in Nat
    BY Zenon DEF Inv, FencesInv, Fences!TypeOK
  <1>3. fences[r] \in Seq(Nat) /\ accepted[r] \in Seq(Nat)
    BY <1>1, Zenon DEF TypeOK
  <1>4. Accepted(r) \subseteq Nat
    BY <1>3 DEF Accepted
  <1>5. Requested(r) \subseteq Nat
    <2>1. \A i \in DOMAIN requests : requests[i] \in [ring : Rings, fence : Nat]
      BY <1>1, RequestsAt, Zenon DEF TypeOK
    <2>. QED BY <2>1, Zenon DEF Requested
  <1>6. Len(fences[r]) \in Nat /\ DOMAIN fences[r] = 1 .. Len(fences[r])
    BY <1>3
  <1>. QED BY <1>1, <1>2, <1>3, <1>4, <1>5, <1>6, Zenon DEF TypeOK

\* Steps that leave the lists, the seqnos and the requests alone
LEMMA WorkerUntouched ==
    ASSUME AtWork, newest' = newest,
           UNCHANGED <<fences, retired, timeline_seqnos, accepted, requests, sring, sfence>>,
           spc' = "add" => spc = "add", spc' = "send" => spc = "send"
    PROVE  AtWork'
  <1>1. \A r \in Rings : Accepted(r)' = Accepted(r) /\ Requested(r)' = Requested(r)
    BY Zenon DEF Accepted, Requested
  <1>2. \A r \in Rings : Contiguous(r) => Contiguous(r)'
    BY Zenon DEF Contiguous
  <1>3. ASSUME NEW r \in Rings, NEW l \in Nat, FinishedUpTo(r, l) PROVE FinishedUpTo(r, l)'
    BY <1>1, <1>3, Zenon DEF FinishedUpTo
  <1>. QED BY <1>2, <1>3, Zenon DEF AtWork

LEMMA SubmitFenceWorker ==
    ASSUME Inv, AtWork, NEW r \in Rings, SubmitFence(r)
    PROVE  AtWork'
  <1>1. /\ spc = "idle" /\ spc' = "add" /\ sring' = r /\ Len(fences[r]) < MaxPending
        /\ UNCHANGED <<fences, retired, timeline_seqnos, accepted, requests>>
    BY Zenon DEF SubmitFence, shared, worker, told
  <1>2. newest' = newest
    BY <1>1 DEF SubmitFence, newest, Inv, MaskInv, BusyConsistent, TypeOK
  <1>3. \A q \in Rings : Accepted(q)' = Accepted(q) /\ Requested(q)' = Requested(q)
    BY <1>1, Zenon DEF Accepted, Requested
  <1>4. \A q \in Rings : Contiguous(q) => Contiguous(q)'
    BY <1>1, <1>2, Zenon DEF Contiguous
  <1>5. ASSUME NEW q \in Rings, NEW l \in Nat, FinishedUpTo(q, l) PROVE FinishedUpTo(q, l)'
    BY <1>1, <1>2, <1>3, <1>5, Zenon DEF FinishedUpTo
  <1>. QED BY <1>4, <1>5, Zenon DEF AtWork

LEMMA SubmitAddWorker ==
    ASSUME Inv, AtWork, SubmitAdd
    PROVE  AtWork'
  <1>1. /\ spc = "add" /\ spc' = "send" /\ UNCHANGED <<sring, sfence, next_seqno>>
        /\ fences' = [fences EXCEPT ![sring] = Append(fences[sring], sfence)]
        /\ UNCHANGED <<retired, timeline_seqnos, accepted, requests>>
    BY Zenon DEF SubmitAdd, shared, worker, told
  <1>2. /\ sring \in Rings /\ sfence \in Nat /\ sfence = newest[sring] + 1
        /\ newest'[sring] = sfence
        /\ \A q \in Rings : q # sring => newest'[q] = newest[q]
        /\ fences \in [Rings -> Seq(Nat)]
    BY <1>1 DEF newest, Inv, MaskInv, BusyConsistent, TypeOK, InFlight
  <1>3. \A q \in Rings : Accepted(q)' = Accepted(q) /\ Requested(q)' = Requested(q)
    BY <1>1, Zenon DEF Accepted, Requested
  <1>4. ASSUME NEW q \in Rings PROVE Contiguous(q)'
    <2>1. Contiguous(q)
      BY Zenon DEF AtWork
    <2>2. CASE q # sring
      BY <1>1, <1>2, <2>1, <2>2, Zenon DEF Contiguous
    <2>3. CASE q = sring
      <3>1. /\ fences[q] \in Seq(Nat) /\ retired[q] \in Nat /\ newest[q] \in Nat
            /\ Len(fences[q]) \in Nat /\ DOMAIN fences[q] = 1 .. Len(fences[q])
        BY WorkerTypes, Zenon
      <3>2. fences'[q] = Append(fences[q], sfence)
        BY <1>1, <1>2, <2>3, Zenon
      <3>3. /\ Len(fences'[q]) = Len(fences[q]) + 1
            /\ DOMAIN fences'[q] = DOMAIN fences[q] \cup {Len(fences[q]) + 1}
            /\ fences'[q][Len(fences[q]) + 1] = sfence
            /\ \A i \in DOMAIN fences[q] : fences'[q][i] = fences[q][i]
        BY <1>2, <3>1, <3>2, RequestsAt
      <3>4. /\ \A i \in DOMAIN fences[q] : fences[q][i] = retired[q] + i
            /\ retired[q] + Len(fences[q]) = newest[q]
            /\ Len(fences[q]) < MaxPending
        BY <1>1, <2>1, <2>3, Zenon DEF Contiguous
      <3>5. retired[q] + (Len(fences[q]) + 1) = sfence /\ Len(fences[q]) + 1 <= MaxPending
        <4>1. sfence = newest[q] + 1 /\ sfence \in Nat
          BY <1>2, <2>3, Zenon
        <4>2. \A a, b, c, d \in Nat :
                  a + b = c /\ d = c + 1 /\ b < MaxPending =>
                      a + (b + 1) = d /\ b + 1 <= MaxPending
          BY Constants
        <4> DEFINE a == retired[q]
                   b == Len(fences[q])
                   c == newest[q]
        <4>3. /\ a \in Nat /\ b \in Nat /\ c \in Nat
              /\ a + b = c /\ sfence = c + 1 /\ b < MaxPending
          BY <3>1, <3>4, <4>1, Zenon
        <4> HIDE DEF a, b, c
        <4>4. a + (b + 1) = sfence /\ b + 1 <= MaxPending
          BY <4>1, <4>2, <4>3, Zenon
        <4>. QED BY <4>4, Zenon DEF a, b
      <3>6. \A i \in DOMAIN fences'[q] : fences'[q][i] = retired[q] + i
        BY <3>3, <3>4, <3>5, Zenon
      <3>. QED BY <1>1, <1>2, <2>3, <3>3, <3>5, <3>6, Zenon DEF Contiguous
    <2>. QED BY <2>2, <2>3, Zenon
  <1>5. ASSUME NEW q \in Rings, NEW l \in Nat, FinishedUpTo(q, l) PROVE FinishedUpTo(q, l)'
    <2>1. newest[q] \in Nat /\ Accepted(q) \cup Requested(q) \subseteq Nat
      BY WorkerTypes, Zenon
    <2>2. l <= newest[q] /\ \A f \in Accepted(q) \cup Requested(q) : l < f /\ f <= newest[q]
      BY <1>5, Zenon DEF FinishedUpTo
    <2>3. newest[q] <= newest'[q] /\ newest'[q] \in Nat
      <3>1. CASE q = sring
        <4>1. \A a, b \in Nat : b = a + 1 => a <= b
          OBVIOUS
        <4>. QED BY <1>2, <2>1, <3>1, <4>1, Zenon
      <3>2. CASE q # sring
        <4>1. newest'[q] = newest[q]
          BY <1>2, <3>2, Zenon
        <4>. QED BY <2>1, <4>1
      <3>. QED BY <3>1, <3>2, Zenon
    <2>4. /\ l <= newest'[q]
          /\ \A f \in Accepted(q) \cup Requested(q) : l < f /\ f <= newest'[q]
      BY <1>2, <2>1, <2>2, <2>3
    <2>5. sring = q => l < sfence /\ \A f \in Accepted(q) \cup Requested(q) : f < sfence
      BY <1>2, <2>1, <2>2
    <2>. QED BY <1>1, <1>3, <1>5, <2>4, <2>5, Zenon DEF FinishedUpTo
  <1>. QED BY <1>4, <1>5, Zenon DEF AtWork

LEMMA SubmitSendWorker ==
    ASSUME Inv, AtWork, SubmitSend, alive
    PROVE  AtWork'
  <1>1. /\ spc = "send" /\ spc' = "idle"
        /\ requests' = Append(requests, [ring |-> sring, fence |-> sfence])
        /\ UNCHANGED <<fences, retired, timeline_seqnos, accepted, sring, sfence, next_seqno>>
    BY Zenon DEF SubmitSend, proxy, worker, told
  <1>2. newest' = newest
    BY <1>1, Zenon DEF newest
  <1>3. \A q \in Rings : Contiguous(q) => Contiguous(q)'
    BY <1>1, <1>2, Zenon DEF Contiguous
  <1>4. /\ DOMAIN requests' = DOMAIN requests \cup {Len(requests) + 1}
        /\ requests'[Len(requests) + 1].ring = sring
        /\ requests'[Len(requests) + 1].fence = sfence
        /\ \A i \in DOMAIN requests : requests'[i] = requests[i] /\ i < Len(requests) + 1
        /\ DOMAIN requests \subseteq Int /\ Len(requests) \in Int
    <2> DEFINE R == [ring : Rings, fence : Nat]
               x == [ring |-> sring, fence |-> sfence]
    <2>1. requests \in Seq(R) /\ x \in R /\ x.ring = sring /\ x.fence = sfence
      BY Zenon DEF Inv, MaskInv, BusyConsistent, TypeOK
    <2> HIDE DEF R, x
    <2>2. /\ DOMAIN Append(requests, x) = DOMAIN requests \cup {Len(requests) + 1}
          /\ Append(requests, x)[Len(requests) + 1] = x
          /\ \A i \in DOMAIN requests : Append(requests, x)[i] = requests[i] /\ i < Len(requests) + 1
      BY <2>1, RequestsAt, Zenon
    <2>3. requests' = Append(requests, x)
      BY <1>1, Zenon DEF x
    <2>4. DOMAIN requests \subseteq Int /\ Len(requests) \in Int
      BY <2>1
    <2>. QED BY <2>1, <2>2, <2>3, <2>4, Zenon
  <1>5. ASSUME NEW q \in Rings, NEW l \in Nat, FinishedUpTo(q, l) PROVE FinishedUpTo(q, l)'
    <2>1. /\ newest[q] \in Nat /\ Accepted(q) \cup Requested(q) \subseteq Nat /\ sfence \in Nat
          /\ sring = q => sfence = newest[q]
      BY WorkerTypes, InFlightIsNewest, <1>1, Zenon
    <2>2. Accepted(q)' = Accepted(q)
      BY <1>1, Zenon DEF Accepted
    <2>3. Requested(q)' = IF sring = q THEN Requested(q) \cup {sfence} ELSE Requested(q)
      BY <1>4, Zenon DEF Requested
    <2>4. sring = q => l < sfence /\ \A f \in Accepted(q) \cup Requested(q) : f < sfence
      BY <1>1, <1>5, Zenon DEF FinishedUpTo
    <2>5. \A f \in (Accepted(q) \cup Requested(q))' : l < f /\ f <= newest'[q]
      BY <1>2, <1>5, <2>1, <2>2, <2>3, <2>4 DEF FinishedUpTo
    <2>6. (\A f \in Accepted(q), g \in Requested(q) : f < g)'
      BY <1>5, <2>2, <2>3, <2>4, Zenon DEF FinishedUpTo
    <2>7. (\A i, j \in DOMAIN requests :
               i < j /\ requests[i].ring = q /\ requests[j].ring = q =>
                   requests[i].fence < requests[j].fence)'
      <3>1. ASSUME NEW i \in DOMAIN requests, requests[i].ring = q
            PROVE  requests[i].fence \in Requested(q)
        BY <3>1, Zenon DEF Requested
      <3>2. SUFFICES ASSUME NEW i \in DOMAIN requests', NEW j \in DOMAIN requests',
                            i < j, requests'[i].ring = q, requests'[j].ring = q
                     PROVE  requests'[i].fence < requests'[j].fence
        OBVIOUS
      <3>3. CASE j \in DOMAIN requests /\ i \in DOMAIN requests
        BY <1>4, <1>5, <3>2, <3>3, Zenon DEF FinishedUpTo
      <3>4. CASE j \notin DOMAIN requests /\ i \in DOMAIN requests
        BY <1>4, <2>4, <3>1, <3>2, <3>4, Zenon
      <3>5. CASE i \notin DOMAIN requests
        BY <1>4, <3>2, <3>5
      <3>. QED BY <3>3, <3>4, <3>5, Zenon
    <2>. QED BY <1>1, <1>2, <1>5, <2>5, <2>6, <2>7, Zenon DEF FinishedUpTo
  <1>. QED BY <1>3, <1>5, Zenon DEF AtWork

\* The signaled prefix of a list was finished by the worker.
LEMMA PrefixFinished ==
    ASSUME Inv, NEW r \in Rings, Contiguous(r), NEW l \in Nat, FinishedUpTo(r, l),
           NEW n \in 1 .. Len(fences[r]),
           SignaledPrefix(fences[r], timeline_seqnos[r], n)
    PROVE  fences[r][n] = retired[r] + n /\ fences[r][n] <= l
  <1>1. /\ retired[r] \in Nat /\ newest[r] \in Nat /\ Len(fences[r]) \in Nat
        /\ DOMAIN fences[r] = 1 .. Len(fences[r])
    BY WorkerTypes, Zenon
  <1>2. /\ fences[r][n] = retired[r] + n /\ retired[r] + Len(fences[r]) = newest[r]
        /\ Len(fences[r]) <= MaxPending
    BY <1>1, Zenon DEF Contiguous
  <1>3. timeline_seqnos[r] = l % M /\ retired[r] <= l
    BY Zenon DEF FinishedUpTo
  <1>4. IsSignaled(fences[r][n], l % M)
    <2>1. n \in 1 .. n
      BY <1>1
    <2>. QED BY <1>3, <2>1, Zenon DEF SignaledPrefix
  <1>5. fences[r][n] \in Nat /\ fences[r][n] <= l + MaxPending
    <2> DEFINE t == retired[r]
               k == Len(fences[r])
    <2>1. /\ t \in Nat /\ k \in Nat /\ n \in 1 .. k /\ k <= MaxPending /\ t <= l
          /\ fences[r][n] = t + n /\ MaxPending \in Nat
      BY <1>1, <1>2, <1>3, Constants, Zenon
    <2> HIDE DEF t, k
    <2>2. t + n \in Nat /\ t + n <= l + MaxPending
      BY <2>1
    <2>. QED BY <2>1, <2>2, Zenon
  <1>6. ~(l < fences[r][n])
    BY <1>4, <1>5, LaterNotSignaled, Zenon
  <1>. QED BY <1>2, <1>5, <1>6

\* Retiring the signaled prefix of ring r
LEMMA RetireWorker ==
    ASSUME Inv, AtWork, NEW r \in Rings, NEW n \in 0 .. Len(fences[r]), RetireFences(r, n),
           SignaledPrefix(fences[r], timeline_seqnos[r], n), newest' = newest,
           UNCHANGED <<timeline_seqnos, accepted, requests, spc, sring, sfence>>
    PROVE  /\ AtWork'
           /\ \A q \in Rings : retired'[q] # retired[q] =>
                  q = r /\ \E l \in Nat : FinishedUpTo(q, l) /\ retired'[q] <= l
  <1>1. /\ retired[r] \in Nat /\ newest[r] \in Nat /\ Len(fences[r]) \in Nat
        /\ DOMAIN fences[r] = 1 .. Len(fences[r]) /\ fences[r] \in Seq(Nat)
    BY WorkerTypes, Zenon
  <1>2. Contiguous(r)
    BY Zenon DEF AtWork
  <1>3. /\ retired'[r] = retired[r] + n
        /\ \A q \in Rings : q # r => retired'[q] = retired[q] /\ fences'[q] = fences[q]
        /\ fences'[r] = SubSeq(fences[r], n + 1, Len(fences[r]))
    <2>1. retired \in [Rings -> Nat] /\ fences \in [Rings -> Seq(Nat)]
      BY Zenon DEF Inv, MaskInv, BusyConsistent, TypeOK
    <2>2. CASE n = 0
      BY <1>1, <2>1, <2>2 DEF RetireFences
    <2>3. CASE n # 0
      <3>1. fences[r][n] = retired[r] + n
        <4>1. n \in DOMAIN fences[r]
          BY <1>1, <2>3
        <4>. QED BY <1>2, <4>1, Zenon DEF Contiguous
      <3>. QED BY <2>1, <2>3, <3>1, Zenon DEF RetireFences
    <2>. QED BY <2>2, <2>3, Zenon
  <1>4. ASSUME NEW l \in Nat, FinishedUpTo(r, l) PROVE retired'[r] <= l
    <2>1. CASE n = 0
      BY <1>1, <1>3, <1>4, <2>1 DEF FinishedUpTo
    <2>2. CASE n # 0
      <3>1. n \in 1 .. Len(fences[r])
        BY <1>1, <2>2
      <3>. QED BY <1>2, <1>3, <1>4, <3>1, PrefixFinished, Zenon
    <2>. QED BY <2>1, <2>2, Zenon
  <1>5. \A q \in Rings : Accepted(q)' = Accepted(q) /\ Requested(q)' = Requested(q)
    BY Zenon DEF Accepted, Requested
  <1>6. ASSUME NEW q \in Rings, NEW l \in Nat, FinishedUpTo(q, l) PROVE FinishedUpTo(q, l)'
    <2>1. retired'[q] <= l
      BY <1>3, <1>4, <1>6, Zenon DEF FinishedUpTo
    <2>. QED BY <1>5, <1>6, <2>1, Zenon DEF FinishedUpTo
  <1>7. Contiguous(r)'
    <2>1. /\ Len(fences'[r]) = Len(fences[r]) - n
          /\ DOMAIN fences'[r] = 1 .. Len(fences[r]) - n
          /\ \A i \in 1 .. Len(fences[r]) - n : fences'[r][i] = fences[r][n + i]
      <3>1. fences'[r] = Rest(fences[r], n)
        BY <1>3, Zenon DEF Rest
      <3>2. /\ Rest(fences[r], n) \in Seq(Nat)
            /\ Len(Rest(fences[r], n)) = Len(fences[r]) - n
            /\ \A i \in 1 .. Len(fences[r]) - n : Rest(fences[r], n)[i] = fences[r][n + i]
        BY <1>1, SuffixOf, Zenon
      <3>3. DOMAIN Rest(fences[r], n) = 1 .. Len(fences[r]) - n
        BY <3>2
      <3>. QED BY <3>1, <3>2, <3>3, Zenon
    <2>2. \A i \in 1 .. Len(fences[r]) - n : fences[r][n + i] = retired[r] + (n + i)
      <3>1. \A i \in 1 .. Len(fences[r]) - n : n + i \in DOMAIN fences[r]
        BY <1>1, SMTT(30)
      <3>. QED BY <1>2, <3>1, Zenon DEF Contiguous
    <2>3. \A i \in 1 .. Len(fences[r]) - n : retired[r] + (n + i) = (retired[r] + n) + i
      BY <1>1
    <2>4. \A i \in DOMAIN fences'[r] : fences'[r][i] = retired'[r] + i
      BY <1>3, <2>1, <2>2, <2>3, Zenon
    <2>5. /\ retired'[r] + Len(fences'[r]) = newest[r]
          /\ Len(fences'[r]) <= Len(fences[r]) /\ Len(fences'[r]) \in Nat
      <3>1. retired[r] + Len(fences[r]) = newest[r]
        BY <1>2, Zenon DEF Contiguous
      <3>2. /\ retired'[r] = retired[r] + n
            /\ Len(fences'[r]) = Len(fences[r]) - n
        BY <1>3, <2>1, Zenon
      <3>. QED BY <1>1, <3>1, <3>2, SMTT(20)
    <2>6. /\ Len(fences'[r]) <= MaxPending
          /\ spc = "add" /\ sring = r => Len(fences'[r]) < MaxPending
      <3>1. /\ Len(fences[r]) <= MaxPending
            /\ spc = "add" /\ sring = r => Len(fences[r]) < MaxPending
        BY <1>2, Zenon DEF Contiguous
      <3>. QED BY <1>1, <2>5, <3>1, Constants, SMTT(20)
    <2>. QED BY <2>4, <2>5, <2>6, Zenon DEF Contiguous
  <1>8. \A q \in Rings : Contiguous(q)'
    <2>1. ASSUME NEW q \in Rings, q # r PROVE Contiguous(q)'
      BY <1>3, <2>1, Zenon DEF AtWork, Contiguous
    <2>. QED BY <1>7, <2>1, Zenon
  <1>9. AtWork'
    BY <1>6, <1>8, Zenon DEF AtWork
  <1>10. \E l \in Nat : FinishedUpTo(r, l)
    BY Zenon DEF AtWork
  <1>. QED BY <1>3, <1>4, <1>9, <1>10, Zenon

LEMMA AcceptWorker ==
    ASSUME Inv, AtWork, WorkerAccept
    PROVE  AtWork'
  <1> DEFINE h == requests[1]
  <1>1. /\ UNCHANGED <<fences, retired, timeline_seqnos, spc, sring, sfence, next_seqno>>
        /\ requests' = Tail(requests) /\ requests # <<>>
        /\ accepted' = [accepted EXCEPT ![Head(requests).ring] =
                            Append(accepted[Head(requests).ring], Head(requests).fence)]
    BY Zenon DEF WorkerAccept, proxy, submit, told
  <1>2. newest' = newest
    BY <1>1, Zenon DEF newest
  <1>3. \A q \in Rings : Contiguous(q) => Contiguous(q)'
    BY <1>1, <1>2, Zenon DEF Contiguous
  <1>4. /\ h.ring \in Rings /\ h.fence \in Nat /\ Head(requests) = h /\ 1 \in DOMAIN requests
        /\ \A i \in DOMAIN requests' :
               requests'[i] = requests[i + 1] /\ i + 1 \in DOMAIN requests /\ i \in Int /\ i >= 1
        /\ DOMAIN requests \subseteq Int /\ DOMAIN requests' \subseteq Int
    <2> DEFINE R == [ring : Rings, fence : Nat]
    <2>1. requests \in Seq(R) /\ requests # <<>>
      BY <1>1, Zenon DEF Inv, MaskInv, BusyConsistent, TypeOK
    <2> HIDE DEF R
    <2>2. /\ h \in R /\ Head(requests) = h /\ 1 \in DOMAIN requests
          /\ DOMAIN Tail(requests) = 1 .. Len(requests) - 1
          /\ \A i \in DOMAIN Tail(requests) :
                 Tail(requests)[i] = requests[i + 1] /\ i + 1 \in DOMAIN requests
      BY <2>1, RequestsAt, Zenon
    <2>3. DOMAIN requests \subseteq Int
      BY <2>1
    <2>. QED BY <1>1, <2>2, <2>3 DEF R
  <1> HIDE DEF h
  <1>5. ASSUME NEW q \in Rings, NEW l \in Nat, FinishedUpTo(q, l) PROVE FinishedUpTo(q, l)'
    <2>1. accepted[q] \in Seq(Nat) /\ accepted \in [Rings -> Seq(Nat)]
      BY Zenon DEF Inv, MaskInv, BusyConsistent, TypeOK
    <2>2. ASSUME NEW f \in Requested(q)'
          PROVE  f \in Requested(q) /\ (h.ring = q => h.fence < f)
      <3>1. PICK i \in DOMAIN requests' : requests'[i].ring = q /\ f = requests'[i].fence
        BY <2>2, Zenon DEF Requested
      <3>2. /\ i + 1 \in DOMAIN requests /\ requests[i + 1].ring = q
            /\ f = requests[i + 1].fence /\ 1 < i + 1
        BY <1>4, <3>1
      <3>3. f \in Requested(q)
        BY <3>2, Zenon DEF Requested
      <3>4. h.ring = q => h.fence < f
        BY <1>4, <1>5, <3>2, Zenon DEF FinishedUpTo, h
      <3>. QED BY <3>3, <3>4, Zenon
    <2>3. h.ring = q => h.fence \in Requested(q)
      BY <1>4, Zenon DEF Requested, h
    <2>4. CASE h.ring # q
      <3>1. accepted'[q] = accepted[q] /\ Accepted(q)' = Accepted(q)
        BY <1>1, <1>4, <2>1, <2>4, Zenon DEF Accepted
      <3>2. (\A f \in Accepted(q) \cup Requested(q) : l < f /\ f <= newest[q])'
        BY <1>2, <1>5, <2>2, <3>1, Zenon DEF FinishedUpTo
      <3>3. (\A f \in Accepted(q), g \in Requested(q) : f < g)'
        BY <1>5, <2>2, <3>1, Zenon DEF FinishedUpTo
      <3>4. (\A i, j \in DOMAIN requests :
                 i < j /\ requests[i].ring = q /\ requests[j].ring = q =>
                     requests[i].fence < requests[j].fence)'
        BY <1>4, <1>5 DEF FinishedUpTo
      <3>5. (spc = "send" /\ sring = q =>
                 l < sfence /\ \A f \in Accepted(q) \cup Requested(q) : f < sfence)'
        BY <1>1, <1>5, <2>2, <3>1, Zenon DEF FinishedUpTo
      <3>. QED BY <1>1, <1>2, <1>5, <3>1, <3>2, <3>3, <3>4, <3>5, Zenon DEF FinishedUpTo
    <2>5. CASE h.ring = q
      <3>1. accepted'[q] = Append(accepted[q], h.fence)
        BY <1>1, <1>4, <2>1, <2>5, Zenon
      <3>2. /\ DOMAIN accepted'[q] = DOMAIN accepted[q] \cup {Len(accepted[q]) + 1}
            /\ accepted'[q][Len(accepted[q]) + 1] = h.fence
            /\ \A i \in DOMAIN accepted[q] :
                   accepted'[q][i] = accepted[q][i] /\ i < Len(accepted[q]) + 1
            /\ DOMAIN accepted[q] \subseteq Int /\ Len(accepted[q]) \in Int
        BY <1>4, <2>1, <3>1, RequestsAt
      <3>3. Accepted(q)' = Accepted(q) \cup {h.fence}
        BY <3>2, Zenon DEF Accepted
      <3>4. \A i \in DOMAIN accepted[q] : accepted[q][i] < h.fence
        BY <1>5, <2>3, <2>5, Zenon DEF FinishedUpTo, Accepted
      <3>5. (\A i, j \in DOMAIN accepted[q] : i < j => accepted[q][i] < accepted[q][j])'
        <4>1. SUFFICES ASSUME NEW i \in DOMAIN accepted'[q], NEW j \in DOMAIN accepted'[q], i < j
                       PROVE  accepted'[q][i] < accepted'[q][j]
          OBVIOUS
        <4>2. CASE i \in DOMAIN accepted[q] /\ j \in DOMAIN accepted[q]
          BY <1>5, <3>2, <4>1, <4>2, Zenon DEF FinishedUpTo
        <4>3. CASE i \in DOMAIN accepted[q] /\ j \notin DOMAIN accepted[q]
          BY <3>2, <3>4, <4>1, <4>3, Zenon
        <4>4. CASE i \notin DOMAIN accepted[q]
          BY <3>2, <4>1, <4>4
        <4>. QED BY <4>2, <4>3, <4>4, Zenon
      <3>6. (\A f \in Accepted(q) \cup Requested(q) : l < f /\ f <= newest[q])'
        BY <1>2, <1>5, <2>2, <2>3, <2>5, <3>3, Zenon DEF FinishedUpTo
      <3>7. (\A f \in Accepted(q), g \in Requested(q) : f < g)'
        BY <1>5, <2>2, <2>5, <3>3, Zenon DEF FinishedUpTo
      <3>8. (\A i, j \in DOMAIN requests :
                 i < j /\ requests[i].ring = q /\ requests[j].ring = q =>
                     requests[i].fence < requests[j].fence)'
        BY <1>4, <1>5 DEF FinishedUpTo
      <3>9. (spc = "send" /\ sring = q =>
                 l < sfence /\ \A f \in Accepted(q) \cup Requested(q) : f < sfence)'
        BY <1>1, <1>5, <2>2, <2>3, <2>5, <3>3, Zenon DEF FinishedUpTo
      <3>. QED BY <1>1, <1>2, <1>5, <3>5, <3>6, <3>7, <3>8, <3>9, Zenon DEF FinishedUpTo
    <2>. QED BY <2>4, <2>5, Zenon
  <1>. QED BY <1>3, <1>5, Zenon DEF AtWork

LEMMA UpdateWorker ==
    ASSUME Inv, AtWork, NEW r \in Rings, UpdateTimeline(r)
    PROVE  AtWork'
  <1>1. /\ UNCHANGED <<fences, retired, requests, spc, sring, sfence, next_seqno>>
        /\ timeline_seqnos' = [timeline_seqnos EXCEPT ![r] = Head(accepted[r]) % M]
        /\ accepted' = [accepted EXCEPT ![r] = Tail(accepted[r])] /\ accepted[r] # <<>>
    BY Zenon DEF UpdateTimeline, proxy, submit, told
  <1>2. newest' = newest
    BY <1>1, Zenon DEF newest
  <1>3. \A q \in Rings : Contiguous(q) => Contiguous(q)'
    BY <1>1, <1>2, Zenon DEF Contiguous
  <1>4. \A q \in Rings : Requested(q)' = Requested(q)
    BY <1>1, Zenon DEF Requested
  <1>5. accepted \in [Rings -> Seq(Nat)] /\ timeline_seqnos \in [Rings -> 0 .. M - 1]
    BY Zenon DEF Inv, MaskInv, BusyConsistent, TypeOK
  <1>5a. PICK h \in Nat : h = accepted[r][1] /\ h = Head(accepted[r])
    <2>1. accepted[r] \in Seq(Nat) /\ accepted[r] # <<>>
      BY <1>1, <1>5, Zenon
    <2>2. accepted[r][1] \in Nat /\ Head(accepted[r]) = accepted[r][1]
      BY <2>1
    <2>. QED BY <2>2, Zenon
  <1>6. ASSUME NEW q \in Rings, q # r, NEW l \in Nat, FinishedUpTo(q, l)
        PROVE  FinishedUpTo(q, l)'
    <2>1. accepted'[q] = accepted[q] /\ timeline_seqnos'[q] = timeline_seqnos[q]
      BY <1>1, <1>5, <1>6, Zenon
    <2>2. Accepted(q)' = Accepted(q)
      BY <2>1, Zenon DEF Accepted
    <2>. QED BY <1>1, <1>2, <1>4, <1>6, <2>1, <2>2, Zenon DEF FinishedUpTo
  <1>7. /\ 1 \in DOMAIN accepted[r]
        /\ DOMAIN accepted[r] \subseteq Int /\ DOMAIN accepted'[r] \subseteq Int
        /\ \A i \in DOMAIN accepted'[r] :
               accepted'[r][i] = accepted[r][i + 1] /\ i + 1 \in DOMAIN accepted[r] /\ i >= 1
    <2>1. /\ accepted[r] \in Seq(Nat) /\ accepted[r] # <<>>
          /\ accepted'[r] = Tail(accepted[r])
      BY <1>1, <1>5, Zenon
    <2>2. /\ \A i \in DOMAIN accepted[r] : accepted[r][i] \in Nat
          /\ 1 \in DOMAIN accepted[r]
          /\ DOMAIN Tail(accepted[r]) = 1 .. Len(accepted[r]) - 1
          /\ \A i \in DOMAIN Tail(accepted[r]) :
                 Tail(accepted[r])[i] = accepted[r][i + 1] /\ i + 1 \in DOMAIN accepted[r]
      BY <2>1, RequestsAt, Zenon
    <2>3. DOMAIN accepted[r] \subseteq Int
      BY <2>1
    <2>. QED BY <2>1, <2>2, <2>3
  <1>8. ASSUME NEW l \in Nat, FinishedUpTo(r, l) PROVE FinishedUpTo(r, h)'
    <2>1. /\ h \in Accepted(r)
          /\ \A i \in DOMAIN accepted[r] : 1 < i => h < accepted[r][i]
      <3>1. h \in Accepted(r)
        BY <1>5a, <1>7, Zenon DEF Accepted
      <3>2. \A i \in DOMAIN accepted[r] : 1 < i => accepted[r][1] < accepted[r][i]
        BY <1>7, <1>8, Zenon DEF FinishedUpTo
      <3>. QED BY <1>5a, <3>1, <3>2, Zenon
    <2>2. ASSUME NEW f \in Accepted(r)' PROVE f \in Accepted(r) /\ h < f
      <3>1. PICK i \in DOMAIN accepted'[r] : f = accepted'[r][i]
        BY <2>2, Zenon DEF Accepted
      <3>2. i + 1 \in DOMAIN accepted[r] /\ f = accepted[r][i + 1] /\ 1 < i + 1
        BY <1>7, <3>1
      <3>3. f \in Accepted(r)
        BY <3>2, Zenon DEF Accepted
      <3>. QED BY <2>1, <3>2, <3>3, Zenon
    <2>3. l < h /\ h <= newest[r] /\ retired[r] <= l /\ retired[r] \in Nat
      BY <1>8, <2>1, WorkerTypes, Zenon DEF FinishedUpTo
    <2>4. timeline_seqnos'[r] = h % M
      BY <1>1, <1>5, <1>5a, Zenon
    <2>5. retired'[r] <= h /\ h <= newest'[r]
      BY <1>1, <1>2, <1>7, <2>3
    <2>6. (\A f \in Accepted(r) \cup Requested(r) : h < f /\ f <= newest[r])'
      <3>1. \A f \in Requested(r) : h < f /\ f <= newest[r]
        BY <1>8, <2>1, Zenon DEF FinishedUpTo
      <3>2. \A f \in Accepted(r)' : h < f /\ f <= newest[r]
        BY <1>8, <2>2, Zenon DEF FinishedUpTo
      <3>. QED BY <1>2, <1>4, <3>1, <3>2, Zenon
    <2>7. (\A i, j \in DOMAIN accepted[r] : i < j => accepted[r][i] < accepted[r][j])'
      BY <1>7, <1>8 DEF FinishedUpTo
    <2>8. (\A f \in Accepted(r), g \in Requested(r) : f < g)'
      BY <1>4, <1>8, <2>2, Zenon DEF FinishedUpTo
    <2>9. (spc = "send" /\ sring = r =>
               h < sfence /\ \A f \in Accepted(r) \cup Requested(r) : f < sfence)'
      BY <1>1, <1>4, <1>8, <2>1, <2>2, Zenon DEF FinishedUpTo
    <2>. QED BY <1>1, <1>8, <2>4, <2>5, <2>6, <2>7, <2>8, <2>9, Zenon DEF FinishedUpTo
  <1>9. \A q \in Rings : \E l \in Nat : FinishedUpTo(q, l)'
    <2>1. \A q \in Rings : \E l \in Nat : FinishedUpTo(q, l)
      BY Zenon DEF AtWork
    <2>. QED BY <1>6, <1>8, <2>1, Zenon
  <1>. QED BY <1>3, <1>9, Zenon DEF AtWork

\* Only a step of the sync thread's scan retires, and while the worker lives
\* it retires up to a fence the worker has finished.
LEMMA StepWorker ==
    ASSUME Inv, WorkerInv, [Next]_vars
    PROVE  /\ WorkerInv'
           /\ \A r \in Rings : alive /\ retired'[r] # retired[r] =>
                  /\ spc # "recover"
                  /\ \E l \in Nat : FinishedUpTo(r, l) /\ retired'[r] <= l
  <1> DEFINE Goal == /\ WorkerInv'
                     /\ \A r \in Rings : alive /\ retired'[r] # retired[r] =>
                            /\ spc # "recover"
                            /\ \E l \in Nat : FinishedUpTo(r, l) /\ retired'[r] <= l
  <1> SUFFICES Goal
    OBVIOUS
  <1>0. /\ spc = "recover" => ~alive
        /\ spc = "gone" => tpc = "exit"
        /\ alive /\ spc # "gone" => AtWork
    BY Zenon DEF WorkerInv, AtWork
  <1>1. ASSUME UNCHANGED retired, spc' = "recover" => ~alive', spc' = "gone" => tpc' = "exit",
               alive' /\ spc' # "gone" => AtWork'
        PROVE  Goal
    BY <1>1, Zenon DEF WorkerInv, AtWork
  <1>2. ASSUME NEW r \in Rings, SubmitFence(r) PROVE Goal
    <2>1. /\ UNCHANGED <<retired, tpc, alive>> /\ spc = "idle" /\ spc' = "add"
      BY <1>2, Zenon DEF SubmitFence, told, sync, shared
    <2>. QED BY <1>0, <1>1, <1>2, <2>1, SubmitFenceWorker, Zenon
  <1>3. CASE SubmitAdd
    <2>1. /\ UNCHANGED <<retired, tpc, alive>> /\ spc = "add" /\ spc' = "send"
      BY <1>3, Zenon DEF SubmitAdd, told, sync, shared
    <2>. QED BY <1>0, <1>1, <1>3, <2>1, SubmitAddWorker, Zenon
  <1>4. CASE SubmitSend
    <2>1. /\ UNCHANGED <<retired, tpc, alive>> /\ spc = "send"
          /\ spc' = IF alive THEN "idle" ELSE "recover"
      BY <1>4, Zenon DEF SubmitSend, told, sync
    <2>. QED BY <1>0, <1>1, <1>4, <2>1, SubmitSendWorker, Zenon
  <1>5. CASE SubmitRecover
    <2>1. UNCHANGED <<retired, tpc, alive>> /\ spc = "recover" /\ spc' = "idle"
      BY <1>5, Zenon DEF SubmitRecover, sync, shared
    <2>. QED BY <1>0, <1>1, <2>1, Zenon
  <1>6. CASE DestroyJoin
    <2>1. UNCHANGED <<retired, tpc, alive>> /\ spc' = "gone" /\ tpc = "exit"
      BY <1>6, Zenon DEF DestroyJoin, sync, shared, told
    <2>. QED BY <1>1, <2>1, Zenon
  <1>7. CASE SyncScan
    <2>1. PICK r \in todo : RetireTimeline(r)
      BY <1>7, Zenon DEF SyncScan
    <2>2. /\ TypeOK /\ r \in Rings /\ tpc = "scan" /\ newest' = newest
          /\ UNCHANGED <<tpc, alive, timeline_seqnos, accepted, requests, spc, sring, sfence>>
      BY <1>7, Zenon DEF SyncScan, Inv, MaskInv, BusyConsistent, TypeOK, submit, shared, worker, newest
    <2>3. CASE UNCHANGED <<fences, retired>>
      BY <1>0, <1>1, <2>2, <2>3, WorkerUntouched, Zenon
    <2>4. ASSUME NEW n \in 0 .. Len(fences[r]), RetireFences(r, n),
                 alive => SignaledPrefix(fences[r], timeline_seqnos[r], n)
          PROVE  Goal
      <3>1. CASE ~alive
        BY <1>0, <2>2, <3>1, Zenon DEF WorkerInv
      <3>2. CASE alive
        <4>1. /\ AtWork'
              /\ \A q \in Rings : retired'[q] # retired[q] =>
                     q = r /\ \E l \in Nat : FinishedUpTo(q, l) /\ retired'[q] <= l
          BY <1>0, <2>2, <2>4, <3>2, RetireWorker, Zenon
        <4>. QED BY <1>0, <2>2, <3>2, <4>1, Zenon DEF WorkerInv, AtWork
      <3>. QED BY <3>1, <3>2, Zenon
    <2> HIDE DEF Goal
    <2>. QED BY <2>1, <2>2, <2>3, <2>4, RetireTimelineCases, Zenon
  <1>8. CASE WorkerAccept
    <2>1. UNCHANGED <<retired, tpc, alive, spc>>
      BY <1>8, Zenon DEF WorkerAccept, told, sync, submit
    <2>. QED BY <1>0, <1>1, <1>8, <2>1, AcceptWorker, Zenon
  <1>9. ASSUME NEW r \in Rings, UpdateTimeline(r) PROVE Goal
    <2>1. UNCHANGED <<retired, tpc, alive, spc>>
      BY <1>9, Zenon DEF UpdateTimeline, told, sync, submit
    <2>. QED BY <1>0, <1>1, <1>9, <2>1, UpdateWorker, Zenon
  <1>10. CASE WorkerDies
    <2>1. UNCHANGED <<retired, tpc, spc>> /\ ~alive'
      BY <1>10, Zenon DEF WorkerDies, told, sync, submit
    <2>. QED BY <1>0, <1>1, <2>1, Zenon
  <1>11. ASSUME UNCHANGED <<fences, retired, timeline_seqnos, accepted, requests, sring, sfence,
                            next_seqno, alive>>,
                spc' = spc \/ (spc' \in {"wake", "join"} /\ spc # "add"),
                tpc = "exit" => tpc' = "exit", spc = "gone" => spc' = "gone"
         PROVE  Goal
    <2>1. newest' = newest
      BY <1>11, Zenon DEF newest
    <2>. QED BY <1>0, <1>1, <1>11, <2>1, WorkerUntouched, Zenon
  <1> HIDE DEF Goal
  <1>12. CASE DestroyStop
    BY <1>11, <1>12, Zenon DEF DestroyStop, sync, shared, worker, told
  <1>13. CASE DestroyWake
    BY <1>11, <1>13, Zenon DEF DestroyWake, proxy, sync, worker, told
  <1>14. CASE SyncTop \/ SyncPoll \/ SyncFlush \/ SyncLock
    <2>1. UNCHANGED <<fences, retired, timeline_seqnos, accepted, requests, sring, sfence,
                    next_seqno, alive>>
      BY <1>14, Zenon DEF SyncTop, SyncPoll, SyncFlush, SyncLock, proxy, submit, shared, worker, told
    <2>2. spc' = spc /\ (tpc = "exit" => tpc' = "exit")
      BY <1>14, Zenon DEF SyncTop, SyncPoll, SyncFlush, SyncLock, proxy, submit, shared, worker, told
    <2>. QED BY <1>11, <2>1, <2>2, Zenon
  <1>15. CASE SyncUnlock
    <2>1. UNCHANGED <<fences, retired, timeline_seqnos, accepted, requests, sring, sfence,
                    next_seqno, alive>>
      BY <1>15, Zenon DEF SyncUnlock, submit, shared, worker, told
    <2>2. spc' = spc /\ (tpc = "exit" => tpc' = "exit")
      BY <1>15, Zenon DEF SyncUnlock, submit, shared, worker, told
    <2>. QED BY <1>11, <2>1, <2>2, Zenon
  <1>16. ASSUME NEW r \in Rings, NotifyTimeline(r) PROVE Goal
    <2>1. UNCHANGED <<fences, retired, timeline_seqnos, accepted, requests, sring, sfence,
                    next_seqno, alive>>
      BY <1>16, Zenon DEF NotifyTimeline, proxy, submit, sync, told
    <2>2. spc' = spc /\ (tpc = "exit" => tpc' = "exit")
      BY <1>16, Zenon DEF NotifyTimeline, proxy, submit, sync, told
    <2>. QED BY <1>11, <2>1, <2>2, Zenon
  <1>17. CASE UNCHANGED vars
    <2>1. UNCHANGED <<fences, retired, timeline_seqnos, accepted, requests, sring, sfence,
                    next_seqno, alive>>
      BY <1>17, Zenon DEF vars, proxy, submit, sync, shared, worker, told
    <2>2. spc' = spc /\ (tpc = "exit" => tpc' = "exit")
      BY <1>17, Zenon DEF vars, proxy, submit, sync, shared, worker, told
    <2>. QED BY <1>11, <2>1, <2>2, Zenon
  <1>. QED BY <1>2, <1>3, <1>4, <1>5, <1>6, <1>7, <1>8, <1>9, <1>10, <1>12, <1>13, <1>14, <1>15,
       <1>16, <1>17, Zenon DEF Next, SyncThread, SubmitThread, Worker, Done

\* The action of RetiresSignaled
OnlyFinishedRetire ==
    \A r \in Rings : (alive /\ retired'[r] # retired[r]) =>
        \A f \in Unfinished(r) : retired'[r] < f

LEMMA StepRetiresFinished ==
    ASSUME Inv, WorkerInv, [Next]_vars
    PROVE  OnlyFinishedRetire
  <1>1. SUFFICES ASSUME NEW r \in Rings, alive, retired'[r] # retired[r], NEW f \in Unfinished(r)
                 PROVE  retired'[r] < f
    BY Zenon DEF OnlyFinishedRetire
  <1>2. spc # "recover" /\ \E l \in Nat : FinishedUpTo(r, l) /\ retired'[r] <= l
    BY <1>1, StepWorker, Zenon
  <1>3. PICK l \in Nat : FinishedUpTo(r, l) /\ retired'[r] <= l
    BY <1>2, Zenon
  <1>4. f \in Accepted(r) \cup Requested(r) \/ (spc = "send" /\ sring = r /\ f = sfence)
    BY <1>1, <1>2, Zenon DEF Unfinished, Accepted, Requested
  <1>5. l < f
    BY <1>3, <1>4, Zenon DEF FinishedUpTo
  <1>6. retired'[r] \in Nat /\ f \in Nat
    <2>1. MaskInv'
      BY StepMask, Zenon
    <2>2. retired' \in [Rings -> Nat]
      BY <2>1, Zenon DEF MaskInv, BusyConsistent, TypeOK
    <2>3. Accepted(r) \subseteq Nat /\ Requested(r) \subseteq Nat /\ sfence \in Nat
      BY WorkerTypes, Zenon
    <2>. QED BY <1>4, <2>2, <2>3, Zenon
  <1>. QED BY <1>3, <1>5, <1>6

\* While the worker lives, a fence retires only after the worker has finished
\* it and all that was submitted to its ring before it, however often the
\* 32-bit seqnos of the ring have wrapped (proxy_fence_is_signaled).
THEOREM OnlyFinishedFencesRetire == Spec => RetiresSignaled
  <1>1. Inv /\ WorkerInv /\ [Next]_vars => WorkerInv'
    BY StepWorker, Zenon
  <1>2. Inv /\ WorkerInv /\ [Next]_vars => OnlyFinishedRetire
    BY StepRetiresFinished, Zenon
  <1>3. Spec => [](Inv /\ WorkerInv)
    BY Always, InitWorker, <1>1, PTL DEF Spec
  <1>4. Spec => [][OnlyFinishedRetire]_vars
    BY <1>2, <1>3, PTL DEF Spec
  <1>. QED BY <1>4, PTL DEF RetiresSignaled, OnlyFinishedRetire
=============================================================================
