--------------------------- MODULE VkrQueue_proofs ---------------------------
(***************************************************************************)
(* The queues of a Venus device, for any number of rings, queues, syncs    *)
(* and fences: a ring and its queue name each other until the queue is     *)
(* destroyed, a sync is in one place at a time and is not recycled while   *)
(* it is in flight, and the queues implement FenceTimeline.                *)
(***************************************************************************)
EXTENDS VkrQueue, TLAPS

-----------------------------------------------------------------------------
(***************************************************************************)
(* The inductive invariant                                                 *)
(***************************************************************************)

\* A ring's queue is one that is not destroyed and names the ring, and the
\* other way round.  Before the destruction begins all queues are there.
RingTable ==
    /\ \A r \in Rings : sync_queues[r] # None =>
           sync_queues[r] \in todo /\ ring_idx[sync_queues[r]] = r
    /\ RingsBound
    /\ dpc \in {"idle", "waitidle"} => todo = Queues
    /\ dpc \in {"join", "left"} => dqueue \in todo

\* A submission that is not on its list yet has the next number of its ring.
Submission ==
    /\ spc \in {"submit", "append"} => ssync # None
    /\ spc \in {"idle", "alloc"} => ssync = None
    /\ spc # "idle" => squeue \in Queues /\ ring_idx[squeue] # 0
    /\ spc = "alloc" => newest[ring_idx[squeue]] < MaxFences
    /\ spc \in {"submit", "append"} => ssync.fence = newest[ring_idx[squeue]] + 1

\* Only a queue that is bound to a ring and not destroyed has fences, and a
\* sync thread works on the first of them, until it is joined.
Lists ==
    /\ \A q \in Queues : syncs[q] # <<>> => q \in todo /\ ring_idx[q] # 0
    /\ \A q \in Queues : tpc[q] \in {"wait", "relock"} =>
           syncs[q] # <<>> /\ cur[q] = syncs[q][1]
    /\ dpc = "left" => tpc[dqueue] = "exit"

Tables == TypeOK /\ RingTable /\ Submission /\ Lists /\ SyncInOnePlace

\* The sync of a submission that has reached the driver
Submitted(q) == IF squeue = q /\ spc \in {"append", "undefined"} THEN InHand ELSE {}

\* What is in flight on a queue is on its list or about to be, in flight once
\* and not signaled.  A lost device has nothing in flight, and neither has one
\* that is being destroyed.
DriverInv ==
    /\ lost => \A q \in Queues : in_flight[q] = <<>>
    /\ dpc \in {"fini", "join", "left", "gone"} => \A q \in Queues : in_flight[q] = <<>>
    /\ \A q \in Queues :
           /\ InFlight(q) \subseteq Listed(q) \cup Submitted(q)
           /\ InFlight(q) \cap signaled = {}
           /\ Distinct(in_flight[q])

\* An entry says that the device was lost only if it was, the VkFence of a
\* submission was reset, and a sync thread retires only what is not in flight.
WaitInv ==
    /\ \A q \in Queues : \A e \in Elems(syncs[q]) : e.lost => lost
    /\ ssync # None => (ssync.lost => lost)
    /\ spc = "submit" => ssync.sync \notin signaled
    /\ \A q \in Queues : tpc[q] = "relock" /\ ~timeout[q] => cur[q].sync \notin InFlight(q)

-----------------------------------------------------------------------------
(***************************************************************************)
(* Lists                                                                   *)
(***************************************************************************)

LEMMA FunctionIsList ==
    ASSUME NEW S, NEW n \in Nat, NEW f \in [1..n -> S]
    PROVE  f \in Seq(S) /\ Len(f) = n
  <1>. QED OBVIOUS

LEMMA SameList ==
    ASSUME NEW S, NEW s \in Seq(S), NEW t \in Seq(S), Len(s) = Len(t),
           \A i \in 1 .. Len(s) : s[i] = t[i]
    PROVE  s = t
  <1>. QED OBVIOUS

\* list_addtail
LEMMA AppendElems ==
    ASSUME NEW S, NEW s \in Seq(S), NEW x \in S
    PROVE  /\ Append(s, x) \in Seq(S)
           /\ Elems(Append(s, x)) = Elems(s) \cup {x}
           /\ Distinct(s) /\ x \notin Elems(s) => Distinct(Append(s, x))
  <1>1. /\ Append(s, x) \in Seq(S) /\ Len(s) \in Nat
        /\ DOMAIN s = 1 .. Len(s) /\ DOMAIN Append(s, x) = 1 .. Len(s) + 1
        /\ \A i \in 1 .. Len(s) : Append(s, x)[i] = s[i]
        /\ Append(s, x)[Len(s) + 1] = x
    OBVIOUS
  <1> DEFINE t == Append(s, x)
  <1> HIDE DEF t
  <1>2. Elems(t) = Elems(s) \cup {x}
    BY <1>1 DEF Elems, t
  <1>3. Distinct(s) /\ x \notin Elems(s) => Distinct(t)
    BY <1>1 DEF Elems, Distinct, t
  <1>. QED BY <1>1, <1>2, <1>3, Zenon DEF t

LEMMA AppendFirst ==
    ASSUME NEW S, NEW s \in Seq(S), NEW x \in S
    PROVE  Append(s, x) # <<>> /\ (s # <<>> => Append(s, x)[1] = s[1])
  <1>1. Len(Append(s, x)) = Len(s) + 1 /\ Len(s) \in Nat
    OBVIOUS
  <1>2. Append(s, x) # <<>>
    BY <1>1
  <1>3. s # <<>> => 1 \in 1 .. Len(s)
    OBVIOUS
  <1>4. \A i \in 1 .. Len(s) : Append(s, x)[i] = s[i]
    OBVIOUS
  <1>. QED BY <1>2, <1>3, <1>4, Zenon

\* Removing the first entry of a list
LEMMA TailElems ==
    ASSUME NEW S, NEW s \in Seq(S), s # <<>>
    PROVE  /\ Tail(s) \in Seq(S) /\ Head(s) = s[1] /\ s[1] \in S
           /\ Elems(s) = Elems(Tail(s)) \cup {s[1]}
           /\ Distinct(s) => Distinct(Tail(s)) /\ s[1] \notin Elems(Tail(s))
  <1>1. /\ Tail(s) \in Seq(S) /\ Len(s) \in Nat \ {0} /\ Head(s) = s[1] /\ s[1] \in S
        /\ DOMAIN s = 1 .. Len(s) /\ DOMAIN Tail(s) = 1 .. Len(s) - 1
        /\ \A i \in 1 .. Len(s) - 1 : Tail(s)[i] = s[i + 1]
    OBVIOUS
  <1> DEFINE t == Tail(s)
  <1> HIDE DEF t
  <1>2. /\ \A i \in DOMAIN t : i + 1 \in DOMAIN s /\ t[i] = s[i + 1] /\ i + 1 # 1
        /\ \A i \in DOMAIN s : i # 1 => i - 1 \in DOMAIN t /\ t[i - 1] = s[i]
        /\ 1 \in DOMAIN s
        /\ \A i, j \in DOMAIN t : i + 1 = j + 1 => i = j
    BY <1>1 DEF t
  <1>3. Elems(s) = Elems(t) \cup {s[1]}
    <2>1. ASSUME NEW e \in Elems(s) PROVE e \in Elems(t) \cup {s[1]}
      BY <1>2 DEF Elems
    <2>2. ASSUME NEW e \in Elems(t) \cup {s[1]} PROVE e \in Elems(s)
      BY <1>2 DEF Elems
    <2>. QED BY <2>1, <2>2, Zenon
  <1>4. Distinct(s) => Distinct(t) /\ s[1] \notin Elems(t)
    <2> SUFFICES ASSUME Distinct(s) PROVE Distinct(t) /\ s[1] \notin Elems(t)
      OBVIOUS
    <2>1. Distinct(t)
      BY <1>2 DEF Distinct
    <2>2. \A i \in DOMAIN t : t[i] # s[1]
      BY <1>2 DEF Distinct
    <2>. QED BY <2>1, <2>2, Zenon DEF Elems
  <1>. QED BY <1>1, <1>3, <1>4, Zenon DEF t

\* A list that is added behind another
LEMMA ConcatElems ==
    ASSUME NEW S, NEW s \in Seq(S), NEW t \in Seq(S)
    PROVE  /\ s \o t \in Seq(S)
           /\ Elems(s \o t) = Elems(s) \cup Elems(t)
           /\ Distinct(s) /\ Distinct(t) /\ Elems(s) \cap Elems(t) = {} => Distinct(s \o t)
  <1>1. /\ s \o t \in Seq(S) /\ Len(s) \in Nat /\ Len(t) \in Nat
        /\ DOMAIN s = 1 .. Len(s) /\ DOMAIN t = 1 .. Len(t)
        /\ DOMAIN (s \o t) = 1 .. Len(s) + Len(t)
        /\ \A i \in 1 .. Len(s) : (s \o t)[i] = s[i]
        /\ \A i \in 1 .. Len(s) + Len(t) : i > Len(s) => (s \o t)[i] = t[i - Len(s)]
    OBVIOUS
  <1> DEFINE u == s \o t
             n == Len(s)
  <1> HIDE DEF u, n
  <1>2. /\ \A i \in DOMAIN s : i \in DOMAIN u /\ u[i] = s[i]
        /\ \A i \in DOMAIN t : n + i \in DOMAIN u /\ u[n + i] = t[i]
    BY <1>1 DEF u, n
  <1>3. \A i \in DOMAIN u : \/ i \in DOMAIN s /\ u[i] = s[i]
                            \/ i - n \in DOMAIN t /\ u[i] = t[i - n]
    BY <1>1 DEF u, n
  <1>4. Elems(u) = Elems(s) \cup Elems(t)
    <2>1. ASSUME NEW e \in Elems(u) PROVE e \in Elems(s) \cup Elems(t)
      BY <1>3, Zenon DEF Elems
    <2>2. ASSUME NEW e \in Elems(s) \cup Elems(t) PROVE e \in Elems(u)
      BY <1>2, Zenon DEF Elems
    <2>. QED BY <2>1, <2>2, Zenon
  <1>5. ASSUME Distinct(s), Distinct(t), Elems(s) \cap Elems(t) = {} PROVE Distinct(u)
    <2>1. \A i \in DOMAIN s, j \in DOMAIN t : s[i] # t[j]
      BY <1>5, Zenon DEF Elems
    <2>2. \A i, j \in DOMAIN u : i - n = j - n => i = j
      BY <1>1 DEF u, n
    <2>. QED BY <1>3, <1>5, <2>1, <2>2, Zenon DEF Distinct
  <1>. QED BY <1>1, <1>4, <1>5, Zenon DEF u

\* The syncs and the fences of a list's entries
LEMMA Projections ==
    ASSUME NEW l \in Seq(Entry)
    PROVE  /\ SyncsOf(l) \in Seq(Syncs) /\ Len(SyncsOf(l)) = Len(l)
           /\ FencesOf(l) \in Seq(Nat) /\ Len(FencesOf(l)) = Len(l)
           /\ \A i \in 1 .. Len(l) : /\ l[i] \in Entry
                                     /\ SyncsOf(l)[i] = l[i].sync /\ l[i].sync \in Syncs
                                     /\ FencesOf(l)[i] = l[i].fence /\ l[i].fence \in 1..MaxFences
  <1>1. Len(l) \in Nat /\ \A i \in 1 .. Len(l) : l[i] \in Entry
    OBVIOUS
  <1>2. \A e \in Entry : e.sync \in Syncs /\ e.fence \in 1..MaxFences /\ e.fence \in Nat
    BY QueueConstants DEF Entry
  <1> DEFINE n == Len(l)
  <1> HIDE DEF n
  <1>3. SyncsOf(l) = [i \in 1..n |-> l[i].sync] /\ FencesOf(l) = [i \in 1..n |-> l[i].fence]
    BY Zenon DEF SyncsOf, FencesOf, n
  <1>4. SyncsOf(l) \in [1..n -> Syncs] /\ FencesOf(l) \in [1..n -> Nat]
    BY <1>1, <1>2, <1>3, Zenon DEF n
  <1>5. /\ SyncsOf(l) \in Seq(Syncs) /\ Len(SyncsOf(l)) = n
        /\ FencesOf(l) \in Seq(Nat) /\ Len(FencesOf(l)) = n
    BY <1>1, <1>4, FunctionIsList, Zenon DEF n
  <1>. QED BY <1>1, <1>2, <1>3, <1>5, Zenon DEF n

LEMMA AppendProjections ==
    ASSUME NEW l \in Seq(Entry), NEW e \in Entry
    PROVE  /\ Append(l, e) \in Seq(Entry)
           /\ SyncsOf(Append(l, e)) = Append(SyncsOf(l), e.sync)
           /\ FencesOf(Append(l, e)) = Append(FencesOf(l), e.fence)
  <1>1. /\ Append(l, e) \in Seq(Entry) /\ Len(l) \in Nat /\ Len(Append(l, e)) = Len(l) + 1
        /\ \A i \in 1 .. Len(l) : Append(l, e)[i] = l[i]
        /\ Append(l, e)[Len(l) + 1] = e
    OBVIOUS
  <1>2. e.sync \in Syncs /\ e.fence \in Nat
    BY QueueConstants DEF Entry
  <1> DEFINE m == Append(l, e)
  <1> HIDE DEF m
  <1>3. /\ SyncsOf(m) \in Seq(Syncs) /\ FencesOf(m) \in Seq(Nat)
        /\ Len(SyncsOf(m)) = Len(l) + 1 /\ Len(FencesOf(m)) = Len(l) + 1
        /\ \A i \in 1 .. Len(l) + 1 : SyncsOf(m)[i] = m[i].sync /\ FencesOf(m)[i] = m[i].fence
    BY <1>1, Projections, Zenon DEF m
  <1>4. /\ SyncsOf(l) \in Seq(Syncs) /\ FencesOf(l) \in Seq(Nat)
        /\ Len(SyncsOf(l)) = Len(l) /\ Len(FencesOf(l)) = Len(l)
        /\ \A i \in 1 .. Len(l) : SyncsOf(l)[i] = l[i].sync /\ FencesOf(l)[i] = l[i].fence
    BY Projections, Zenon
  <1>5. \A i \in 1 .. Len(l) + 1 : \/ i \in 1 .. Len(l) /\ m[i] = l[i]
                                   \/ i = Len(l) + 1 /\ m[i] = e
    <2>1. \A i \in 1 .. Len(l) + 1 : i \in 1 .. Len(l) \/ i = Len(l) + 1
      BY <1>1
    <2>2. m[Len(l) + 1] = e /\ \A i \in 1 .. Len(l) : m[i] = l[i]
      BY <1>1, Zenon DEF m
    <2>. QED BY <2>1, <2>2, Zenon
  <1> DEFINE a == SyncsOf(l)
             b == FencesOf(l)
             c == SyncsOf(m)
             d == FencesOf(m)
  <1> HIDE DEF a, b, c, d
  <1>6. c = Append(a, e.sync)
    <2>1. /\ Append(a, e.sync) \in Seq(Syncs) /\ Len(Append(a, e.sync)) = Len(l) + 1
          /\ \A i \in 1 .. Len(l) : Append(a, e.sync)[i] = a[i]
          /\ Append(a, e.sync)[Len(l) + 1] = e.sync
      BY <1>1, <1>2, <1>4 DEF a
    <2>2. \A i \in 1 .. Len(l) + 1 : c[i] = Append(a, e.sync)[i]
      BY <1>3, <1>4, <1>5, <2>1, Zenon DEF a, c
    <2>. QED BY <1>3, <2>1, <2>2, SameList, Zenon DEF c
  <1>7. d = Append(b, e.fence)
    <2>1. /\ Append(b, e.fence) \in Seq(Nat) /\ Len(Append(b, e.fence)) = Len(l) + 1
          /\ \A i \in 1 .. Len(l) : Append(b, e.fence)[i] = b[i]
          /\ Append(b, e.fence)[Len(l) + 1] = e.fence
      BY <1>1, <1>2, <1>4 DEF b
    <2>2. \A i \in 1 .. Len(l) + 1 : d[i] = Append(b, e.fence)[i]
      BY <1>3, <1>4, <1>5, <2>1, Zenon DEF b, d
    <2>. QED BY <1>3, <2>1, <2>2, SameList, ZenonT(40) DEF d
  <1>. QED BY <1>1, <1>6, <1>7, Zenon DEF a, b, c, d, m

\* list_del of the first sync of a queue's list: its entries differ, so the
\* first one is the one found.
LEMMA DelFirst ==
    ASSUME NEW l \in Seq(Entry), l # <<>>, Distinct(SyncsOf(l))
    PROVE  /\ ListDel(l, l[1]) = Tail(l) /\ Tail(l) \in Seq(Entry) /\ l[1] \in Entry
           /\ SyncsOf(Tail(l)) = Tail(SyncsOf(l)) /\ SyncsOf(l)[1] = l[1].sync
           /\ SyncsOf(l) # <<>>
           /\ FencesOf(Tail(l)) = SubSeq(FencesOf(l), 2, Len(FencesOf(l)))
           /\ 1 \in DOMAIN FencesOf(l) /\ FencesOf(l)[1] = l[1].fence
  <1>1. /\ Len(l) \in Nat \ {0} /\ DOMAIN l = 1 .. Len(l) /\ l[1] \in Entry
        /\ Tail(l) \in Seq(Entry) /\ Len(Tail(l)) = Len(l) - 1
        /\ \A i \in 1 .. Len(l) - 1 : Tail(l)[i] = l[i + 1]
    OBVIOUS
  <1>2. /\ SyncsOf(l) \in Seq(Syncs) /\ Len(SyncsOf(l)) = Len(l)
        /\ FencesOf(l) \in Seq(Nat) /\ Len(FencesOf(l)) = Len(l)
        /\ \A i \in 1 .. Len(l) : SyncsOf(l)[i] = l[i].sync /\ FencesOf(l)[i] = l[i].fence
    BY Projections, Zenon
  <1> DEFINE t == Tail(l)
             a == SyncsOf(l)
             b == FencesOf(l)
  <1> HIDE DEF t, a, b
  <1>3. /\ SyncsOf(t) \in Seq(Syncs) /\ Len(SyncsOf(t)) = Len(l) - 1
        /\ FencesOf(t) \in Seq(Nat) /\ Len(FencesOf(t)) = Len(l) - 1
        /\ \A i \in 1 .. Len(l) - 1 : SyncsOf(t)[i] = t[i].sync /\ FencesOf(t)[i] = t[i].fence
    BY <1>1, Projections, Zenon DEF t
  <1>4. \A i \in 1 .. Len(l) - 1 : t[i] = l[i + 1] /\ i + 1 \in 1 .. Len(l)
    BY <1>1 DEF t
  <1>5. /\ 1 \in DOMAIN b /\ a # <<>> /\ 1 \in 1 .. Len(l)
    BY <1>1, <1>2 DEF a, b
  <1>6. ListDel(l, l[1]) = t
    <2>1. \A i \in DOMAIN l : l[i] = l[1] => i = 1
      <3>1. \A i \in 1 .. Len(l) : a[i] = a[1] => i = 1
        BY <1>1, <1>2 DEF Distinct, a
      <3>. QED BY <1>1, <1>2, <3>1 DEF a
    <2> DEFINE k == CHOOSE i \in DOMAIN l : l[i] = l[1]
    <2>2. k = 1
      BY <1>1, <2>1
    <2>3. ListDel(l, l[1]) = SubSeq(l, 1, k - 1) \o SubSeq(l, k + 1, Len(l))
      BY <1>1, <1>5, Zenon DEF ListDel
    <2> HIDE DEF k
    <2>4. SubSeq(l, 1, 0) = <<>> /\ SubSeq(l, 2, Len(l)) = t
      BY <1>1 DEF t
    <2>5. SubSeq(l, 1, k - 1) \o SubSeq(l, k + 1, Len(l)) = <<>> \o t
      BY <2>2, <2>4
    <2>6. t \in Seq(Entry)
      BY <1>1, Zenon DEF t
    <2>7. <<>> \o t = t
      BY <2>6
    <2>. QED BY <2>3, <2>5, <2>7, Zenon
  <1>7. SyncsOf(t) = Tail(a)
    <2>1. /\ Tail(a) \in Seq(Syncs) /\ Len(Tail(a)) = Len(l) - 1
          /\ \A i \in 1 .. Len(l) - 1 : Tail(a)[i] = a[i + 1]
      BY <1>1, <1>2, <1>5 DEF a
    <2>2. \A i \in 1 .. Len(l) - 1 : SyncsOf(t)[i] = Tail(a)[i]
      BY <1>2, <1>3, <1>4, <2>1, Zenon DEF a
    <2>. QED BY <1>3, <2>1, <2>2, SameList, Zenon
  <1>8. FencesOf(t) = SubSeq(b, 2, Len(b))
    <2>1. /\ SubSeq(b, 2, Len(b)) \in Seq(Nat) /\ Len(SubSeq(b, 2, Len(b))) = Len(l) - 1
          /\ \A i \in 1 .. Len(l) - 1 : SubSeq(b, 2, Len(b))[i] = b[i + 1]
      BY <1>1, <1>2 DEF b
    <2>2. \A i \in 1 .. Len(l) - 1 : FencesOf(t)[i] = SubSeq(b, 2, Len(b))[i]
      BY <1>2, <1>3, <1>4, <2>1, Zenon DEF b
    <2>. QED BY <1>3, <2>1, <2>2, SameList, Zenon
  <1>. QED BY <1>1, <1>2, <1>5, <1>6, <1>7, <1>8, Zenon DEF a, b, t

-----------------------------------------------------------------------------
(***************************************************************************)
(* What the steps do to the tables, the lists and the fences               *)
(***************************************************************************)

\* No fence is submitted or retired.
Quiet == UNCHANGED <<newest, pending, retired>>

LEMMA Initially == Init => Tables
  <1> SUFFICES ASSUME Init PROVE Tables
    OBVIOUS
  <1>1. TypeOK
    <2>1. 0 \in 0..MaxFences /\ 0 \in 0..MaxSyncs
      BY QueueConstants
    <2>2. /\ <<>> \in Seq(Syncs) /\ <<>> \in Seq(Entry)
          /\ FALSE \in BOOLEAN /\ "loop" \in {"loop", "cond", "wait", "relock", "exit"}
          /\ "idle" \in {"idle", "alloc", "submit", "append", "undefined"}
          /\ "idle" \in {"idle", "waitidle", "fini", "join", "left", "gone"}
      OBVIOUS
    <2>. QED BY <2>1, <2>2, Zenon DEF Init, TypeOK
  <1>2. RingTable /\ Submission /\ Lists
    BY QueueConstants, Zenon DEF Init, RingTable, RingsBound, Submission, Lists
  <1>3. SyncsOf(<<>>) = <<>> /\ Elems(<<>>) = {} /\ Distinct(<<>>)
    BY DEF SyncsOf, Elems, Distinct
  <1>4. SyncInOnePlace
    <2>1. 1..0 = {}
      OBVIOUS
    <2>. QED BY <1>3, <2>1, Zenon DEF Init, SyncInOnePlace, Free, AllListed, Listed, InHand
  <1>. QED BY <1>1, <1>2, <1>4, Zenon DEF Tables

LEMMA NotNone == None \notin Entry
  <1>1. \A e \in Entry : "sync" \in DOMAIN e
    BY Zenon DEF Entry
  <1>2. "sync" \notin DOMAIN None
    BY DEF None
  <1>. QED BY <1>1, <1>2, Zenon

LEMMA Places ==
    ASSUME SyncInOnePlace, UNCHANGED <<free_syncs, allocated, syncs, ssync>>
    PROVE  SyncInOnePlace'
  <1>. QED BY Zenon DEF SyncInOnePlace, Free, AllListed, Listed, InHand

\* A step that changes no list and binds no ring
LEMMA QuietStep ==
    ASSUME Tables,
           UNCHANGED <<sync_queues, free_syncs, allocated, syncs, ssync, newest, retired>>
    PROVE  SyncInOnePlace' /\ Quiet
  <1>1. SyncInOnePlace'
    BY Places, Zenon DEF Tables
  <1>2. pending' = pending
    BY Zenon DEF pending
  <1>. QED BY <1>1, <1>2, Zenon DEF Quiet

LEMMA GetDeviceQueue2Step ==
    ASSUME Tables, NEW q \in Queues, NEW r \in Rings, GetDeviceQueue2(q, r)
    PROVE  Tables' /\ Quiet
  <1> USE DEF Tables
  <1>1. TypeOK'
    BY Zenon DEF GetDeviceQueue2, TypeOK, queue, thread, submit, disp, driver, client
  <1>2. /\ dpc = "idle" /\ ring_idx[q] = 0 /\ sync_queues[r] = None /\ syncs[q] = <<>>
        /\ ring_idx' = [ring_idx EXCEPT ![q] = r]
        /\ sync_queues' = [sync_queues EXCEPT ![r] = q]
        /\ ring_idx \in [Queues -> Rings \cup {0}]
        /\ sync_queues \in [Rings -> Queues \cup {None}]
        /\ UNCHANGED <<allocated, free_syncs, syncs, tpc, cur, spc, squeue, ssync, dpc, dqueue,
                       todo, newest, retired>>
    BY Zenon DEF GetDeviceQueue2, RingFree, Lists, TypeOK, queue, thread, submit, disp, client
  <1>3. RingTable'
    BY <1>2, QueueConstants DEF RingTable, RingsBound
  <1>4. Submission'
    <2>1. spc # "idle" => squeue # q
      BY <1>2, Zenon DEF Submission
    <2>2. spc # "idle" => ring_idx'[squeue] = ring_idx[squeue]
      BY <1>2, <2>1, Zenon DEF Submission
    <2>. QED BY <1>2, <2>2, Zenon DEF Submission
  <1>5. Lists'
    BY <1>2, QueueConstants, Zenon DEF Lists
  <1>6. SyncInOnePlace'
    BY <1>2, Places, Zenon
  <1>7. pending' = pending
    <2>1. FencesOf(<<>>) = <<>>
      BY DEF FencesOf
    <2>. QED BY <1>2, <2>1, QueueConstants, Zenon DEF pending
  <1>. QED BY <1>1, <1>2, <1>3, <1>4, <1>5, <1>6, <1>7, Zenon DEF Quiet

\* A sync from vkr_device_alloc_queue_sync is nowhere else any more.
LEMMA AllocPlaces ==
    ASSUME Tables, NEW s \in Syncs, AllocSync(s), ssync = None
    PROVE  /\ free_syncs' \in Seq(Syncs) /\ allocated' \in 0..MaxSyncs
           /\ Distinct(free_syncs') /\ s \notin Elems(free_syncs')
           /\ \A q \in Queues : s \notin Listed(q) /\ Listed(q) \cap Elems(free_syncs') = {}
           /\ Elems(free_syncs') \subseteq Free
           /\ s \in Free \/ s \notin 1..allocated
           /\ Elems(free_syncs') \cup {s} \cup AllListed = 1..allocated'
  <1>1. /\ free_syncs \in Seq(Syncs) /\ allocated \in 0..MaxSyncs /\ MaxSyncs \in Nat
        /\ Distinct(free_syncs)
        /\ \A q \in Queues : Listed(q) \cap Free = {}
        /\ Free \cup AllListed = 1..allocated
    BY QueueConstants, Zenon DEF Tables, TypeOK, SyncInOnePlace, InHand
  <1>2. CASE free_syncs = <<>> /\ allocated < MaxSyncs /\ s = allocated + 1 /\ allocated' = s
             /\ UNCHANGED free_syncs
    <2>1. allocated' \in 0..MaxSyncs /\ s \notin 1..allocated /\ 1..allocated' = 1..allocated \cup {s}
      BY <1>1, <1>2
    <2>2. Elems(free_syncs') = Free
      BY <1>2, Zenon DEF Free
    <2>3. s \notin Free /\ \A q \in Queues : s \notin Listed(q)
      BY <1>1, <2>1, Zenon DEF AllListed
    <2>4. Elems(free_syncs') \cup {s} \cup AllListed = 1..allocated'
      BY <1>1, <2>1, <2>2, Zenon
    <2>. QED BY <1>1, <1>2, <2>1, <2>2, <2>3, <2>4, Zenon
  <1>3. CASE free_syncs # <<>> /\ s = Head(free_syncs) /\ free_syncs' = Tail(free_syncs)
             /\ UNCHANGED allocated
    <2>1. /\ free_syncs' \in Seq(Syncs) /\ Distinct(free_syncs') /\ s \notin Elems(free_syncs')
          /\ Free = Elems(free_syncs') \cup {s}
      <3>1. /\ Tail(free_syncs) \in Seq(Syncs) /\ Head(free_syncs) = free_syncs[1]
            /\ Elems(free_syncs) = Elems(Tail(free_syncs)) \cup {free_syncs[1]}
            /\ Distinct(Tail(free_syncs)) /\ free_syncs[1] \notin Elems(Tail(free_syncs))
        BY <1>1, <1>3, TailElems, Zenon
      <3>. QED BY <1>3, <3>1, Zenon DEF Free
    <2>. QED BY <1>1, <1>3, <2>1, Zenon
  <1>. QED BY <1>2, <1>3, Zenon DEF AllocSync

LEMMA SubmitAllocStep ==
    ASSUME Tables, SubmitAlloc
    PROVE  Tables' /\ Quiet
  <1> USE DEF Tables
  <1>1. PICK s \in Syncs :
           /\ AllocSync(s)
           /\ ssync' = [sync |-> s, fence |-> newest[ring_idx[squeue]] + 1, lost |-> FALSE]
           /\ signaled' = signaled \ {s}
    BY Zenon DEF SubmitAlloc
  <1>2. /\ spc = "alloc" /\ spc' = "submit"
        /\ UNCHANGED <<sync_queues, ring_idx, syncs, join, signalled, tpc, cur, timeout, squeue,
                       dpc, dqueue, todo, in_flight, lost, newest, retired, unwaited>>
    BY Zenon DEF SubmitAlloc, queue, thread, disp, client
  <1>3. /\ ssync = None /\ squeue \in Queues /\ ring_idx[squeue] \in Rings
        /\ newest[ring_idx[squeue]] \in Nat /\ newest[ring_idx[squeue]] + 1 \in 1..MaxFences
    <2>1. /\ ssync = None /\ squeue \in Queues /\ ring_idx[squeue] \in Rings
          /\ newest[ring_idx[squeue]] < MaxFences /\ newest[ring_idx[squeue]] \in 0..MaxFences
      BY <1>2, Zenon DEF Submission, TypeOK
    <2>. QED BY <2>1, QueueConstants
  <1>4. /\ ssync' \in Entry /\ ssync' # None /\ ssync'.sync = s
        /\ ssync'.fence = newest[ring_idx[squeue]] + 1
    <2>1. ssync'.sync = s /\ ssync'.fence = newest[ring_idx[squeue]] + 1
      BY <1>1, Zenon
    <2>2. ssync' \in Entry
      BY <1>1, <1>3, Zenon DEF Entry
    <2>. QED BY <2>1, <2>2, NotNone, Zenon
  <1>5. /\ free_syncs' \in Seq(Syncs) /\ allocated' \in 0..MaxSyncs
        /\ Distinct(free_syncs') /\ s \notin Elems(free_syncs')
        /\ \A q \in Queues : s \notin Listed(q) /\ Listed(q) \cap Elems(free_syncs') = {}
        /\ Elems(free_syncs') \cup {s} \cup AllListed = 1..allocated'
    BY <1>1, <1>3, AllocPlaces, Zenon
  <1>6. TypeOK'
    <2>1. signaled' \subseteq Syncs
      BY <1>1, Zenon DEF TypeOK
    <2>. QED BY <1>2, <1>4, <1>5, <2>1, Zenon DEF TypeOK
  <1>7. RingTable'
    BY <1>2, Zenon DEF RingTable, RingsBound
  <1>8. Submission'
    BY <1>2, <1>3, <1>4, Zenon DEF Submission
  <1>9. Lists'
    BY <1>2, Zenon DEF Lists
  <1>10. SyncInOnePlace'
    <2>1. /\ Free' = Elems(free_syncs') /\ InHand' = {s}
          /\ AllListed' = AllListed /\ \A q \in Queues : Listed(q)' = Listed(q)
      BY <1>2, <1>4, Zenon DEF Free, InHand, AllListed, Listed
    <2>2. \A q \in Queues : Distinct(SyncsOf(syncs[q]))'
      BY <1>2, ZenonT(40) DEF SyncInOnePlace, Distinct, SyncsOf
    <2>3. \A q, p \in Queues : q # p => (Listed(q) \cap Listed(p))' = {}
      BY <2>1, Zenon DEF SyncInOnePlace
    <2>4. \A q \in Queues : (Listed(q) \cap (Free \cup InHand))' = {}
      BY <1>5, <2>1, Zenon
    <2>. QED BY <1>5, <2>1, <2>2, <2>3, <2>4, Zenon DEF SyncInOnePlace
  <1>11. pending' = pending
    BY <1>2, Zenon DEF pending
  <1>. QED BY <1>2, <1>6, <1>7, <1>8, <1>9, <1>10, <1>11, Zenon DEF Quiet

LEMMA SubmitQueueStep ==
    ASSUME Tables, SubmitQueue
    PROVE  Tables' /\ Quiet
  <1> USE DEF Tables
  <1>1. /\ spc = "submit" /\ spc' = "append"
        /\ ssync' = [ssync EXCEPT !.lost = lost]
        /\ in_flight' = IF lost THEN in_flight
                        ELSE [in_flight EXCEPT ![squeue] = Append(in_flight[squeue], ssync.sync)]
        /\ unwaited' = (unwaited \/ (~lost /\ dpc \notin {"idle", "waitidle"}))
        /\ UNCHANGED <<sync_queues, ring_idx, allocated, free_syncs, syncs, join, signalled, tpc,
                       cur, timeout, squeue, dpc, dqueue, todo, signaled, lost, newest, retired>>
    BY Zenon DEF SubmitQueue, context, queue, thread, disp, client
  <1>2. /\ ssync # None /\ ssync \in Entry /\ squeue \in Queues /\ ring_idx[squeue] # 0
        /\ ssync.fence = newest[ring_idx[squeue]] + 1 /\ lost \in BOOLEAN
        /\ in_flight \in [Queues -> Seq(Syncs)]
    BY <1>1, Zenon DEF Submission, TypeOK
  <1>3. /\ ssync' \in Entry /\ ssync' # None /\ ssync'.sync = ssync.sync /\ ssync.sync \in Syncs
        /\ ssync'.fence = ssync.fence
    BY <1>1, <1>2, NotNone DEF Entry
  <1>4. in_flight' \in [Queues -> Seq(Syncs)]
    <2>1. Append(in_flight[squeue], ssync.sync) \in Seq(Syncs)
      <3>1. in_flight[squeue] \in Seq(Syncs)
        BY <1>2, Zenon
      <3>. QED BY <1>3, <3>1, AppendElems, Zenon
    <2>. QED BY <1>1, <1>2, <2>1, Zenon
  <1>5. TypeOK'
    <2>1. unwaited' \in BOOLEAN
      BY <1>1, Zenon
    <2>. QED BY <1>1, <1>3, <1>4, <2>1, Zenon DEF TypeOK
  <1>6. RingTable' /\ Submission' /\ Lists'
    BY <1>1, <1>2, <1>3, Zenon DEF RingTable, RingsBound, Submission, Lists
  <1>7. SyncInOnePlace'
    <2>1. /\ Free' = Free /\ InHand' = InHand
          /\ AllListed' = AllListed /\ \A q \in Queues : Listed(q)' = Listed(q)
      BY <1>1, <1>2, <1>3, Zenon DEF Free, InHand, AllListed, Listed
    <2>2. \A q \in Queues : Distinct(SyncsOf(syncs[q]))'
      BY <1>1, ZenonT(40) DEF SyncInOnePlace, Distinct, SyncsOf
    <2>. QED BY <1>1, <2>1, <2>2, Zenon DEF SyncInOnePlace, Distinct
  <1>8. pending' = pending
    BY <1>1, Zenon DEF pending
  <1>. QED BY <1>1, <1>5, <1>6, <1>7, <1>8, Zenon DEF Quiet

LEMMA SubmitQueueFailsStep ==
    ASSUME Tables, SubmitQueueFails
    PROVE  Tables' /\ Quiet
  <1> USE DEF Tables
  <1>1. /\ spc = "submit" /\ spc' = "idle" /\ squeue' = None /\ ssync' = None
        /\ free_syncs' = Append(free_syncs, ssync.sync)
        /\ UNCHANGED <<sync_queues, ring_idx, allocated, syncs, join, signalled, tpc, cur, timeout,
                       dpc, dqueue, todo, in_flight, signaled, lost, newest, retired, unwaited>>
    BY Zenon DEF SubmitQueueFails, FreeSync, context, queue, thread, disp, driver, client
  <1>2. ssync # None /\ ssync \in Entry /\ free_syncs \in Seq(Syncs) /\ InHand = {ssync.sync}
    BY <1>1, Zenon DEF Submission, TypeOK, InHand
  <1>3. ssync.sync \in Syncs
    BY <1>2, Zenon DEF Entry
  <1>4. /\ Distinct(free_syncs) /\ ssync.sync \notin Elems(free_syncs)
        /\ \A q \in Queues : Listed(q) \cap (Free \cup InHand) = {}
        /\ Free \cup InHand \cup AllListed = 1..allocated
    BY <1>2, Zenon DEF SyncInOnePlace, Free
  <1>5. /\ free_syncs' \in Seq(Syncs) /\ Distinct(free_syncs')
        /\ Elems(free_syncs') = Free \cup InHand
    <2> DEFINE x == ssync.sync
    <2>1. x \in Syncs /\ x \notin Elems(free_syncs) /\ free_syncs' = Append(free_syncs, x) /\ InHand = {x}
      BY <1>1, <1>2, <1>3, <1>4, Zenon
    <2> HIDE DEF x
    <2>2. /\ Append(free_syncs, x) \in Seq(Syncs)
          /\ Elems(Append(free_syncs, x)) = Elems(free_syncs) \cup {x}
          /\ Distinct(Append(free_syncs, x))
      BY <1>2, <1>4, <2>1, AppendElems
    <2>. QED BY <2>1, <2>2, Zenon DEF Free
  <1>6. TypeOK'
    BY <1>1, <1>5, Zenon DEF TypeOK
  <1>7. RingTable' /\ Submission' /\ Lists'
    BY <1>1, Zenon DEF RingTable, RingsBound, Submission, Lists
  <1>8. SyncInOnePlace'
    <2>1. /\ Free' = Free \cup InHand /\ InHand' = {}
          /\ AllListed' = AllListed /\ \A q \in Queues : Listed(q)' = Listed(q)
      BY <1>1, <1>5, Zenon DEF Free, InHand, AllListed, Listed
    <2>2. \A q \in Queues : Distinct(SyncsOf(syncs[q]))'
      BY <1>1, ZenonT(40) DEF SyncInOnePlace, Distinct, SyncsOf
    <2>3. \A q, p \in Queues : q # p => (Listed(q) \cap Listed(p))' = {}
      BY <2>1, Zenon DEF SyncInOnePlace
    <2>. QED BY <1>1, <1>4, <1>5, <2>1, <2>2, <2>3, Zenon DEF SyncInOnePlace
  <1>9. pending' = pending
    BY <1>1, Zenon DEF pending
  <1>. QED BY <1>1, <1>6, <1>7, <1>8, <1>9, Zenon DEF Quiet

\* The list of queue q, which is bound to ring r, becomes l.
LEMMA PendingOf ==
    ASSUME Tables, NEW q \in Queues, NEW r \in Rings, sync_queues[r] = q, NEW l,
           syncs' = [syncs EXCEPT ![q] = l], UNCHANGED sync_queues
    PROVE  /\ pending[r] = FencesOf(syncs[q])
           /\ pending' = [pending EXCEPT ![r] = FencesOf(l)]
  <1>1. /\ syncs'[q] = l /\ \A p \in Queues : p # q => syncs'[p] = syncs[p]
        /\ q # None /\ \A p \in Rings : p # r => sync_queues[p] # q
        /\ \A p \in Rings : sync_queues[p] # None => sync_queues[p] \in Queues
    <2>1. syncs \in [Queues -> Seq(Entry)] /\ sync_queues \in [Rings -> Queues \cup {None}]
      BY Zenon DEF Tables, TypeOK
    <2>2. q # None /\ \A p \in Rings : p # r => sync_queues[p] # q
      BY QueueConstants, Zenon DEF Tables, RingTable
    <2>. QED BY <2>1, <2>2, Zenon
  <1>2. pending[r] = FencesOf(syncs[q])
    BY <1>1, Zenon DEF pending
  <1>3. pending' = [p \in Rings |-> IF p = r THEN FencesOf(l) ELSE pending[p]]
    BY <1>1 DEF pending
  <1>4. pending = [p \in Rings |-> pending[p]]
    BY Zenon DEF pending
  <1>. QED BY <1>2, <1>3, <1>4, Zenon

LEMMA SubmitAppendStep ==
    ASSUME Tables, SubmitAppend
    PROVE  Tables' /\ \E r \in Rings : Fences!Submit(r)
  <1> USE DEF Tables
  <1>1. /\ spc = "append" /\ squeue \in Queues /\ ssync # None /\ ssync \in Entry
        /\ squeue \in todo /\ ring_idx[squeue] \in Rings
        /\ sync_queues[ring_idx[squeue]] = squeue
        /\ ssync.fence = newest[ring_idx[squeue]] + 1
        /\ ~(dpc = "left" /\ dqueue = squeue)
    BY Zenon DEF SubmitAppend, QueueThere, Submission, TypeOK, RingTable, RingsBound
  <1>2. PICK q \in Queues, r \in Rings : q = squeue /\ r = ring_idx[q]
    BY <1>1, Zenon
  <1>3. /\ syncs' = [syncs EXCEPT ![q] = Append(syncs[q], ssync)]
        /\ newest' = [newest EXCEPT ![r] = newest[r] + 1]
        /\ spc' = "idle" /\ squeue' = None /\ ssync' = None
        /\ UNCHANGED <<sync_queues, ring_idx, allocated, free_syncs, join, tpc, cur, timeout,
                       dpc, dqueue, todo, unwaited, in_flight, signaled, lost, retired>>
        /\ CndSignal(q)
    BY <1>2, Zenon DEF SubmitAppend, context, thread, disp, driver
  <1>4. /\ syncs[q] \in Seq(Entry) /\ syncs \in [Queues -> Seq(Entry)]
        /\ Append(syncs[q], ssync) \in Seq(Entry)
        /\ SyncsOf(Append(syncs[q], ssync)) = Append(SyncsOf(syncs[q]), ssync.sync)
        /\ FencesOf(Append(syncs[q], ssync)) = Append(FencesOf(syncs[q]), newest[r] + 1)
    <2>1. syncs \in [Queues -> Seq(Entry)]
      BY Zenon DEF TypeOK
    <2>. QED BY <1>1, <1>2, <2>1, AppendProjections, Zenon
  <1>5. TypeOK'
    <2>1. newest' \in [Rings -> 0..MaxFences]
      <3>1. ssync.fence \in 0..MaxFences
        BY <1>1 DEF Entry
      <3>. QED BY <1>1, <1>2, <1>3, <3>1, Zenon DEF TypeOK
    <2>2. syncs' \in [Queues -> Seq(Entry)] /\ signalled' \in [Queues -> BOOLEAN]
      BY <1>3, <1>4, Zenon DEF TypeOK, CndSignal
    <2>. QED BY <1>3, <2>1, <2>2, Zenon DEF TypeOK
  <1>6. RingTable'
    BY <1>1, <1>3, Zenon DEF RingTable, RingsBound
  <1>7. Submission'
    BY <1>3, Zenon DEF Submission
  <1>8. Lists'
    <2>1. /\ syncs'[q] = Append(syncs[q], ssync) /\ Append(syncs[q], ssync) # <<>>
          /\ syncs[q] # <<>> => Append(syncs[q], ssync)[1] = syncs[q][1]
      <3>1. syncs'[q] = Append(syncs[q], ssync)
        BY <1>3, <1>4, Zenon
      <3>. QED BY <1>1, <1>4, <3>1, AppendFirst, Zenon
    <2>2. \A p \in Queues : p # q => syncs'[p] = syncs[p]
      BY <1>3, <1>4, Zenon
    <2>. QED BY <1>1, <1>2, <1>3, <2>1, <2>2, QueueConstants, Zenon DEF Lists
  <1>9. SyncInOnePlace'
    <2> DEFINE a == SyncsOf(syncs[q])
    <2>1. /\ a \in Seq(Syncs) /\ ssync.sync \in Syncs /\ InHand = {ssync.sync}
          /\ Distinct(a) /\ Listed(q) = Elems(a)
      BY <1>1, <1>4, Projections, Zenon DEF InHand, Entry, Listed, SyncInOnePlace
    <2>2. ssync.sync \notin Elems(a)
      BY <2>1, Zenon DEF SyncInOnePlace
    <2>3. SyncsOf(syncs'[q]) = Append(a, ssync.sync)
      BY <1>3, <1>4, Zenon
    <2> HIDE DEF a
    <2>4. Distinct(SyncsOf(syncs'[q])) /\ Listed(q)' = Listed(q) \cup InHand
      BY <2>1, <2>2, <2>3, AppendElems DEF Listed
    <2>5. Free' = Free /\ InHand' = {}
      BY <1>3, Zenon DEF Free, InHand
    <2>6. \A p \in Queues : p # q => SyncsOf(syncs'[p]) = SyncsOf(syncs[p]) /\ Listed(p)' = Listed(p)
      BY <1>3, <1>4, Zenon DEF Listed
    <2>7. \A p \in Queues : Distinct(SyncsOf(syncs[p]))'
      BY <2>4, <2>6, Zenon DEF SyncInOnePlace, Distinct
    <2>8. AllListed' = AllListed \cup InHand
      <3>1. \A p \in Queues : Listed(p)' \subseteq Listed(p) \cup InHand /\ Listed(p) \subseteq Listed(p)'
        BY <2>4, <2>6, Zenon
      <3>2. InHand \subseteq Listed(q)'
        BY <2>4, Zenon
      <3>3. /\ \A x : x \in AllListed <=> \E p \in Queues : x \in Listed(p)
            /\ \A x : x \in AllListed' <=> \E p \in Queues : x \in Listed(p)'
        BY Zenon DEF AllListed
      <3>. QED BY <3>1, <3>2, <3>3, Zenon
    <2>9. \A x, y \in Queues : x # y => (Listed(x) \cap Listed(y))' = {}
      BY <2>4, <2>6 DEF SyncInOnePlace
    <2>10. \A p \in Queues : (Listed(p) \cap (Free \cup InHand))' = {}
      BY <2>4, <2>5, <2>6 DEF SyncInOnePlace
    <2>11. (Free \cup InHand \cup AllListed = 1..allocated)'
      BY <1>3, <2>5, <2>8, Zenon DEF SyncInOnePlace
    <2>12. (Distinct(free_syncs) /\ Free \cap InHand = {})'
      BY <1>3, <2>5, Zenon DEF SyncInOnePlace, Distinct
    <2>. QED BY <2>7, <2>9, <2>10, <2>11, <2>12, Zenon DEF SyncInOnePlace
  <1>10. Fences!Submit(r)
    <2>1. /\ pending[r] = FencesOf(syncs[q])
          /\ pending' = [pending EXCEPT ![r] = FencesOf(Append(syncs[q], ssync))]
      <3> DEFINE l == Append(syncs[q], ssync)
      <3>1. /\ sync_queues[r] = q /\ UNCHANGED sync_queues
            /\ syncs' = [syncs EXCEPT ![q] = l]
        BY <1>1, <1>2, <1>3, Zenon
      <3> HIDE DEF l, Tables
      <3>2. pending[r] = FencesOf(syncs[q]) /\ pending' = [pending EXCEPT ![r] = FencesOf(l)]
        BY <3>1, PendingOf, Zenon
      <3>. QED BY <3>2, Zenon DEF l
    <2>. QED BY <1>3, <1>4, <2>1, Zenon DEF Fences!Submit
  <1>. QED BY <1>5, <1>6, <1>7, <1>8, <1>9, <1>10, Zenon

\* The syncs F of queue q become free, l is left on its list.
LEMMA ReleasePlaces ==
    ASSUME Tables, NEW q \in Queues, NEW l \in Seq(Entry), NEW F,
           syncs' = [syncs EXCEPT ![q] = l], UNCHANGED <<ssync, allocated>>,
           Distinct(free_syncs'), Elems(free_syncs') = Free \cup F,
           Distinct(SyncsOf(l)), Listed(q) = Elems(SyncsOf(l)) \cup F,
           F \cap Elems(SyncsOf(l)) = {}
    PROVE  SyncInOnePlace'
  <1>1. /\ syncs'[q] = l /\ \A p \in Queues : p # q => syncs'[p] = syncs[p]
    <2>1. syncs \in [Queues -> Seq(Entry)]
      BY Zenon DEF Tables, TypeOK
    <2>. QED BY <2>1, Zenon
  <1>2. /\ Free' = Free \cup F /\ InHand' = InHand /\ Listed(q) = Listed(q)' \cup F
        /\ F \cap Listed(q)' = {}
        /\ \A p \in Queues : p # q => Listed(p)' = Listed(p)
    BY <1>1, Zenon DEF Free, InHand, Listed
  <1>3. SyncInOnePlace
    BY Zenon DEF Tables
  <1>4. \A p \in Queues : Distinct(SyncsOf(syncs[p]))'
    <2>1. \A p \in Queues : Distinct(SyncsOf(syncs'[p]))
      BY <1>1, <1>3, Zenon DEF SyncInOnePlace
    <2>. QED BY <2>1, Zenon DEF Distinct, SyncsOf
  <1>5. \A x, y \in Queues : x # y => (Listed(x) \cap Listed(y))' = {}
    BY <1>2, <1>3 DEF SyncInOnePlace
  <1>6. \A p \in Queues : (Listed(p) \cap (Free \cup InHand))' = {}
    BY <1>2, <1>3 DEF SyncInOnePlace
  <1>7. (Free \cap InHand = {})'
    BY <1>2, <1>3, Zenon DEF SyncInOnePlace
  <1>8. AllListed = AllListed' \cup F
    <2>1. /\ \A x : x \in AllListed <=> \E p \in Queues : x \in Listed(p)
          /\ \A x : x \in AllListed' <=> \E p \in Queues : x \in Listed(p)'
      BY Zenon DEF AllListed
    <2>. QED BY <1>2, <2>1
  <1>9. (Free \cup InHand \cup AllListed = 1..allocated)'
    BY <1>2, <1>3, <1>8, Zenon DEF SyncInOnePlace
  <1>. QED BY <1>4, <1>5, <1>6, <1>7, <1>9, Zenon DEF SyncInOnePlace

LEMMA ThreadRelockStep ==
    ASSUME Tables, NEW q \in Queues, ThreadRelock(q)
    PROVE  Tables' /\ (Quiet \/ \E r \in Rings : Fences!Retire(r))
  <1> USE DEF Tables
  <1>1. /\ tpc[q] = "relock" /\ tpc' = [tpc EXCEPT ![q] = "loop"]
        /\ cur' = [cur EXCEPT ![q] = None] /\ timeout' = [timeout EXCEPT ![q] = FALSE]
        /\ UNCHANGED <<sync_queues, ring_idx, allocated, join, signalled, spc, squeue, ssync, dpc,
                       dqueue, todo, in_flight, signaled, lost, newest, unwaited>>
    BY Zenon DEF ThreadRelock, context, submit, disp, driver
  <1>2. /\ tpc \in [Queues -> {"loop", "cond", "wait", "relock", "exit"}]
        /\ syncs \in [Queues -> Seq(Entry)] /\ free_syncs \in Seq(Syncs)
        /\ cur \in [Queues -> Entry \cup {None}] /\ timeout \in [Queues -> BOOLEAN]
    BY Zenon DEF TypeOK
  <1>3. RingTable' /\ Submission'
    BY <1>1, Zenon DEF RingTable, RingsBound, Submission
  <1>3a. /\ tpc'[q] = "loop"
         /\ \A p \in Queues : p # q => tpc'[p] = tpc[p] /\ cur'[p] = cur[p]
         /\ dpc' = "left" => tpc'[dqueue'] = "exit"
    <2>1. /\ tpc'[q] = "loop"
          /\ \A p \in Queues : p # q => tpc'[p] = tpc[p] /\ cur'[p] = cur[p]
      BY <1>1, <1>2, Zenon
    <2>2. dpc = "left" => dqueue \in Queues /\ dqueue # q /\ tpc[dqueue] = "exit"
      BY <1>1, Zenon DEF RingTable, Lists, TypeOK
    <2>. QED BY <1>1, <2>1, <2>2, Zenon
  <1>4. CASE UNCHANGED <<syncs, retired, free_syncs>>
    <2>1. TypeOK'
      BY <1>1, <1>2, <1>4, Zenon DEF TypeOK
    <2>2. Lists'
      BY <1>1, <1>2, <1>3a, <1>4, Zenon DEF Lists
    <2>. QED BY <1>1, <1>3, <1>4, <2>1, <2>2, QuietStep, Zenon
  <1>5. CASE /\ syncs' = [syncs EXCEPT ![q] = ListDel(syncs[q], cur[q])]
             /\ retired' = [retired EXCEPT ![ring_idx[q]] = cur[q].fence]
             /\ free_syncs' = Append(free_syncs, cur[q].sync)
    <2>1. /\ syncs[q] \in Seq(Entry) /\ syncs[q] # <<>> /\ cur[q] = syncs[q][1]
          /\ q \in todo /\ ring_idx[q] # 0 /\ ring_idx[q] \in Rings
          /\ Distinct(SyncsOf(syncs[q]))
      BY <1>1, <1>2, Zenon DEF Lists, TypeOK, SyncInOnePlace
    <2>2. PICK r \in Rings : r = ring_idx[q] /\ sync_queues[r] = q
      BY <2>1, Zenon DEF RingTable, RingsBound
    <2> DEFINE l == Tail(syncs[q])
               x == syncs[q][1].sync
               a == SyncsOf(syncs[q])
               b == FencesOf(syncs[q])
    <2>3. /\ ListDel(syncs[q], cur[q]) = l /\ l \in Seq(Entry) /\ cur[q] \in Entry
          /\ SyncsOf(l) = Tail(a) /\ a[1] = x /\ a # <<>> /\ cur[q].sync = x
          /\ FencesOf(l) = SubSeq(b, 2, Len(b)) /\ 1 \in DOMAIN b /\ b[1] = cur[q].fence
      BY <2>1, DelFirst, Zenon
    <2>4. a \in Seq(Syncs)
      BY <2>1, Projections, Zenon
    <2>5. Distinct(a) /\ Listed(q) = Elems(a)
      BY <2>1, Zenon DEF Listed
    <2> HIDE DEF l, x, a, b
    <2>6. /\ x \in Syncs /\ Elems(a) = Elems(SyncsOf(l)) \cup {x}
          /\ Distinct(SyncsOf(l)) /\ x \notin Elems(SyncsOf(l))
      BY <2>3, <2>4, <2>5, TailElems
    <2>7. x \notin Free
      BY <2>5, <2>6, Zenon DEF SyncInOnePlace
    <2>8. /\ free_syncs' \in Seq(Syncs) /\ Distinct(free_syncs')
          /\ Elems(free_syncs') = Free \cup {x}
      BY <1>2, <1>5, <2>3, <2>6, <2>7, AppendElems, SMTT(20) DEF Free, SyncInOnePlace
    <2>9. syncs' = [syncs EXCEPT ![q] = l] /\ retired' = [retired EXCEPT ![r] = b[1]]
      BY <1>5, <2>2, <2>3, Zenon
    <2>10. TypeOK'
      <3>1. retired' \in [Rings -> 0..MaxFences]
        <4>1. cur[q].fence \in 0..MaxFences
          BY <2>3 DEF Entry
        <4>. QED BY <2>3, <2>9, <4>1, Zenon DEF TypeOK
      <3>2. syncs' \in [Queues -> Seq(Entry)]
        BY <1>2, <2>3, <2>9, Zenon
      <3>. QED BY <1>1, <1>2, <2>8, <3>1, <3>2, Zenon DEF TypeOK
    <2>11. Lists'
      BY <1>1, <1>2, <1>3a, <2>1, <2>9, Zenon DEF Lists
    <2>12. SyncInOnePlace'
      <3>1. {x} \cap Elems(SyncsOf(l)) = {}
        BY <2>6, Zenon
      <3>. QED BY <1>1, <2>3, <2>5, <2>6, <2>8, <2>9, <3>1, ReleasePlaces, Zenon
    <2>13. Fences!Retire(r)
      <3>1. pending[r] = b /\ pending' = [pending EXCEPT ![r] = FencesOf(l)]
        <4>1. sync_queues[r] = q /\ UNCHANGED sync_queues /\ syncs' = [syncs EXCEPT ![q] = l]
          BY <1>1, <2>2, <2>9, Zenon
        <4> HIDE DEF Tables
        <4>. QED BY <4>1, PendingOf, Zenon DEF b
      <3>2. pending' = [pending EXCEPT ![r] = SubSeq(b, 1 + 1, Len(b))]
        BY <2>3, <3>1
      <3>. QED BY <1>1, <2>3, <2>9, <3>1, <3>2, Zenon DEF Fences!Retire
    <2>. QED BY <1>3, <2>10, <2>11, <2>12, <2>13, Zenon
  <1>. QED BY <1>4, <1>5, Zenon DEF ThreadRelock, FreeSync

LEMMA QueueDestroyStep ==
    ASSUME Tables, QueueDestroy
    PROVE  Tables' /\ (Quiet \/ \E r \in Rings : Fences!Retire(r))
  <1> USE DEF Tables
  <1>1. PICK q \in Queues : q = dqueue
    BY Zenon DEF QueueDestroy, RingTable, TypeOK
  <1>2. /\ dpc = "left" /\ tpc[q] = "exit" /\ q \in todo
        /\ todo' = todo \ {q} /\ dqueue' = None /\ dpc' \in {"gone", "fini"}
        /\ sync_queues' = IF ring_idx[q] = 0 THEN sync_queues
                          ELSE [sync_queues EXCEPT ![ring_idx[q]] = None]
        /\ UNCHANGED <<ring_idx, allocated, join, signalled, tpc, cur, timeout, spc, squeue, ssync,
                       in_flight, signaled, lost, newest, unwaited>>
    BY <1>1, Zenon DEF QueueDestroy, RingTable, Lists, thread, submit, driver
  <1>3. /\ retired' = IF syncs[q] = <<>> THEN retired
                      ELSE [retired EXCEPT ![ring_idx[q]] = syncs[q][Len(syncs[q])].fence]
        /\ free_syncs' = free_syncs \o SyncsOf(syncs[q])
        /\ syncs' = [syncs EXCEPT ![q] = <<>>]
    BY <1>1, Zenon DEF QueueDestroy, RetireLeft
  <1>4. /\ syncs \in [Queues -> Seq(Entry)] /\ free_syncs \in Seq(Syncs) /\ syncs[q] \in Seq(Entry)
        /\ sync_queues \in [Rings -> Queues \cup {None}] /\ ring_idx \in [Queues -> Rings \cup {0}]
        /\ <<>> \in Seq(Entry)
    BY DEF TypeOK
  <1> DEFINE a == SyncsOf(syncs[q])
             b == FencesOf(syncs[q])
             n == Len(syncs[q])
  <1>5. /\ a \in Seq(Syncs) /\ Distinct(a) /\ Listed(q) = Elems(a)
        /\ b \in Seq(Nat) /\ Len(b) = n
        /\ \A i \in 1 .. n : b[i] = syncs[q][i].fence /\ syncs[q][i].fence \in 1..MaxFences
    BY <1>4, Projections, Zenon DEF Listed, SyncInOnePlace
  <1>6. syncs[q] # <<>> => n \in 1 .. n /\ ring_idx[q] # 0 /\ ring_idx[q] \in Rings
    BY <1>4 DEF Lists
  <1> HIDE DEF a, b, n
  <1>7. TypeOK'
    <2>1. retired' \in [Rings -> 0..MaxFences]
      <3>1. \A f \in 1..MaxFences : f \in 0..MaxFences
        OBVIOUS
      <3>. QED BY <1>3, <1>5, <1>6, <3>1, Zenon DEF TypeOK, n
    <2>2. free_syncs' \in Seq(Syncs)
      BY <1>3, <1>4, <1>5, ConcatElems, Zenon DEF a
    <2>3. sync_queues' \in [Rings -> Queues \cup {None}] /\ syncs' \in [Queues -> Seq(Entry)]
      BY <1>2, <1>3, <1>4, Zenon
    <2>. QED BY <1>2, <2>1, <2>2, <2>3, Zenon DEF TypeOK
  <1>8. RingTable'
    <2>1. \A p \in Rings : sync_queues'[p] # None => sync_queues'[p] = sync_queues[p] /\ sync_queues[p] # q
      <3>1. CASE ring_idx[q] = 0
        BY <1>2, <3>1, QueueConstants, Zenon DEF RingTable
      <3>2. CASE ring_idx[q] # 0
        BY <1>2, <1>4, <3>2, Zenon DEF RingTable
      <3>. QED BY <3>1, <3>2, Zenon
    <2>2. \A p \in todo' : ring_idx[p] # 0 => sync_queues'[ring_idx[p]] = p
      <3>1. \A p \in todo' : ring_idx[p] # 0 => ring_idx[p] \in Rings /\ sync_queues[ring_idx[p]] = p /\ p # q
        BY <1>2, <1>4, Zenon DEF RingTable, RingsBound, TypeOK
      <3>2. \A p \in todo' : ring_idx[p] # 0 => ring_idx[p] # ring_idx[q]
        BY <1>2, <3>1, Zenon DEF RingTable, RingsBound
      <3>. QED BY <1>2, <1>4, <3>1, <3>2, Zenon
    <2>. QED BY <1>2, <2>1, <2>2 DEF RingTable, RingsBound
  <1>9. Submission'
    BY <1>2, Zenon DEF Submission
  <1>10. Lists'
    BY <1>2, <1>3, <1>4, Zenon DEF Lists
  <1>11. SyncInOnePlace'
    <2>1. SyncsOf(<<>>) = <<>> /\ Elems(<<>>) = {} /\ Distinct(<<>>)
      BY DEF SyncsOf, Elems, Distinct
    <2>2. Distinct(free_syncs') /\ Elems(free_syncs') = Free \cup Elems(a)
      <3>1. Elems(free_syncs) \cap Elems(a) = {} /\ Distinct(free_syncs)
        BY <1>5, Zenon DEF SyncInOnePlace, Free
      <3>2. free_syncs' = free_syncs \o a
        BY <1>3, Zenon DEF a
      <3>. QED BY <1>4, <1>5, <3>1, <3>2, ConcatElems DEF Free
    <2>3. /\ Distinct(SyncsOf(<<>>)) /\ Listed(q) = Elems(SyncsOf(<<>>)) \cup Elems(a)
          /\ Elems(a) \cap Elems(SyncsOf(<<>>)) = {}
      BY <1>5, <2>1, Zenon
    <2>. QED BY <1>2, <1>3, <1>4, <2>2, <2>3, ReleasePlaces, Zenon
  <1>12. CASE ring_idx[q] = 0
    <2>1. syncs[q] = <<>> /\ retired' = retired /\ sync_queues' = sync_queues
      BY <1>2, <1>3, <1>6, <1>12, Zenon
    <2>2. syncs' = syncs
      BY <1>3, <1>4, <2>1, Zenon
    <2>3. pending' = pending
      BY <2>1, <2>2, Zenon DEF pending
    <2>. QED BY <1>2, <1>7, <1>8, <1>9, <1>10, <1>11, <2>1, <2>3, Zenon DEF Quiet
  <1>13. CASE ring_idx[q] # 0
    <2>1. PICK r \in Rings : r = ring_idx[q] /\ sync_queues[r] = q
      BY <1>2, <1>4, <1>13, Zenon DEF RingTable, RingsBound
    <2>2. pending[r] = b /\ pending' = [pending EXCEPT ![r] = <<>>]
      <3>1. /\ sync_queues'[r] = None /\ \A p \in Rings : p # r => sync_queues'[p] = sync_queues[p]
            /\ \A p \in Rings : p # r => sync_queues[p] # q
            /\ \A p \in Queues : p # q => syncs'[p] = syncs[p]
            /\ q # None
            /\ \A p \in Rings : sync_queues[p] # None => sync_queues[p] \in Queues
        BY <1>2, <1>3, <1>4, <1>13, <2>1, QueueConstants, Zenon DEF RingTable
      <3>2. pending' = [p \in Rings |-> IF p = r THEN <<>> ELSE pending[p]]
        BY <3>1, Zenon DEF pending
      <3>3. pending = [p \in Rings |-> pending[p]]
        BY Zenon DEF pending
      <3>4. pending[r] = b
        BY <2>1, <3>1, Zenon DEF pending, b
      <3>. QED BY <3>2, <3>3, <3>4, Zenon
    <2>3. CASE syncs[q] = <<>>
      <3>1. b = <<>>
        BY <2>3 DEF b, FencesOf
      <3>2. pending' = pending
        <4>1. pending = [p \in Rings |-> pending[p]]
          BY Zenon DEF pending
        <4>. QED BY <2>2, <3>1, <4>1, Zenon
      <3>. QED BY <1>2, <1>3, <1>7, <1>8, <1>9, <1>10, <1>11, <2>3, <3>2, Zenon DEF Quiet
    <2>4. CASE syncs[q] # <<>>
      <3>1. n \in DOMAIN b /\ b[n] = syncs[q][n].fence
        BY <1>5, <1>6, <2>4
      <3>2. SubSeq(b, n + 1, Len(b)) = <<>>
        BY <1>5, <3>1
      <3>3. retired' = [retired EXCEPT ![r] = b[n]]
        BY <1>3, <2>1, <2>4, <3>1, Zenon DEF n
      <3>4. Fences!Retire(r)
        BY <1>2, <2>2, <3>1, <3>2, <3>3, Zenon DEF Fences!Retire
      <3>. QED BY <1>7, <1>8, <1>9, <1>10, <1>11, <3>4, Zenon
    <2>. QED BY <2>3, <2>4, Zenon
  <1>. QED BY <1>12, <1>13, Zenon

LEMMA OtherStep ==
    ASSUME Tables,
           \/ SubmitAllocFails \/ UseDestroyed \/ \E r \in Rings : SubmitFence(r)
           \/ DestroyDevice \/ DeviceWaitIdle \/ DeviceWaitIdleFails \/ ThreadJoined
           \/ DeviceLost \/ UNCHANGED vars
           \/ \E q \in Queues : \/ ThreadFini(q) \/ ThreadLoop(q) \/ ThreadWake(q)
                                \/ ThreadWait(q) \/ ThreadWaitFails(q) \/ GpuSignal(q)
    PROVE  Tables' /\ Quiet
  <1> USE DEF Tables
  <1>1. UNCHANGED <<sync_queues, ring_idx, free_syncs, allocated, syncs, ssync, todo, newest, retired>>
    BY Zenon DEF SubmitAllocFails, UseDestroyed, SubmitFence, DestroyDevice, DeviceWaitIdle,
         DeviceWaitIdleFails, ThreadJoined, DeviceLost, ThreadFini, ThreadLoop, ThreadWake,
         ThreadWait, ThreadWaitFails, GpuSignal, vars, context, queue, thread, submit, disp, client
  <1>2. SyncInOnePlace' /\ Quiet
    BY <1>1, QuietStep, Zenon
  <1>3. \A q \in Queues : syncs[q] \in Seq(Entry) /\ in_flight[q] \in Seq(Syncs)
    BY Zenon DEF TypeOK
  <1>4. CASE DestroyDevice \/ DeviceWaitIdle \/ DeviceWaitIdleFails
    <2>1. /\ UNCHANGED <<join, signalled, tpc, cur, timeout, spc, squeue, dqueue, in_flight, signaled, lost>>
          /\ dpc \in {"idle", "waitidle"} /\ dpc' \in {"waitidle", "fini"} /\ unwaited' \in BOOLEAN
      BY <1>4, Zenon DEF DestroyDevice, DeviceWaitIdle, DeviceWaitIdleFails, queue, thread, submit,
           driver, TypeOK
    <2>2. TypeOK'
      BY <1>1, <2>1, Zenon DEF TypeOK
    <2>. QED BY <1>1, <1>2, <2>1, <2>2, Zenon DEF RingTable, RingsBound, Submission, Lists
  <1>4a. CASE ThreadJoined
    <2>1. /\ UNCHANGED <<join, signalled, tpc, cur, timeout, spc, squeue, dqueue, in_flight, signaled,
                         lost, unwaited>>
          /\ dpc = "join" /\ dpc' = "left" /\ tpc[dqueue] = "exit"
      BY <1>4a, Zenon DEF ThreadJoined, queue, thread, submit, driver
    <2>2. TypeOK'
      BY <1>1, <2>1, Zenon DEF TypeOK
    <2>. QED BY <1>1, <1>2, <2>1, <2>2, Zenon DEF RingTable, RingsBound, Submission, Lists
  <1>4b. CASE SubmitAllocFails \/ UseDestroyed \/ \E r \in Rings : SubmitFence(r)
    <2>1. UNCHANGED <<join, signalled, tpc, cur, timeout, dpc, dqueue, in_flight, signaled, lost, unwaited>>
      BY <1>4b, Zenon DEF SubmitAllocFails, UseDestroyed, SubmitFence, queue, thread, disp, driver
    <2>2. /\ spc' \in {"idle", "alloc", "undefined"} /\ squeue' \in Queues \cup {None}
          /\ Submission'
      <3>1. CASE SubmitAllocFails
        BY <1>1, <3>1, Zenon DEF SubmitAllocFails, Submission
      <3>2. CASE UseDestroyed
        BY <1>1, <3>2, Zenon DEF UseDestroyed, Submission, TypeOK
      <3>3. ASSUME NEW r \in Rings, SubmitFence(r)
            PROVE  spc' \in {"idle", "alloc", "undefined"} /\ squeue' \in Queues \cup {None} /\ Submission'
        <4>1. /\ sync_queues[r] \in Queues /\ ring_idx[sync_queues[r]] = r /\ r # 0
              /\ spc = "idle" /\ ssync = None /\ newest[r] < MaxFences
          BY <3>3, QueueConstants, Zenon DEF SubmitFence, TypeOK, RingTable, Submission
        <4>. QED BY <1>1, <3>3, <4>1, Zenon DEF SubmitFence, Submission
      <3>. QED BY <1>4b, <3>1, <3>2, <3>3, Zenon
    <2>3. TypeOK'
      BY <1>1, <2>1, <2>2, Zenon DEF TypeOK
    <2>. QED BY <1>1, <1>2, <2>1, <2>2, <2>3, Zenon DEF RingTable, RingsBound, Lists
  <1>5. CASE DeviceLost \/ \E q \in Queues : GpuSignal(q)
    <2>1. UNCHANGED <<join, signalled, tpc, cur, timeout, spc, squeue, dpc, dqueue, unwaited>>
      BY <1>5, Zenon DEF DeviceLost, GpuSignal, queue, thread, submit, disp
    <2>2. in_flight' \in [Queues -> Seq(Syncs)] /\ signaled' \subseteq Syncs /\ lost' \in BOOLEAN
      <3>1. CASE DeviceLost
        BY <3>1 DEF TypeOK, DeviceLost
      <3>2. ASSUME NEW q \in Queues, GpuSignal(q)
            PROVE in_flight' \in [Queues -> Seq(Syncs)] /\ signaled' \subseteq Syncs /\ lost' \in BOOLEAN
        <4>1. Tail(in_flight[q]) \in Seq(Syncs) /\ Head(in_flight[q]) \in Syncs
          BY <1>3, <3>2 DEF GpuSignal
        <4>. QED BY <3>2, <4>1, Zenon DEF TypeOK, GpuSignal
      <3>. QED BY <1>5, <3>1, <3>2, Zenon
    <2>3. TypeOK'
      BY <1>1, <2>1, <2>2, Zenon DEF TypeOK
    <2>. QED BY <1>1, <1>2, <2>1, <2>3, Zenon DEF RingTable, RingsBound, Submission, Lists
  <1>6. ASSUME NEW q \in Queues, ThreadFini(q) PROVE Tables' /\ Quiet
    <2>1. /\ UNCHANGED <<tpc, cur, timeout, spc, squeue, in_flight, signaled, lost, unwaited>>
          /\ dpc = "fini" /\ q \in todo /\ dqueue' = q /\ dpc' = "join"
      BY <1>6, Zenon DEF ThreadFini, thread, submit, driver
    <2>2. TypeOK'
      BY <1>1, <1>6, <2>1, Zenon DEF TypeOK, ThreadFini, CndSignal
    <2>. QED BY <1>1, <1>2, <2>1, <2>2, Zenon DEF RingTable, RingsBound, Submission, Lists
  <1>7. ASSUME NEW q \in Queues,
               ThreadLoop(q) \/ ThreadWake(q) \/ ThreadWait(q) \/ ThreadWaitFails(q)
        PROVE  Tables' /\ Quiet
    <2>1. /\ UNCHANGED <<join, spc, squeue, dpc, dqueue, in_flight, signaled, lost>>
          /\ unwaited' \in BOOLEAN /\ tpc[q] # "exit"
          /\ \E x \in {"loop", "cond", "wait", "relock", "exit"} :
                 /\ tpc' = [tpc EXCEPT ![q] = x]
                 /\ x = "relock" => tpc[q] = "wait" /\ cur' = cur
                 /\ x = "wait" => syncs[q] # <<>> /\ cur' = [cur EXCEPT ![q] = Head(syncs[q])]
                 /\ x \notin {"wait", "relock"} => cur' = cur
      BY <1>7, Zenon DEF ThreadLoop, ThreadWake, ThreadWait, ThreadWaitFails, queue, submit, disp,
           driver, TypeOK
    <2>2. syncs[q] # <<>> => Head(syncs[q]) = syncs[q][1] /\ syncs[q][1] \in Entry
      BY <1>3
    <2>3. TypeOK'
      <3>1. cur' \in [Queues -> Entry \cup {None}] /\ tpc' \in [Queues -> {"loop", "cond", "wait", "relock", "exit"}]
        BY <2>1, <2>2, ZenonT(40) DEF TypeOK
      <3>2. timeout' \in [Queues -> BOOLEAN] /\ signalled' \in [Queues -> BOOLEAN]
        BY <1>7, Zenon DEF TypeOK, ThreadLoop, ThreadWake, ThreadWait, ThreadWaitFails, queue
      <3>. QED BY <1>1, <2>1, <3>1, <3>2, Zenon DEF TypeOK
    <2>4. Lists'
      <3>1. dpc = "left" => dqueue \in Queues /\ dqueue # q
        BY <2>1, Zenon DEF RingTable, Lists, TypeOK
      <3>2. \A p \in Queues : p # q => tpc'[p] = tpc[p] /\ cur'[p] = cur[p]
        BY <2>1, Zenon DEF TypeOK
      <3>3. tpc'[q] \in {"wait", "relock"} => syncs[q] # <<>> /\ cur'[q] = syncs[q][1]
        BY <2>1, <2>2, Zenon DEF Lists, TypeOK
      <3>4. UNCHANGED <<syncs, todo, ring_idx, dpc, dqueue>>
        BY <1>1, <2>1, Zenon
      <3>. QED BY <3>1, <3>2, <3>3, <3>4, Zenon DEF Lists
    <2>5. RingTable' /\ Submission'
      <3>1. UNCHANGED <<spc, squeue, dpc, dqueue>>
        BY <2>1, Zenon
      <3>. QED BY <1>1, <3>1, Zenon DEF RingTable, RingsBound, Submission
    <2>. QED BY <1>2, <2>3, <2>4, <2>5, Zenon
  <1>8. CASE UNCHANGED vars
    <2>1. UNCHANGED <<join, signalled, tpc, cur, timeout, spc, squeue, dpc, dqueue, in_flight, signaled,
                      lost, unwaited>>
      BY <1>8, Zenon DEF vars, queue, thread, submit, disp, driver
    <2>2. TypeOK'
      BY <1>1, <2>1, Zenon DEF TypeOK
    <2>. QED BY <1>1, <1>2, <2>1, <2>2, Zenon DEF RingTable, RingsBound, Submission, Lists
  <1>. QED BY <1>4, <1>4a, <1>4b, <1>5, <1>6, <1>7, <1>8, Zenon

LEMMA Step == Tables /\ [Next]_vars => Tables' /\ [Fences!Next]_(Fences!vars)
  <1> SUFFICES ASSUME Tables, [Next]_vars PROVE Tables' /\ [Fences!Next]_(Fences!vars)
    OBVIOUS
  <1>1. Tables
    OBVIOUS
  <1>2. Tables' /\ (Quiet \/ \E r \in Rings : Fences!Submit(r) \/ Fences!Retire(r))
    <2>1. ASSUME NEW q \in Queues, NEW r \in Rings, GetDeviceQueue2(q, r) PROVE Tables' /\ Quiet
      BY <1>1, <2>1, GetDeviceQueue2Step, Zenon
    <2>2. CASE SubmitAlloc \/ SubmitQueue \/ SubmitQueueFails
      BY <1>1, <2>2, SubmitAllocStep, SubmitQueueStep, SubmitQueueFailsStep, Zenon
    <2>3. CASE SubmitAppend
      BY <1>1, <2>3, SubmitAppendStep, Zenon
    <2>4. CASE QueueDestroy
      BY <1>1, <2>4, QueueDestroyStep, Zenon
    <2>5. ASSUME NEW q \in Queues, ThreadRelock(q)
          PROVE  Tables' /\ (Quiet \/ \E r \in Rings : Fences!Retire(r))
      BY <1>1, <2>5, ThreadRelockStep, Zenon
    <2>6. CASE \/ SubmitAllocFails \/ UseDestroyed \/ \E r \in Rings : SubmitFence(r)
               \/ DestroyDevice \/ DeviceWaitIdle \/ DeviceWaitIdleFails \/ ThreadJoined
               \/ DeviceLost \/ UNCHANGED vars
               \/ \E q \in Queues : \/ ThreadFini(q) \/ ThreadLoop(q) \/ ThreadWake(q)
                                    \/ ThreadWait(q) \/ ThreadWaitFails(q) \/ GpuSignal(q)
      BY <1>1, <2>6, OtherStep, Zenon
    <2>. QED BY <2>1, <2>2, <2>3, <2>4, <2>5, <2>6, Zenon DEF Next, Submit, Destroy, SyncThread, Done
  <1>3. [Fences!Next]_(Fences!vars)
    BY <1>2, Zenon DEF Quiet, Fences!Next, Fences!vars
  <1>. QED BY <1>2, <1>3, Zenon

LEMMA Always == Spec => []Tables
  <1>. QED BY Initially, Step, PTL DEF Spec

\* A ring and its queue name each other until the queue is destroyed
\* (vkr_queue_assign_ring_idx, vkr_queue_destroy).
THEOREM RingsStayBound == Spec => []RingsBound
  <1>1. Tables => RingsBound
    BY Zenon DEF Tables, RingTable
  <1>. QED BY Always, <1>1, PTL

\* The fences of a queue's list retire in the order they were submitted, each
\* once, also when the thread is gone and what is left on the list retires
\* (vkr_queue_sync_submit, vkr_queue_thread, vkr_queue_sync_thread_fini).
THEOREM QueueImplementsTimeline == Spec => ImplementsFenceTimeline
  <1>1. Init => Fences!Init
    BY Zenon DEF Init, Fences!Init, pending
  <1>. QED BY <1>1, Step, Always, PTL DEF Spec, ImplementsFenceTimeline, Fences!Spec

\* A sync is free, on one list or being submitted, and none is lost, in every
\* build (vkr_device_alloc_queue_sync, vkr_device_free_queue_sync).
THEOREM SyncsStayInOnePlace == Spec => []SyncInOnePlace
  <1>1. Tables => SyncInOnePlace
    BY Zenon DEF Tables
  <1>. QED BY Always, <1>1, PTL

-----------------------------------------------------------------------------
(***************************************************************************)
(* What is in flight, while the waits succeed                              *)
(***************************************************************************)
InUse == DriverInv /\ WaitInv

\* The in-flight syncs of a queue are not free and not another queue's.
LEMMA InFlightIsOwn ==
    ASSUME Tables, DriverInv
    PROVE  /\ \A q \in Queues : InFlight(q) \cap Free = {} /\ InFlight(q) \subseteq 1..allocated
           /\ \A q, p \in Queues : q # p => InFlight(q) \cap InFlight(p) = {}
  <1>1. /\ \A q \in Queues : Listed(q) \cap Free = {} /\ Listed(q) \cap InHand = {}
        /\ Free \cap InHand = {} /\ InHand \subseteq 1..allocated
        /\ \A q, p \in Queues : q # p => Listed(q) \cap Listed(p) = {}
        /\ \A q \in Queues : Listed(q) \subseteq 1..allocated
    BY Zenon DEF Tables, SyncInOnePlace, AllListed
  <1>2. \A q \in Queues : InFlight(q) \subseteq Listed(q) \cup Submitted(q)
    BY Zenon DEF DriverInv
  <1>3. \A q \in Queues : Submitted(q) \subseteq InHand /\ (squeue # q => Submitted(q) = {})
    BY Zenon DEF Submitted
  <1>. QED BY <1>1, <1>2, <1>3, Zenon

\* The sync a thread works on is on its queue's list.
LEMMA CurListed ==
    ASSUME Tables, NEW q \in Queues, tpc[q] \in {"wait", "relock"}
    PROVE  cur[q].sync \in Listed(q) /\ cur[q] \in Elems(syncs[q])
  <1>1. syncs[q] \in Seq(Entry) /\ syncs[q] # <<>> /\ cur[q] = syncs[q][1]
    BY Zenon DEF Tables, TypeOK, Lists
  <1>2. 1 \in 1 .. Len(syncs[q]) /\ 1 \in DOMAIN syncs[q]
    BY <1>1
  <1>3. SyncsOf(syncs[q])[1] = cur[q].sync /\ 1 \in DOMAIN SyncsOf(syncs[q])
    BY <1>1, <1>2, Zenon DEF SyncsOf
  <1>. QED BY <1>1, <1>2, <1>3, Zenon DEF Listed, Elems

\* Nothing happens in the driver, and the lists of the queues stay.
LEMMA DriverQuiet ==
    ASSUME InUse, UNCHANGED <<in_flight, lost, syncs>>, signaled' \subseteq signaled,
           \A q \in Queues : Submitted(q) \subseteq Submitted(q)',
           dpc' \in {"fini", "join", "left", "gone"} => \A q \in Queues : in_flight[q] = <<>>
    PROVE  DriverInv'
  <1>1. \A q \in Queues : InFlight(q)' = InFlight(q) /\ Listed(q)' = Listed(q)
    BY Zenon DEF InFlight, Listed
  <1>. QED BY <1>1 DEF InUse, DriverInv, Distinct

LEMMA InitInUse == Init => InUse
  <1>1. Elems(<<>>) = {} /\ Distinct(<<>>)
    BY DEF Elems, Distinct
  <1>. QED BY <1>1, Zenon DEF Init, InUse, DriverInv, WaitInv, InFlight

LEMMA SubmitAllocInUse ==
    ASSUME Tables, InUse, SubmitAlloc
    PROVE  InUse'
  <1> USE DEF InUse
  <1>1. /\ spc = "alloc" /\ spc' = "submit" /\ signaled' \subseteq signaled
        /\ UNCHANGED <<syncs, tpc, cur, timeout, dpc, in_flight, lost>>
        /\ ~ssync'.lost /\ ssync'.sync \notin signaled'
    <2>1. PICK s \in Syncs :
             /\ ssync' = [sync |-> s, fence |-> newest[ring_idx[squeue]] + 1, lost |-> FALSE]
             /\ signaled' = signaled \ {s}
      BY Zenon DEF SubmitAlloc
    <2>2. ssync'.sync = s /\ ssync'.lost = FALSE
      BY <2>1, Zenon
    <2>3. /\ spc = "alloc" /\ spc' = "submit"
          /\ UNCHANGED <<syncs, tpc, cur, timeout, dpc, in_flight, lost>>
      BY Zenon DEF SubmitAlloc, queue, thread, disp
    <2>. QED BY <2>1, <2>2, <2>3, Zenon
  <1>2. \A q \in Queues : Submitted(q) = {} /\ InFlight(q)' = InFlight(q)
    BY <1>1, Zenon DEF Submitted, InFlight
  <1>3. DriverInv'
    BY <1>1, <1>2, DriverQuiet, Zenon DEF DriverInv
  <1>4. WaitInv'
    BY <1>1, <1>2, Zenon DEF WaitInv
  <1>. QED BY <1>3, <1>4, Zenon

LEMMA SubmitQueueInUse ==
    ASSUME Tables, InUse, SubmitQueue, ~unwaited'
    PROVE  InUse'
  <1> USE DEF InUse
  <1>1. PICK q \in Queues : q = squeue
    BY Zenon DEF SubmitQueue, Tables, Submission
  <1>2. /\ spc = "submit" /\ spc' = "append" /\ squeue = q /\ squeue' = q
        /\ ssync' = [ssync EXCEPT !.lost = lost]
        /\ in_flight' = IF lost THEN in_flight
                        ELSE [in_flight EXCEPT ![q] = Append(in_flight[q], ssync.sync)]
        /\ ~lost => dpc \in {"idle", "waitidle"}
        /\ UNCHANGED <<syncs, tpc, cur, timeout, signaled, lost, dpc>>
    BY <1>1, Zenon DEF SubmitQueue, queue, thread, disp
  <1>3. PICK s \in Syncs : s = ssync.sync
    <2>1. ssync \in Entry
      BY <1>2, Zenon DEF Tables, Submission, TypeOK
    <2>. QED BY <2>1, Zenon DEF Entry
  <1>4. /\ ssync # None /\ InHand = {s} /\ InHand' = {s} /\ ssync'.lost = lost
    <2>1. ssync # None /\ ssync \in Entry
      BY <1>2, Zenon DEF Tables, Submission, TypeOK
    <2>2. ssync' \in Entry /\ ssync'.sync = s /\ ssync'.lost = lost
      <3>1. lost \in BOOLEAN
        BY Zenon DEF Tables, TypeOK
      <3>. QED BY <1>2, <1>3, <2>1, <3>1 DEF Entry
    <2>. QED BY <1>3, <2>1, <2>2, NotNone, Zenon DEF InHand
  <1>5. \A p \in Queues : s \notin Listed(p) /\ Listed(p)' = Listed(p)
    BY <1>2, <1>4, Zenon DEF Listed, Tables, SyncInOnePlace
  <1>6. /\ in_flight \in [Queues -> Seq(Syncs)] /\ in_flight[q] \in Seq(Syncs)
        /\ \A p \in Queues : InFlight(p) \subseteq Listed(p) /\ InFlight(p) \cap signaled = {}
        /\ \A p \in Queues : Distinct(in_flight[p])
    <2>1. \A p \in Queues : Submitted(p) = {}
      BY <1>2, Zenon DEF Submitted
    <2>. QED BY <2>1, Zenon DEF Tables, TypeOK, DriverInv
  <1>7. CASE lost
    <2>1. in_flight' = in_flight /\ \A p \in Queues : InFlight(p)' = InFlight(p)
      BY <1>2, <1>7, Zenon DEF InFlight
    <2>2. \A p \in Queues : Submitted(p) = {}
      BY <1>2, Zenon DEF Submitted
    <2>3. DriverInv'
      BY <1>2, <2>1, <2>2, DriverQuiet, Zenon DEF DriverInv
    <2>. QED BY <1>2, <1>4, <1>7, <2>1, <2>3, Zenon DEF WaitInv
  <1>8. CASE ~lost /\ s \notin signaled
    <2>1. /\ in_flight'[q] = Append(in_flight[q], s)
          /\ \A p \in Queues : p # q => in_flight'[p] = in_flight[p]
      BY <1>2, <1>3, <1>6, <1>8, Zenon
    <2>2. InFlight(q)' = InFlight(q) \cup {s} /\ Distinct(in_flight'[q])
      BY <1>5, <1>6, <2>1, AppendElems DEF InFlight
    <2>3. \A p \in Queues : p # q => InFlight(p)' = InFlight(p)
      BY <2>1, Zenon DEF InFlight
    <2>4. DriverInv'
      <3>1. \A p \in Queues : Distinct(in_flight[p])'
        BY <1>6, <2>1, <2>2, Zenon DEF Distinct
      <3>2. \A p \in Queues : (InFlight(p) \cap signaled = {})'
        BY <1>2, <1>6, <1>8, <2>2, <2>3, Zenon
      <3>3. Submitted(q)' = {s}
        BY <1>2, <1>4, Zenon DEF Submitted
      <3>4. \A p \in Queues : (InFlight(p) \subseteq Listed(p) \cup Submitted(p))'
        <4>1. (InFlight(q) \subseteq Listed(q) \cup Submitted(q))'
          BY <1>5, <1>6, <2>2, <3>3, SMT
        <4>2. \A p \in Queues : p # q => (InFlight(p) \subseteq Listed(p))'
          BY <1>5, <1>6, <2>3, Zenon
        <4>. QED BY <4>1, <4>2, Zenon
      <3>. QED BY <1>2, <1>8, <3>1, <3>2, <3>4, Zenon DEF DriverInv
    <2>5. ASSUME NEW p \in Queues, tpc[p] = "relock", ~timeout[p]
          PROVE  cur[p].sync \notin InFlight(p)'
      <3>1. cur[p].sync \in Listed(p)
        BY <2>5, CurListed, Zenon
      <3>2. cur[p].sync # s
        BY <1>5, <3>1, Zenon
      <3>. QED BY <2>2, <2>3, <2>5, <3>2, Zenon DEF WaitInv
    <2>. QED BY <1>2, <1>4, <1>8, <2>4, <2>5, Zenon DEF WaitInv
  <1>9. s \notin signaled
    BY <1>2, <1>3, <1>4, Zenon DEF WaitInv
  <1>. QED BY <1>7, <1>8, <1>9, Zenon

LEMMA SubmitAppendInUse ==
    ASSUME Tables, InUse, SubmitAppend
    PROVE  InUse'
  <1> USE DEF InUse
  <1>1. PICK q \in Queues : q = squeue
    BY Zenon DEF SubmitAppend, Tables, Submission
  <1>2. /\ syncs' = [syncs EXCEPT ![q] = Append(syncs[q], ssync)]
        /\ spc = "append" /\ spc' = "idle" /\ squeue' = None /\ ssync' = None
        /\ UNCHANGED <<dpc, tpc, cur, timeout, in_flight, signaled, lost>>
        /\ ssync # None /\ ssync \in Entry /\ syncs[q] \in Seq(Entry)
        /\ syncs \in [Queues -> Seq(Entry)]
    BY <1>1, Zenon DEF SubmitAppend, thread, disp, driver, Tables, Submission, TypeOK
  <1>3. /\ syncs'[q] = Append(syncs[q], ssync)
        /\ \A p \in Queues : p # q => syncs'[p] = syncs[p]
        /\ SyncsOf(syncs'[q]) = Append(SyncsOf(syncs[q]), ssync.sync)
        /\ SyncsOf(syncs[q]) \in Seq(Syncs) /\ ssync.sync \in Syncs
    <2>1. syncs'[q] = Append(syncs[q], ssync) /\ \A p \in Queues : p # q => syncs'[p] = syncs[p]
      BY <1>2, Zenon
    <2>2. ssync.sync \in Syncs
      BY <1>2, Zenon DEF Entry
    <2>. QED BY <1>2, <2>1, <2>2, AppendProjections, Projections, Zenon
  <1>4. /\ Listed(q)' = Listed(q) \cup {ssync.sync} /\ InHand = {ssync.sync} /\ InHand' = {}
        /\ Elems(syncs'[q]) = Elems(syncs[q]) \cup {ssync}
        /\ \A p \in Queues : p # q => Listed(p)' = Listed(p)
        /\ \A p \in Queues : InFlight(p)' = InFlight(p)
    <2>1. /\ Elems(Append(SyncsOf(syncs[q]), ssync.sync)) = Elems(SyncsOf(syncs[q])) \cup {ssync.sync}
          /\ Elems(Append(syncs[q], ssync)) = Elems(syncs[q]) \cup {ssync}
      <3>1. Elems(Append(SyncsOf(syncs[q]), ssync.sync)) = Elems(SyncsOf(syncs[q])) \cup {ssync.sync}
        BY <1>3, AppendElems
      <3>2. Elems(Append(syncs[q], ssync)) = Elems(syncs[q]) \cup {ssync}
        BY <1>2, AppendElems
      <3>. QED BY <3>1, <3>2, Zenon
    <2>2. Listed(q)' = Listed(q) \cup {ssync.sync} /\ Elems(syncs'[q]) = Elems(syncs[q]) \cup {ssync}
      BY <1>3, <2>1, Zenon DEF Listed
    <2>. QED BY <1>2, <1>3, <2>2, Zenon DEF Listed, InHand, InFlight
  <1>5. DriverInv'
    <2>1. \A p \in Queues : Submitted(p) = (IF p = q THEN InHand ELSE {})
      BY <1>1, <1>2, Zenon DEF Submitted
    <2>2. \A p \in Queues : InFlight(p)' \subseteq Listed(p)'
      BY <1>4, <2>1 DEF DriverInv
    <2>. QED BY <1>2, <1>4, <2>2, Zenon DEF DriverInv, Distinct
  <1>6. WaitInv'
    BY <1>2, <1>3, <1>4, Zenon DEF WaitInv
  <1>. QED BY <1>5, <1>6, Zenon

LEMMA ThreadInUse ==
    ASSUME Tables, InUse, NEW q \in Queues, ThreadLoop(q) \/ ThreadWake(q) \/ ThreadWait(q)
    PROVE  InUse'
  <1> USE DEF InUse
  <1>1. UNCHANGED <<syncs, spc, squeue, ssync, dpc, in_flight, signaled, lost>>
    BY Zenon DEF ThreadLoop, ThreadWake, ThreadWait, queue, submit, disp, driver
  <1>2. DriverInv'
    BY <1>1, DriverQuiet, Zenon DEF DriverInv, Submitted, InHand
  <1>3. \A p \in Queues : InFlight(p)' = InFlight(p)
    BY <1>1, Zenon DEF InFlight
  <1>4. /\ tpc \in [Queues -> {"loop", "cond", "wait", "relock", "exit"}]
        /\ timeout \in [Queues -> BOOLEAN] /\ cur \in [Queues -> Entry \cup {None}]
    BY Zenon DEF Tables, TypeOK
  <1>5. CASE ThreadLoop(q) \/ ThreadWake(q)
    <2>1. ASSUME NEW p \in Queues, tpc'[p] = "relock", ~timeout'[p]
          PROVE  tpc[p] = "relock" /\ ~timeout[p] /\ cur'[p] = cur[p]
      BY <1>4, <1>5, <2>1, Zenon DEF ThreadLoop, ThreadWake
    <2>. QED BY <1>1, <1>2, <1>3, <2>1, Zenon DEF WaitInv
  <1>6. CASE ThreadWait(q)
    <2>1. /\ tpc[q] = "wait" /\ timeout' = [timeout EXCEPT ![q] = ~WaitOver(q)]
          /\ tpc' = [tpc EXCEPT ![q] = "relock"] /\ cur' = cur
      BY <1>6, Zenon DEF ThreadWait
    <2>2. WaitOver(q) => cur[q].sync \notin InFlight(q)
      <3>1. lost => InFlight(q) = {}
        BY SMTT(20) DEF DriverInv, InFlight, Elems
      <3>2. cur[q].lost => lost
        BY <2>1, CurListed, Zenon DEF WaitInv
      <3>3. InFlight(q) \cap signaled = {}
        BY Zenon DEF DriverInv
      <3>. QED BY <3>1, <3>2, <3>3, Zenon DEF WaitOver
    <2>3. timeout'[q] = ~WaitOver(q) /\ \A p \in Queues : p # q => timeout'[p] = timeout[p] /\ tpc'[p] = tpc[p]
      BY <1>4, <2>1, Zenon
    <2>. QED BY <1>1, <1>2, <1>3, <2>1, <2>2, <2>3, Zenon DEF WaitInv
  <1>. QED BY <1>5, <1>6, Zenon

LEMMA ThreadRelockInUse ==
    ASSUME Tables, InUse, NEW q \in Queues, ThreadRelock(q)
    PROVE  InUse'
  <1> USE DEF InUse
  <1>1. /\ tpc[q] = "relock" /\ tpc' = [tpc EXCEPT ![q] = "loop"]
        /\ cur' = [cur EXCEPT ![q] = None] /\ timeout' = [timeout EXCEPT ![q] = FALSE]
        /\ UNCHANGED <<spc, squeue, ssync, dpc, in_flight, signaled, lost>>
    BY Zenon DEF ThreadRelock, submit, disp, driver
  <1>2. /\ \A p \in Queues : InFlight(p)' = InFlight(p) /\ InHand' = InHand
        /\ tpc \in [Queues -> {"loop", "cond", "wait", "relock", "exit"}]
        /\ syncs \in [Queues -> Seq(Entry)]
        /\ cur \in [Queues -> Entry \cup {None}] /\ timeout \in [Queues -> BOOLEAN]
        /\ \A p \in Queues : Submitted(p)' = Submitted(p)
    BY <1>1, Zenon DEF InFlight, InHand, Submitted, Tables, TypeOK
  <1>3. CASE MustReWait(q)
    <2>1. syncs' = syncs
      BY <1>3, Zenon DEF ThreadRelock
    <2>2. DriverInv'
      BY <1>1, <1>2, <2>1, DriverQuiet, Zenon DEF DriverInv
    <2>. QED BY <1>1, <1>2, <2>1, <2>2, Zenon DEF WaitInv
  <1>4. CASE ~MustReWait(q)
    <2>1. /\ syncs' = [syncs EXCEPT ![q] = ListDel(syncs[q], cur[q])] /\ ~timeout[q]
          /\ syncs[q] \in Seq(Entry) /\ syncs[q] # <<>> /\ cur[q] = syncs[q][1]
          /\ Distinct(SyncsOf(syncs[q]))
      BY <1>1, <1>2, <1>4, Zenon DEF ThreadRelock, MustReWait, Tables, Lists, SyncInOnePlace
    <2>2. /\ ListDel(syncs[q], cur[q]) = Tail(syncs[q]) /\ cur[q].sync = SyncsOf(syncs[q])[1]
          /\ SyncsOf(Tail(syncs[q])) = Tail(SyncsOf(syncs[q])) /\ SyncsOf(syncs[q]) # <<>>
      BY <2>1, DelFirst, Zenon
    <2>3. /\ syncs'[q] = Tail(syncs[q]) /\ \A p \in Queues : p # q => syncs'[p] = syncs[p]
      BY <1>2, <2>1, <2>2, Zenon
    <2>4. Elems(syncs[q]) = Elems(syncs'[q]) \cup {syncs[q][1]}
      BY <2>1, <2>3, TailElems, Zenon
    <2>5. Listed(q) = Listed(q)' \cup {cur[q].sync} /\ \A p \in Queues : p # q => Listed(p)' = Listed(p)
      <3>1. SyncsOf(syncs[q]) \in Seq(Syncs)
        BY <2>1, Projections, Zenon
      <3>. QED BY <2>2, <2>3, <3>1, TailElems, ZenonT(40) DEF Listed
    <2>6. cur[q].sync \notin InFlight(q)
      BY <1>1, <2>1, Zenon DEF WaitInv
    <2>7. DriverInv'
      BY <1>1, <1>2, <2>5, <2>6 DEF DriverInv, Distinct
    <2>. QED BY <1>1, <1>2, <2>3, <2>4, <2>7, Zenon DEF WaitInv
  <1>. QED BY <1>3, <1>4, Zenon

LEMMA GpuSignalInUse ==
    ASSUME Tables, InUse, NEW q \in Queues, GpuSignal(q)
    PROVE  InUse'
  <1> USE DEF InUse
  <1> DEFINE h == in_flight[q][1]
  <1>1. /\ in_flight[q] \in Seq(Syncs) /\ in_flight[q] # <<>>
        /\ in_flight \in [Queues -> Seq(Syncs)]
        /\ signaled' = signaled \cup {Head(in_flight[q])}
        /\ in_flight' = [in_flight EXCEPT ![q] = Tail(in_flight[q])] /\ ~lost
        /\ UNCHANGED <<syncs, tpc, cur, timeout, spc, squeue, ssync, dpc, lost>>
    BY Zenon DEF GpuSignal, queue, thread, submit, disp, Tables, TypeOK
  <1>2. /\ in_flight'[q] = Tail(in_flight[q]) /\ \A p \in Queues : p # q => in_flight'[p] = in_flight[p]
    BY <1>1, Zenon
  <1>3. /\ Head(in_flight[q]) = h /\ Distinct(in_flight'[q])
        /\ InFlight(q) = InFlight(q)' \cup {h} /\ h \notin InFlight(q)'
    BY <1>1, <1>2, TailElems, Zenon DEF InFlight, DriverInv
  <1> HIDE DEF h
  <1>4. /\ \A p \in Queues : Listed(p)' = Listed(p) /\ Submitted(p)' = Submitted(p)
        /\ \A p \in Queues : p # q => InFlight(p)' = InFlight(p) /\ h \notin InFlight(p)
    <2>1. \A p \in Queues : p # q => h \notin InFlight(p)
      BY <1>3, InFlightIsOwn, Zenon
    <2>. QED BY <1>1, <1>2, <2>1, Zenon DEF InHand, Submitted, Listed, InFlight
  <1>4a. \A p \in Queues : InFlight(p)' \subseteq InFlight(p) /\ h \notin InFlight(p)'
    <2>1. InFlight(q)' \subseteq InFlight(q) /\ h \notin InFlight(q)'
      BY <1>3, Zenon
    <2>2. \A p \in Queues : p # q => InFlight(p)' = InFlight(p) /\ h \notin InFlight(p)
      BY <1>4, Zenon
    <2>. QED BY <2>1, <2>2, Zenon
  <1>5. DriverInv'
    <2>1. dpc \notin {"fini", "join", "left", "gone"}
      BY <1>1, Zenon DEF DriverInv
    <2>2. \A p \in Queues : Distinct(in_flight[p])'
      BY <1>2, <1>3, Zenon DEF DriverInv, Distinct
    <2>3. \A p \in Queues : (InFlight(p) \cap signaled = {})'
      BY <1>1, <1>3, <1>4a, Zenon DEF DriverInv
    <2>4. \A p \in Queues : (InFlight(p) \subseteq Listed(p) \cup Submitted(p))'
      <3>1. \A p \in Queues : InFlight(p) \subseteq Listed(p) \cup Submitted(p)
        BY Zenon DEF DriverInv
      <3>2. \A p \in Queues : Listed(p)' = Listed(p) /\ Submitted(p)' = Submitted(p)
        BY <1>1, <1>4, Zenon
      <3>. QED BY <1>4a, <3>1, <3>2, Zenon
    <2>. QED BY <1>1, <2>1, <2>2, <2>3, <2>4, Zenon DEF DriverInv
  <1>6. WaitInv'
    <2>1. spc = "submit" => ssync.sync # h
      <3>1. ASSUME spc = "submit" PROVE \A p \in Queues : ssync.sync \notin InFlight(p)
        <4>1. InHand = {ssync.sync} /\ \A p \in Queues : Submitted(p) = {}
          BY <3>1, Zenon DEF InHand, Submitted, Tables, Submission
        <4>2. \A p \in Queues : Listed(p) \cap InHand = {}
          BY Zenon DEF Tables, SyncInOnePlace
        <4>. QED BY <4>1, <4>2, Zenon DEF DriverInv
      <3>2. h \in InFlight(q)
        BY <1>3, Zenon
      <3>. QED BY <3>1, <3>2, Zenon
    <2>. QED BY <1>1, <1>3, <1>4a, <2>1, Zenon DEF WaitInv
  <1>. QED BY <1>5, <1>6, Zenon

\* The destruction waits for what is in flight before it finishes the threads.
LEMMA OtherInUse ==
    ASSUME Tables, InUse, ~unwaited',
           \/ SubmitAllocFails \/ SubmitQueueFails \/ UseDestroyed \/ \E r \in Rings : SubmitFence(r)
           \/ DestroyDevice \/ DeviceWaitIdle \/ DeviceLost \/ ThreadJoined \/ QueueDestroy
           \/ UNCHANGED vars
           \/ \E q \in Queues : ThreadFini(q) \/ \E r \in Rings : GetDeviceQueue2(q, r)
    PROVE  InUse'
  <1> USE DEF InUse
  <1>1. UNCHANGED <<tpc, cur, timeout>>
    BY Zenon DEF SubmitAllocFails, SubmitQueueFails, UseDestroyed, SubmitFence, DestroyDevice,
         DeviceWaitIdle, DeviceLost, ThreadJoined, QueueDestroy, ThreadFini, GetDeviceQueue2, vars,
         thread
  <1>2. CASE SubmitAllocFails \/ SubmitQueueFails \/ \E r \in Rings : SubmitFence(r)
    <2>1. /\ UNCHANGED <<syncs, in_flight, signaled, lost, dpc>> /\ spc \in {"idle", "alloc", "submit"}
          /\ spc' \in {"idle", "alloc"} /\ ssync' = None
      BY <1>2, Zenon DEF SubmitAllocFails, SubmitQueueFails, SubmitFence, Tables, Submission, queue,
           driver, disp
    <2>2. \A q \in Queues : Submitted(q) = {} /\ InFlight(q)' = InFlight(q)
      BY <2>1, Zenon DEF Submitted, InFlight
    <2>3. DriverInv'
      BY <2>1, <2>2, DriverQuiet, Zenon DEF DriverInv
    <2>. QED BY <1>1, <2>1, <2>2, <2>3, Zenon DEF WaitInv
  <1>3. CASE \/ UseDestroyed \/ DestroyDevice \/ DeviceWaitIdle \/ ThreadJoined \/ UNCHANGED vars
             \/ \E q \in Queues : ThreadFini(q) \/ \E r \in Rings : GetDeviceQueue2(q, r)
    <2>1. /\ UNCHANGED <<syncs, in_flight, signaled, lost, squeue, ssync>>
          /\ spc' = spc \/ spc' = "undefined"
      BY <1>3, Zenon DEF UseDestroyed, DestroyDevice, DeviceWaitIdle, ThreadJoined, ThreadFini,
           GetDeviceQueue2, vars, queue, driver, submit
    <2>2. dpc' \in {"fini", "join", "left", "gone"} => \A q \in Queues : in_flight[q] = <<>>
      BY <1>3, Zenon DEF UseDestroyed, DestroyDevice, DeviceWaitIdle, DeviceIdle, ThreadJoined,
           ThreadFini, GetDeviceQueue2, vars, disp, DriverInv
    <2>3. \A q \in Queues : Submitted(q) \subseteq Submitted(q)' /\ InFlight(q)' = InFlight(q)
      BY <2>1, Zenon DEF Submitted, InHand, InFlight
    <2>4. DriverInv'
      BY <2>1, <2>2, <2>3, DriverQuiet, Zenon
    <2>. QED BY <1>1, <2>1, <2>3, <2>4, Zenon DEF WaitInv
  <1>4. CASE DeviceLost
    <2>1. /\ UNCHANGED <<syncs, signaled, spc, ssync>> /\ lost' = TRUE
          /\ in_flight' = [q \in Queues |-> <<>>]
      BY <1>4, Zenon DEF DeviceLost, queue, submit
    <2>2. \A q \in Queues : in_flight'[q] = <<>> /\ InFlight(q)' = {} /\ Distinct(<<>>)
      BY <2>1, SMTT(20) DEF InFlight, Elems, Distinct
    <2>. QED BY <1>1, <2>1, <2>2, Zenon DEF DriverInv, WaitInv
  <1>5. CASE QueueDestroy
    <2>1. PICK q \in Queues : q = dqueue
      BY <1>5, Zenon DEF QueueDestroy, Tables, RingTable, TypeOK
    <2>2. /\ dpc = "left" /\ syncs' = [syncs EXCEPT ![q] = <<>>]
          /\ UNCHANGED <<in_flight, signaled, lost, spc, ssync>> /\ syncs \in [Queues -> Seq(Entry)]
      BY <1>5, <2>1, Zenon DEF QueueDestroy, RetireLeft, driver, submit, Tables, TypeOK
    <2>3. \A p \in Queues : in_flight[p] = <<>> /\ InFlight(p)' = {} /\ Distinct(<<>>)
      <3>1. \A p \in Queues : in_flight[p] = <<>> /\ in_flight'[p] = <<>>
        BY <2>2, Zenon DEF DriverInv
      <3>2. Elems(<<>>) = {} /\ Distinct(<<>>)
        BY SMTT(20) DEF Elems, Distinct
      <3>. QED BY <3>1, <3>2, Zenon DEF InFlight
    <2>4. DriverInv'
      BY <2>2, <2>3, Zenon DEF DriverInv
    <2>5. \A p \in Queues : Elems(syncs'[p]) \subseteq Elems(syncs[p])
      BY <2>2 DEF Elems
    <2>. QED BY <1>1, <2>2, <2>3, <2>4, <2>5, Zenon DEF WaitInv
  <1>. QED BY <1>2, <1>3, <1>4, <1>5, Zenon

LEMMA StepInUse == Tables /\ (~unwaited => InUse) /\ [Next]_vars => (~unwaited => InUse)'
  <1> SUFFICES ASSUME Tables, ~unwaited => InUse, [Next]_vars, ~unwaited' PROVE InUse'
    OBVIOUS
  <1>1. Tables
    OBVIOUS
  <1>2. InUse
    <2>1. ASSUME NEW q \in Queues,
                 \/ SyncThread(q) \/ GpuSignal(q) \/ ThreadFini(q)
                 \/ \E r \in Rings : GetDeviceQueue2(q, r)
          PROVE  unwaited' = unwaited
      BY <2>1, Zenon DEF SyncThread, ThreadLoop, ThreadWake, ThreadWait, ThreadRelock, GpuSignal,
           ThreadFini, GetDeviceQueue2
    <2>2. CASE Submit \/ \E r \in Rings : SubmitFence(r)
      BY <2>2, Zenon DEF Submit, SubmitAlloc, SubmitAllocFails, SubmitQueue, SubmitQueueFails,
           SubmitAppend, UseDestroyed, SubmitFence
    <2>3. CASE \/ DestroyDevice \/ DeviceWaitIdle \/ DeviceLost \/ ThreadJoined \/ QueueDestroy
               \/ UNCHANGED vars
      BY <2>3, Zenon DEF DestroyDevice, DeviceWaitIdle, DeviceLost, ThreadJoined, QueueDestroy, vars
    <2>4. ~DeviceWaitIdleFails /\ \A q \in Queues : ~ThreadWaitFails(q)
      BY Zenon DEF DeviceWaitIdleFails, ThreadWaitFails
    <2>. QED BY <2>1, <2>2, <2>3, <2>4, Zenon DEF Next, Destroy, Done
  <1>3. CASE SubmitAlloc \/ SubmitQueue \/ SubmitAppend
    BY <1>1, <1>2, <1>3, SubmitAllocInUse, SubmitQueueInUse, SubmitAppendInUse, Zenon
  <1>4. ASSUME NEW q \in Queues, SyncThread(q) \/ GpuSignal(q) PROVE InUse'
    BY <1>1, <1>2, <1>4, ThreadInUse, ThreadRelockInUse, GpuSignalInUse, Zenon DEF SyncThread
  <1>5. CASE \/ SubmitAllocFails \/ SubmitQueueFails \/ UseDestroyed \/ \E r \in Rings : SubmitFence(r)
             \/ DestroyDevice \/ DeviceWaitIdle \/ DeviceLost \/ ThreadJoined \/ QueueDestroy
             \/ UNCHANGED vars
             \/ \E q \in Queues : ThreadFini(q) \/ \E r \in Rings : GetDeviceQueue2(q, r)
    BY <1>1, <1>2, <1>5, OtherInUse, Zenon
  <1>6. ~DeviceWaitIdleFails /\ \A q \in Queues : ~ThreadWaitFails(q)
    BY Zenon DEF DeviceWaitIdleFails, ThreadWaitFails
  <1>. QED BY <1>3, <1>4, <1>5, <1>6, Zenon DEF Next, Submit, Destroy, Done

\* A sync is in one place at a time, and its VkFence is not reset or destroyed
\* while it is in flight as long as the waits for the device and for the fences
\* were made, succeeded and saw the submissions, in every build
\* (vkr_device_alloc_queue_sync, vkr_queue_thread, vkr_device_destroy).
THEOREM SyncsNotRecycledInUse == Spec => []SyncsConsistent
  <1>1. Tables /\ (~unwaited => InUse) => SyncsConsistent
    <2> SUFFICES ASSUME Tables, ~unwaited => InUse PROVE SyncsConsistent
      OBVIOUS
    <2>1. Tables
      OBVIOUS
    <2>2. FreeSyncsIdle
      BY <2>1, InFlightIsOwn, Zenon DEF FreeSyncsIdle, InUse
    <2>. QED BY <2>1, <2>2, Zenon DEF SyncsConsistent, Tables
  <1>. QED BY Initially, InitInUse, Step, StepInUse, <1>1, PTL DEF Spec

=============================================================================
