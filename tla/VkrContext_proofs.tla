-------------------------- MODULE VkrContext_proofs --------------------------
(***************************************************************************)
(* That no thread of a venus context outlives what it uses, that a thread  *)
(* that does not exist is joined only after a failed start, and that rings *)
(* lie in memory that is mapped, for any number of contexts, resources and *)
(* rings; and that the pool of transport memory is exact, for any size.    *)
(***************************************************************************)
EXTENDS MCVkrContext, SequenceTheorems, TLAPS

Ring == [res : Res \cup {0}, reply : Res \cup {0}, busy : BOOLEAN,
         exec : Res \cup {0}, started : BOOLEAN,
         thread : {"none", "run", "done", "joined"}]

Teardown == {"monitor", "monitor_join", "rings", "rings_join", "instance", "resources"}

\* The list of rings stays within its bound.
RingsBounded == \A c \in Ctxs : Len(rings[c]) <= MaxRings

\* Where a call is tells what has become of its context.
Stages ==
    /\ adapters \cap freed = {}
    /\ cmd.op = "idle" => cmd = Idle
    /\ cmd.op \in {"ring_join", "detach", "detach_join"} => cmd.ctx \in adapters
    /\ cmd.op \in {"detach", "detach_join"} =>
           cmd.rest \subseteq adapters /\ cmd.res \in Res
    /\ cmd.op \in Teardown => cmd.ctx \in Ctxs \ (adapters \cup freed)
    /\ Crashed => cmd.ctx \in Ctxs
    /\ \A c \in Ctxs : c \in adapters \cup freed \/ (cmd.ctx = c /\ cmd.op \in Teardown)
                       \/ Crashed

\* The ring a call joins is in the list, and was started unless it crashes.
Joining ==
    /\ cmd.op \in {"ring_join", "detach_join", "rings_join", "no_ring"} =>
           cmd.ring \in DOMAIN rings[cmd.ctx]
    /\ cmd.op = "rings_join" => cmd.ring = 1
    /\ \A c \in Ctxs : \A i \in DOMAIN rings[c] : rings[c][i].thread # "joined"
    /\ cmd.op = "no_ring" => rings[cmd.ctx][cmd.ring].thread = "none"

\* started tells whether there is, or should be, a monitor to join.
MonitorKnown ==
    /\ \A c \in Ctxs : monitor[c].started => monitor[c].pc # "none"
    /\ \A c \in Ctxs : ~monitor[c].started => 
           \/ monitor[c].pc = "none"
           \/ cmd.ctx = c /\ cmd.op \in {"monitor_join", "no_monitor"}
    /\ \A c \in freed : monitor[c].pc = "none"
    /\ cmd.op \in {"rings", "rings_join", "instance", "resources"} =>
           monitor[cmd.ctx].pc = "none"
    /\ cmd.op = "monitor_join" => monitor[cmd.ctx].pc # "none" /\ ~monitor[cmd.ctx].started
    /\ cmd.op = "no_monitor" => monitor[cmd.ctx].pc = "never"

\* A sync thread is ended before the tables go.
SyncKnown ==
    \A c \in Ctxs : sync[c] = "found" =>
        c \notin freed /\ (cmd.ctx = c => cmd.op # "resources")

\* What is freed is empty, and the rings go before the resources.
Emptied ==
    /\ \A c \in freed : known[c] = {} /\ \A r \in Res : table[c][r] = ""
    /\ \A c \in freed : rings[c] = <<>>
    /\ cmd.op \in {"instance", "resources"} => rings[cmd.ctx] = <<>>

-----------------------------------------------------------------------------
(***************************************************************************)
(* What the operators do to one list of rings                              *)
(***************************************************************************)
\* What is removed leaves the other rings.
LEMMA UnlinkedRings ==
    ASSUME NEW S, NEW gs \in Seq(S), NEW i \in DOMAIN gs
    PROVE  /\ Unlinked(gs, i) \in Seq(S)
           /\ Len(Unlinked(gs, i)) = Len(gs) - 1
           /\ \A j \in DOMAIN Unlinked(gs, i) :
                  \E k \in DOMAIN gs : Unlinked(gs, i)[j] = gs[k]
  <1>1. i \in 1..Len(gs) /\ Len(gs) \in Nat /\ DOMAIN gs = 1..Len(gs)
    BY LenProperties, Zenon
  <1>2. \A k \in 1..Len(gs) : gs[k] \in S
    BY ElementOfSeq, Zenon
  <1> DEFINE a == SubSeq(gs, 1, i - 1)
             b == SubSeq(gs, i + 1, Len(gs))
  <1>3. /\ a \in Seq(S) /\ Len(a) = i - 1
        /\ \A j \in 1..i-1 : a[j] = gs[j]
    <2>1. \A k \in 1..i-1 : gs[k] \in S
      BY <1>1, <1>2
    <2>2. /\ a \in Seq(S) /\ Len(a) = IF 1 <= i - 1 THEN i - 1 - 1 + 1 ELSE 0
          /\ \A j \in 1..i-1-1+1 : a[j] = gs[1 + j - 1]
      BY <1>1, <2>1, SubSeqProperties
    <2>. QED BY <1>1, <2>2
  <1>4. /\ b \in Seq(S) /\ Len(b) = Len(gs) - i
        /\ \A j \in 1..Len(gs)-i : b[j] = gs[i + j]
    <2>1. \A k \in i+1..Len(gs) : gs[k] \in S
      BY <1>1, <1>2
    <2>2. /\ b \in Seq(S) /\ Len(b) = IF i + 1 <= Len(gs) THEN Len(gs) - (i + 1) + 1 ELSE 0
          /\ \A j \in 1..Len(gs)-(i+1)+1 : b[j] = gs[i + 1 + j - 1]
      BY <1>1, <2>1, SubSeqProperties
    <2>. QED BY <1>1, <2>2, SMTT(30)
  <1> HIDE DEF a, b
  <1>5. /\ a \o b \in Seq(S) /\ Len(a \o b) = Len(a) + Len(b)
        /\ \A j \in 1..Len(a)+Len(b) :
               (a \o b)[j] = IF j <= Len(a) THEN a[j] ELSE b[j - Len(a)]
    BY <1>3, <1>4, ConcatProperties, Zenon
  <1>6. Len(a \o b) = Len(gs) - 1 /\ DOMAIN (a \o b) = 1..Len(gs)-1
    <2>1. DOMAIN (a \o b) = 1..Len(a \o b)
      BY <1>5, LenProperties, Zenon
    <2>2. Len(a) + Len(b) = Len(gs) - 1
      BY <1>1, <1>3, <1>4
    <2>. QED BY <1>5, <2>1, <2>2, Zenon
  <1>7. ASSUME NEW j \in 1..Len(gs)-1 PROVE \E k \in 1..Len(gs) : (a \o b)[j] = gs[k]
    <2>1. CASE j <= i - 1
      <3>1. j \in 1..Len(a)+Len(b) /\ j <= Len(a) /\ j \in 1..Len(gs)
        BY <1>1, <1>3, <1>4, <2>1
      <3>2. (a \o b)[j] = a[j] /\ a[j] = gs[j]
        BY <1>1, <1>3, <1>5, <2>1, <3>1
      <3>. QED BY <3>1, <3>2, Zenon
    <2>2. CASE ~(j <= i - 1)
      <3>1. (a \o b)[j] = gs[j + 1] /\ j + 1 \in 1..Len(gs)
        <4>1. j - (i - 1) \in 1..Len(gs)-i /\ i + (j - (i - 1)) = j + 1
          BY <1>1, <2>2
        <4>2. j \in 1..Len(a)+Len(b) /\ ~(j <= Len(a)) /\ Len(a) = i - 1
          BY <1>1, <1>3, <1>4, <2>2
        <4>3. (a \o b)[j] = b[j - (i - 1)]
          BY <1>5, <4>2, Zenon
        <4>4. b[j - (i - 1)] = gs[i + (j - (i - 1))]
          BY <1>4, <4>1, Zenon
        <4>5. j + 1 \in 1..Len(gs)
          BY <1>1, <2>2
        <4>. QED BY <4>1, <4>3, <4>4, <4>5, Zenon
      <3>. QED BY <3>1, Zenon
    <2>. QED BY <2>1, <2>2, Zenon
  <1>8. Unlinked(gs, i) = a \o b
    BY Zenon DEF Unlinked, a, b
  <1>. QED BY <1>1, <1>5, <1>6, <1>7, <1>8, Zenon

\* A list with the same rings changed one by one is a list of rings.
LEMMA ListOfRings ==
    ASSUME NEW S, NEW n \in Nat, NEW f \in [1..n -> S]
    PROVE  f \in Seq(S) /\ Len(f) = n
  <1>1. f \in Seq(S)
    BY SeqDef, Zenon
  <1>2. Len(f) \in Nat /\ 1..Len(f) = 1..n
    BY <1>1, LenProperties, Zenon
  <1>. QED BY <1>1, <1>2

\* The shape of the lists of rings.
RingsType == rings \in [Ctxs -> Seq(Ring)] /\ RingsBounded

Relist(c, gs)     == [rings EXCEPT ![c] = gs]
Replace(c, i, g)  == [rings EXCEPT ![c] = [rings[c] EXCEPT ![i] = g]]

\* A context's list is replaced by another list of rings.
LEMMA Relisted ==
    ASSUME RingsType, NEW c \in Ctxs, NEW gs \in Seq(Ring), Len(gs) <= MaxRings,
           rings' = Relist(c, gs)
    PROVE  RingsType' /\ rings'[c] = gs /\ \A d \in Ctxs : d # c => rings'[d] = rings[d]
  <1>. QED BY Zenon DEF RingsType, RingsBounded, Relist

\* One ring of a context is replaced by another.
LEMMA Replaced ==
    ASSUME RingsType, NEW c \in Ctxs, NEW i \in DOMAIN rings[c], NEW g \in Ring,
           rings' = Replace(c, i, g)
    PROVE  /\ RingsType'
           /\ \A d \in Ctxs : DOMAIN rings'[d] = DOMAIN rings[d]
           /\ \A d \in Ctxs : d # c => rings'[d] = rings[d]
           /\ \A d \in Ctxs : \A j \in DOMAIN rings[d] :
                  rings'[d][j] = IF d = c /\ j = i THEN g ELSE rings[d][j]
  <1>1. rings[c] \in Seq(Ring) /\ Len(rings[c]) <= MaxRings
    BY Zenon DEF RingsType, RingsBounded
  <1>2. DOMAIN rings[c] = 1..Len(rings[c])
    BY <1>1, LenProperties, Zenon
  <1> DEFINE gs == [rings[c] EXCEPT ![i] = g]
  <1>3. gs \in Seq(Ring) /\ Len(gs) = Len(rings[c])
    BY <1>1, <1>2, ExceptSeq, Zenon
  <1>4. DOMAIN gs = DOMAIN rings[c]
    OBVIOUS
  <1>5. \A j \in DOMAIN rings[c] : gs[j] = IF j = i THEN g ELSE rings[c][j]
    OBVIOUS
  <1> HIDE DEF gs
  <1>6. RingsType' /\ rings'[c] = gs /\ \A d \in Ctxs : d # c => rings'[d] = rings[d]
    <2>1. rings' = Relist(c, gs)
      BY Zenon DEF Relist, Replace, gs
    <2>. QED BY <1>1, <1>3, <2>1, Relisted, Zenon
  <1>. QED BY <1>4, <1>5, <1>6, Zenon

\* All rings of a context are changed, each to a ring.
LEMMA Rewritten ==
    ASSUME RingsType, NEW c \in Ctxs, NEW gs \in [DOMAIN rings[c] -> Ring],
           rings' = Relist(c, gs)
    PROVE  /\ RingsType'
           /\ \A d \in Ctxs : DOMAIN rings'[d] = DOMAIN rings[d]
           /\ rings'[c] = gs
           /\ \A d \in Ctxs : d # c => rings'[d] = rings[d]
  <1>1. rings[c] \in Seq(Ring) /\ Len(rings[c]) <= MaxRings
    BY Zenon DEF RingsType, RingsBounded
  <1>2. DOMAIN rings[c] = 1..Len(rings[c]) /\ Len(rings[c]) \in Nat
    BY <1>1, LenProperties, Zenon
  <1>3. gs \in Seq(Ring) /\ Len(gs) = Len(rings[c])
    BY <1>2, ListOfRings, Zenon
  <1>4. RingsType' /\ rings'[c] = gs /\ \A d \in Ctxs : d # c => rings'[d] = rings[d]
    BY <1>1, <1>3, Relisted, Zenon
  <1>. QED BY <1>4, Zenon

\* A list of rings stays as long as it is, its threads where they are, and no ring
\* uses memory it did not use before.
Loosened(c) ==
    \E gs \in [DOMAIN rings[c] -> Ring] :
        /\ rings' = Relist(c, gs)
        /\ \A j \in DOMAIN rings[c] : /\ gs[j].thread = rings[c][j].thread
                                      /\ InUse(gs[j]) \subseteq InUse(rings[c][j])

LEMMA LoosenedEffect ==
    ASSUME RingsType, NEW c \in Ctxs, Loosened(c)
    PROVE  /\ RingsType'
           /\ \A d \in Ctxs : DOMAIN rings'[d] = DOMAIN rings[d]
           /\ \A d \in Ctxs : d # c => rings'[d] = rings[d]
           /\ \A d \in Ctxs : \A j \in DOMAIN rings[d] :
                  /\ rings'[d][j].thread = rings[d][j].thread
                  /\ InUse(rings'[d][j]) \subseteq InUse(rings[d][j])
  <1>1. PICK gs \in [DOMAIN rings[c] -> Ring] :
            /\ rings' = Relist(c, gs)
            /\ \A j \in DOMAIN rings[c] : /\ gs[j].thread = rings[c][j].thread
                                          /\ InUse(gs[j]) \subseteq InUse(rings[c][j])
    BY Zenon DEF Loosened
  <1>2. /\ RingsType'
        /\ \A d \in Ctxs : DOMAIN rings'[d] = DOMAIN rings[d]
        /\ rings'[c] = gs
        /\ \A d \in Ctxs : d # c => rings'[d] = rings[d]
    BY <1>1, Rewritten, Zenon
  <1>. QED BY <1>1, <1>2, Zenon

LEMMA RingIs ==
    ASSUME RingsType, NEW c \in Ctxs, NEW i \in DOMAIN rings[c]
    PROVE  rings[c][i] \in Ring
  <1>. QED BY LenProperties, ElementOfSeq, Zenon DEF RingsType

\* vkr_ring_stop changes nothing but started.
LEMMA StopLoosens ==
    ASSUME RingsType, NEW c \in Ctxs, NEW i \in DOMAIN rings[c], Stop(c, i)
    PROVE  Loosened(c)
  <1> DEFINE g  == [rings[c][i] EXCEPT !.started = FALSE]
             gs == [rings[c] EXCEPT ![i] = g]
  <1>1. \A j \in DOMAIN rings[c] : rings[c][j] \in Ring
    BY RingIs, Zenon
  <1>2. g \in Ring /\ g.thread = rings[c][i].thread
    BY <1>1, Zenon DEF Ring
  <1>3. InUse(g) = InUse(rings[c][i])
    BY <1>1, Zenon DEF Ring, InUse
  <1>4. rings' = Relist(c, gs)
    BY Zenon DEF Stop, Relist, RingsType
  <1>5. rings[c] = [j \in DOMAIN rings[c] |-> rings[c][j]]
    BY SeqDef, LenProperties, Zenon DEF RingsType
  <1> HIDE DEF g
  <1>6. /\ gs \in [DOMAIN rings[c] -> Ring]
        /\ \A j \in DOMAIN rings[c] : gs[j] = IF j = i THEN g ELSE rings[c][j]
    BY <1>1, <1>2, <1>5, Zenon
  <1> HIDE DEF gs
  <1>. QED BY <1>2, <1>3, <1>4, <1>6, Zenon DEF Loosened

\* vkr_cs_encoder_check_stream takes a stream away and gives none.
LEMMA UnsetIs ==
    ASSUME RingsType, NEW c \in Ctxs, NEW r, NEW n
    PROVE  /\ Unset(rings[c], r, n) \in [DOMAIN rings[c] -> Ring]
           /\ \A j \in DOMAIN rings[c] :
                  /\ Unset(rings[c], r, n)[j].thread = rings[c][j].thread
                  /\ InUse(Unset(rings[c], r, n)[j]) \subseteq InUse(rings[c][j])
  <1> DEFINE gs == Unset(rings[c], r, n)
  <1>1. \A j \in DOMAIN rings[c] : rings[c][j] \in Ring
    BY RingIs, Zenon
  <1>2. gs \in [DOMAIN rings[c] -> Ring]
    BY <1>1, Zenon DEF Ring, Unset
  <1>3. \A j \in DOMAIN rings[c] :
            /\ gs[j].thread = rings[c][j].thread /\ gs[j].res = rings[c][j].res
            /\ gs[j].exec = rings[c][j].exec /\ gs[j].reply \in {rings[c][j].reply, 0}
    BY <1>1, Zenon DEF Ring, Unset
  <1> HIDE DEF gs
  <1>4. \A j \in DOMAIN rings[c] : InUse(gs[j]) \subseteq InUse(rings[c][j])
    BY <1>3, Zenon DEF InUse
  <1>. QED BY <1>2, <1>3, <1>4, Zenon DEF gs

\* A resource that no ring uses is then in no ring.
LEMMA UnsetEffect ==
    ASSUME RingsType, NEW c \in Ctxs, NEW r \in Res,
           \A j \in DOMAIN rings[c] : ~Uses(rings[c][j], r),
           rings' = Relist(c, Unset(rings[c], r, Len(rings[c])))
    PROVE  Loosened(c) /\ \A j \in DOMAIN rings[c] : r \notin InUse(rings'[c][j])
  <1> DEFINE gs == Unset(rings[c], r, Len(rings[c]))
  <1>1. /\ gs \in [DOMAIN rings[c] -> Ring]
        /\ \A j \in DOMAIN rings[c] : /\ gs[j].thread = rings[c][j].thread
                                      /\ InUse(gs[j]) \subseteq InUse(rings[c][j])
    BY UnsetIs, Zenon
  <1>2. rings' = Relist(c, gs)
    BY Zenon
  <1>3. rings'[c] = gs
    BY <1>2, Zenon DEF Relist, RingsType
  <1>4. r # 0
    BY ContextConstants, Zenon
  <1>5. ASSUME NEW j \in DOMAIN rings[c] PROVE r \notin InUse(gs[j])
    <2>1. rings[c][j] \in Ring
      BY RingIs, Zenon
    <2>2. j <= Len(rings[c])
      <3>1. rings[c] \in Seq(Ring)
        BY Zenon DEF RingsType
      <3>2. j \in 1..Len(rings[c]) /\ Len(rings[c]) \in Nat
        BY <3>1, LenProperties, Zenon
      <3>. QED BY <3>2
    <2>3. /\ rings[c][j].res # r /\ rings[c][j].exec # r
          /\ rings[c][j].reply = r => ~rings[c][j].busy
      BY Zenon DEF Uses
    <2>4. /\ gs[j].res = rings[c][j].res /\ gs[j].exec = rings[c][j].exec
          /\ gs[j].reply = IF rings[c][j].reply = r /\ j <= Len(rings[c])
                               /\ ~rings[c][j].busy
                           THEN 0 ELSE rings[c][j].reply
      BY <2>1, Zenon DEF Ring, Unset
    <2>. QED BY <1>4, <2>2, <2>3, <2>4, Zenon DEF InUse
  <1> HIDE DEF gs
  <1>. QED BY <1>1, <1>2, <1>3, <1>5, Zenon DEF Loosened

\* The walk over the rings takes streams away up to the ring it stops.
LEMMA WalkLoosens ==
    ASSUME RingsType, NEW c \in Ctxs, NEW i \in DOMAIN rings[c], NEW r, NEW n,
           rings' = Relist(c, [Unset(rings[c], r, n) EXCEPT ![i].started = FALSE])
    PROVE  Loosened(c)
  <1> DEFINE us == Unset(rings[c], r, n)
             g  == [us[i] EXCEPT !.started = FALSE]
             gs == [us EXCEPT ![i] = g]
  <1>1. /\ us \in [DOMAIN rings[c] -> Ring]
        /\ \A j \in DOMAIN rings[c] : /\ us[j].thread = rings[c][j].thread
                                      /\ InUse(us[j]) \subseteq InUse(rings[c][j])
    BY UnsetIs, Zenon
  <1>2. rings' = Relist(c, gs)
    BY Zenon
  <1> HIDE DEF us
  <1>3. us[i] \in Ring
    BY <1>1, Zenon
  <1>4. g \in Ring /\ g.thread = us[i].thread
    BY <1>3, Zenon DEF Ring
  <1>5. InUse(g) = InUse(us[i])
    BY <1>3, Zenon DEF Ring, InUse
  <1> HIDE DEF g
  <1>6. /\ gs \in [DOMAIN rings[c] -> Ring]
        /\ \A j \in DOMAIN rings[c] : gs[j] = IF j = i THEN g ELSE us[j]
    BY <1>1, <1>4, Zenon
  <1> HIDE DEF gs
  <1>7. ASSUME NEW j \in DOMAIN rings[c]
        PROVE  gs[j].thread = rings[c][j].thread /\ InUse(gs[j]) \subseteq InUse(rings[c][j])
    <2>1. /\ us[j].thread = rings[c][j].thread
          /\ InUse(us[j]) \subseteq InUse(rings[c][j])
      BY <1>1, Zenon
    <2>2. CASE j = i
      BY <1>4, <1>5, <1>6, <2>1, <2>2, Zenon
    <2>3. CASE j # i
      BY <1>6, <2>1, <2>3, Zenon
    <2>. QED BY <2>2, <2>3, Zenon
  <1>. QED BY <1>2, <1>6, <1>7, Zenon DEF Loosened

\* vkr_context_add_resource changes no thread; what rings use is what they used
\* before and is not the resource that is replaced.
LEMMA AddEffect ==
    ASSUME RingsType, NEW c \in Ctxs, NEW r \in Res, NEW e, AddResource(c, r, e)
    PROVE  Loosened(c) /\ \A j \in DOMAIN rings[c] : r \notin InUse(rings'[c][j])
  <1> DEFINE gs == Orphaned(rings[c], r)
  <1>1. \A j \in DOMAIN rings[c] : rings[c][j] \in Ring
    BY RingIs, Zenon
  <1>2. r # 0
    BY ContextConstants, Zenon
  <1>3. gs \in [DOMAIN rings[c] -> Ring]
    BY <1>1, Zenon DEF Ring, Orphaned
  <1>4. \A j \in DOMAIN rings[c] :
            /\ gs[j].thread = rings[c][j].thread
            /\ gs[j].res = IF rings[c][j].res = r THEN 0 ELSE rings[c][j].res
            /\ gs[j].reply = IF rings[c][j].reply = r THEN 0 ELSE rings[c][j].reply
            /\ gs[j].exec = IF rings[c][j].exec = r THEN 0 ELSE rings[c][j].exec
    BY <1>1, Zenon DEF Ring, Orphaned
  <1>5. rings' = Relist(c, gs) /\ rings'[c] = gs
    BY Zenon DEF AddResource, Relist, RingsType
  <1> HIDE DEF gs
  <1>6. \A j \in DOMAIN rings[c] :
            InUse(gs[j]) \subseteq InUse(rings[c][j]) /\ r \notin InUse(gs[j])
    BY <1>2, <1>4, Zenon DEF InUse
  <1>. QED BY <1>3, <1>4, <1>5, <1>6, Zenon DEF Loosened

\* A ring that was joined leaves the list as it was otherwise.
LEMMA JoinedEffect ==
    ASSUME RingsType, NEW c \in Ctxs, NEW i \in DOMAIN rings[c], Joined(c, i)
    PROVE  /\ RingsType'
           /\ \A d \in Ctxs : \A j \in DOMAIN rings'[d] :
                  \E k \in DOMAIN rings[d] : rings'[d][j] = rings[d][k]
           /\ \A d \in Ctxs : d # c => rings'[d] = rings[d]
  <1> DEFINE gs == Unlinked(rings[c], i)
  <1>1. rings[c] \in Seq(Ring) /\ Len(rings[c]) <= MaxRings /\ Len(rings[c]) \in Nat
    BY LenProperties, Zenon DEF RingsType, RingsBounded
  <1>2. /\ gs \in Seq(Ring) /\ Len(gs) = Len(rings[c]) - 1
        /\ \A j \in DOMAIN gs : \E k \in DOMAIN rings[c] : gs[j] = rings[c][k]
    BY <1>1, UnlinkedRings, Zenon
  <1>3. rings' = Relist(c, gs)
    BY Zenon DEF Joined, Relist, RingsType
  <1> HIDE DEF gs
  <1>4. Len(gs) <= MaxRings
    BY <1>1, <1>2, ContextConstants
  <1>5. RingsType' /\ rings'[c] = gs /\ \A d \in Ctxs : d # c => rings'[d] = rings[d]
    BY <1>2, <1>3, <1>4, Relisted, Zenon
  <1>. QED BY <1>2, <1>5

\* vkCreateRingMESA adds one ring, in shared memory and without streams.
LEMMA ListEffect ==
    ASSUME RingsType, NEW c \in Ctxs, NEW r \in Res, NEW run \in BOOLEAN,
           ListRing(c, r, run)
    PROVE  /\ RingsType'
           /\ \A d \in Ctxs : d # c => rings'[d] = rings[d]
           /\ \A j \in DOMAIN rings'[c] :
                  \/ j \in DOMAIN rings[c] /\ rings'[c][j] = rings[c][j]
                  \/ InUse(rings'[c][j]) \subseteq {r} /\ rings'[c][j].thread # "joined"
  <1> DEFINE g == [res |-> r, reply |-> 0, busy |-> FALSE, exec |-> 0, started |-> run,
                   thread |-> IF run THEN "run" ELSE "none"]
             gs == Append(rings[c], g)
  <1>1. rings[c] \in Seq(Ring) /\ Len(rings[c]) \in Nat /\ DOMAIN rings[c] = 1..Len(rings[c])
    BY LenProperties, Zenon DEF RingsType
  <1>2. g \in Ring
    BY Zenon DEF Ring
  <1>3. InUse(g) \subseteq {r} /\ g.thread # "joined"
    BY DEF InUse
  <1>4. rings' = Relist(c, gs)
    BY Zenon DEF ListRing, Relist, RingsType
  <1> HIDE DEF g
  <1>5. /\ gs \in Seq(Ring) /\ Len(gs) = Len(rings[c]) + 1
        /\ \A j \in 1..Len(rings[c]) : gs[j] = rings[c][j]
        /\ gs[Len(rings[c]) + 1] = g
    BY <1>1, <1>2, AppendProperties
  <1> HIDE DEF gs
  <1>6. DOMAIN gs = 1..Len(rings[c])+1
    BY <1>5, LenProperties, Zenon
  <1>7. Len(gs) <= MaxRings
    BY <1>1, <1>5, ContextConstants DEF ListRing
  <1>8. RingsType' /\ rings'[c] = gs /\ \A d \in Ctxs : d # c => rings'[d] = rings[d]
    BY <1>4, <1>5, <1>7, Relisted, Zenon
  <1>9. ASSUME NEW j \in DOMAIN gs
        PROVE  (j \in DOMAIN rings[c] /\ gs[j] = rings[c][j]) \/ gs[j] = g
    BY <1>1, <1>5, <1>6
  <1>. QED BY <1>3, <1>8, <1>9, Zenon

-----------------------------------------------------------------------------
(***************************************************************************)
(* The life of contexts and threads                                        *)
(***************************************************************************)
\* Where the VMM's thread may be.
Cmd == [op : {"idle", "ring_join", "detach", "detach_join", "monitor", "monitor_join",
              "rings", "rings_join", "instance", "resources", "no_ring", "no_monitor"},
        ctx : Ctxs \cup {0}, res : Res \cup {0}, ring : 0..MaxRings, rest : SUBSET Ctxs]

\* The types of the tables and the threads.
TablesType ==
    /\ core \in [Res -> {"", "shm", "dmabuf"}]
    /\ adapters \subseteq Ctxs /\ freed \subseteq Ctxs /\ fatal \subseteq Ctxs
    /\ known \in [Ctxs -> SUBSET Res]
    /\ table \in [Ctxs -> [Res -> {"", "shm", "dmabuf"}]]

ThreadsType ==
    /\ monitor \in [Ctxs -> [started : BOOLEAN,
                             pc : {"none", "never", "top", "lock", "wait", "done"}]]
    /\ sync \in [Ctxs -> {"idle", "found"}]

\* The inductive invariant.
LifeInv ==
    /\ cmd \in Cmd /\ TablesType /\ ThreadsType /\ RingsType
    /\ Stages /\ Joining /\ MonitorKnown /\ SyncKnown /\ Emptied

LEMMA LifeTyped == LifeInv => TypeOK
  <1>. QED BY Zenon DEF LifeInv, Cmd, TablesType, ThreadsType, RingsType, TypeOK, Ring

LEMMA RingsSame == RingsType /\ UNCHANGED rings => RingsType'
  <1>. QED BY Zenon DEF RingsType, RingsBounded

LEMMA IdleType == Idle \in Cmd
  <1>1. 0 \in 0..MaxRings
    BY ContextConstants
  <1>. QED BY <1>1, Zenon DEF Idle, Cmd

\* The call goes on with another stage.
LEMMA GoEffect ==
    ASSUME cmd \in Cmd, NEW op, Go(op),
           op \in {"monitor_join", "rings", "instance", "resources", "no_monitor"}
    PROVE  cmd' \in Cmd /\ cmd'.op = op /\ cmd'.ctx = cmd.ctx
  <1>1. 0 \in 0..MaxRings
    BY ContextConstants
  <1>. QED BY <1>1, Zenon DEF Go, Cmd

LEMMA LifeInit == Init => LifeInv
  <1> SUFFICES ASSUME Init PROVE LifeInv
    OBVIOUS
  <1>1. cmd \in Cmd
    BY IdleType, Zenon DEF Init
  <1>2. TablesType
    BY Zenon DEF Init, TablesType
  <1>3. ThreadsType
    BY Zenon DEF Init, ThreadsType, NoMonitor
  <1>4. RingsType
    <2>1. <<>> \in Seq(Ring) /\ Len(<<>>) = 0
      BY EmptySeq, Zenon
    <2>2. rings = [c \in Ctxs |-> <<>>]
      BY Zenon DEF Init
    <2>. QED BY <2>1, <2>2, ContextConstants DEF RingsType, RingsBounded
  <1>5. Stages
    BY Zenon DEF Init, Stages, Idle, Crashed, Teardown
  <1>6. Joining
    <2>1. \A c \in Ctxs : rings[c] = <<>>
      BY Zenon DEF Init
    <2>2. DOMAIN <<>> = {}
      OBVIOUS
    <2>3. cmd.op = "idle"
      BY Zenon DEF Init, Idle
    <2>. QED BY <2>1, <2>2, <2>3, Zenon DEF Joining
  <1>7. MonitorKnown /\ SyncKnown /\ Emptied
    BY Zenon DEF Init, MonitorKnown, SyncKnown, Emptied, Idle, NoMonitor
  <1>. QED BY <1>1, <1>2, <1>3, <1>4, <1>5, <1>6, <1>7, Zenon DEF LifeInv

-----------------------------------------------------------------------------
(***************************************************************************)
(* The kinds of steps.  Actions that do the same to what the invariant is  *)
(* about are proved together.                                              *)
(***************************************************************************)
\* A step of the monitor that exists.
MonitorMoves(c) ==
    /\ ~Crashed /\ UNCHANGED <<cmd, objects, rings, sync>>
    /\ monitor[c].pc \in {"top", "lock", "wait"}
    /\ \E to \in {"top", "lock", "wait", "done"} : monitor' = [monitor EXCEPT ![c].pc = to]

\* A step of a ring thread, to memory that is shared if it is new to it.
RingMoves(c, i) ==
    /\ fatal' \in {fatal, fatal \cup {c}}
    /\ \E g \in Ring :
           /\ RingSteps(c, i, g) /\ g.thread # "joined"
           /\ \A r \in InUse(g) : r \in InUse(rings[c][i]) \/ table[c][r] = "shm"

\* A resource is filed in a context, or not.
Filed(c, r) ==
    /\ cmd = Idle /\ c \in adapters
    /\ core' \in [Res -> {"", "shm", "dmabuf"}]
    /\ UNCHANGED <<cmd, adapters, freed, fatal, threads>>
    /\ \/ UNCHANGED <<known, table, rings>>
       \/ /\ \E e \in {"shm", "dmabuf"} : AddResource(c, r, e)
          /\ known' = [known EXCEPT ![c] = @ \cup {r}]

\* A ring is listed, with or without a thread, and with it perhaps a monitor.
Listed(c, r, run) ==
    /\ ListRing(c, r, run) /\ fatal' \in {fatal, fatal \cup {c}}
    /\ \/ UNCHANGED monitor
       \/ /\ ~monitor[c].started
          /\ \E pc \in {"top", "never"} :
                 monitor' = [monitor EXCEPT ![c] = [started |-> TRUE, pc |-> pc]]

\* A join ends, and the call goes on.
JoinEnds ==
    /\ UNCHANGED <<objects, threads>>
    /\ Joined(cmd.ctx, cmd.ring)
    /\ \/ cmd.op = "ring_join" /\ cmd' = Idle
       \/ cmd.op = "detach_join" /\ cmd' = [cmd EXCEPT !.op = "detach", !.ring = 0]
       \/ cmd.op = "rings_join" /\ cmd' = [cmd EXCEPT !.op = "rings", !.ring = 0]

\* There is nothing to join.
JoinFails ==
    /\ UNCHANGED <<objects, threads>>
    /\ cmd.op \in {"ring_join", "detach_join", "rings_join"}
    /\ JoinCrashes(cmd.ctx, cmd.ring)

\* A ring is told to stop; the call goes on with the join.
Stops(c, i) ==
    /\ Loosened(c) /\ fatal' \in {fatal, fatal \cup {c}}
    /\ UNCHANGED <<core, adapters, freed, known, table, threads>>
    /\ \/ /\ cmd = Idle /\ c \in adapters
          /\ cmd' = [Idle EXCEPT !.op = "ring_join", !.ctx = c, !.ring = i]
       \/ /\ cmd.op = "detach" /\ cmd.ctx = c
          /\ cmd' = [cmd EXCEPT !.op = "detach_join", !.ring = i]
       \/ /\ cmd.op = "rings" /\ cmd.ctx = c /\ i = 1
          /\ cmd' = [cmd EXCEPT !.op = "rings_join", !.ring = i]

\* A monitor that is told to stop; one that waits wakes up.
Stopped(m) == [started |-> FALSE, pc |-> IF m.pc = "wait" THEN "top" ELSE m.pc]

\* There is no ring left.
RingsDone ==
    /\ cmd.op = "rings" /\ rings[cmd.ctx] = <<>> /\ Go("instance")
    /\ UNCHANGED <<objects, rings, threads>>

\* A call goes on to detach a resource from the first of some contexts.
Detaches(r) ==
    /\ cmd = Idle
    /\ \/ UNCHANGED cmd
       \/ \E cs \in SUBSET adapters : Detaching(cs, r, "detach")
    /\ core' \in [Res -> {"", "shm", "dmabuf"}]
    /\ UNCHANGED <<adapters, freed, known, table, fatal, rings, threads>>

\* The calls that file, detach and list.
LEMMA Kinds ==
    ASSUME LifeInv, NEW c \in Ctxs, NEW r \in Res
    PROVE  /\ AttachResource(c, r) => Filed(c, r)
           /\ \A type \in {"shm", "dmabuf"} : CreateBlob(c, r, type) => Filed(c, r)
           /\ CreateRing(c, r) => Listed(c, r, TRUE)
           /\ CreateRingNoThread(c, r) \/ CreateRingNoMonitor(c, r) => Listed(c, r, FALSE)
           /\ \A type \in {"shm", "dmabuf"} : ImportBlob(r, type) => Detaches(r)
           /\ DetachResource(c, r) \/ ResourceUnref(r) => Detaches(r)
  <1>1. AttachResource(c, r) => Filed(c, r)
    <2> SUFFICES ASSUME AttachResource(c, r) PROVE Filed(c, r)
      OBVIOUS
    <2>1. core[r] \in {"shm", "dmabuf"} /\ core' \in [Res -> {"", "shm", "dmabuf"}]
      BY Zenon DEF AttachResource, LifeInv, TablesType
    <2>. QED BY <2>1, Zenon DEF AttachResource, Filed
  <1>2. \A type \in {"shm", "dmabuf"} : CreateBlob(c, r, type) => Filed(c, r)
    BY Zenon DEF CreateBlob, Made, Refused, Filed, LifeInv, TablesType
  <1>3. CreateRing(c, r) => Listed(c, r, TRUE)
    BY Zenon DEF CreateRing, Listed, StartMonitor
  <1>4. CreateRingNoThread(c, r) \/ CreateRingNoMonitor(c, r) => Listed(c, r, FALSE)
    BY Zenon DEF CreateRingNoThread, CreateRingNoMonitor, Listed, StartMonitor
  <1>5. /\ \A type \in {"shm", "dmabuf"} : ImportBlob(r, type) => Detaches(r)
        /\ DetachResource(c, r) \/ ResourceUnref(r) => Detaches(r)
    <2>1. \A type \in {"shm", "dmabuf"} : ImportBlob(r, type) => Detaches(r)
      BY Zenon DEF ImportBlob, Detaches, LifeInv, TablesType
    <2>2. DetachResource(c, r) => Detaches(r)
      BY Zenon DEF DetachResource, Detaches, LifeInv, TablesType, objects
    <2>3. ResourceUnref(r) => Detaches(r)
      BY Zenon DEF ResourceUnref, Detaches, LifeInv, TablesType
    <2>. QED BY <2>1, <2>2, <2>3, Zenon
  <1>. QED BY <1>1, <1>2, <1>3, <1>4, <1>5, Zenon

\* What a ring thread does.
LEMMA RingKinds ==
    ASSUME RingsType, NEW c \in Ctxs, NEW i \in DOMAIN rings[c],
           \/ RingExit(c, i) \/ RingFatal(c, i) \/ RingExecuteEnd(c, i)
           \/ RingAcquire(c, i) \/ RingRelease(c, i)
           \/ \E r \in Res : RingSetReply(c, i, r) \/ RingExecute(c, i, r)
    PROVE  RingMoves(c, i)
  <1> DEFINE h == rings[c][i]
  <1>1. h \in Ring
    BY RingIs, Zenon
  <1>2. ASSUME NEW g \in Ring, RingSteps(c, i, g), g.thread \in {h.thread, "done"},
               \A r \in InUse(g) : r \in InUse(h) \/ table[c][r] = "shm",
               fatal' \in {fatal, fatal \cup {c}}
        PROVE  RingMoves(c, i)
    <2>1. g.thread # "joined"
      BY <1>2, Zenon DEF RingSteps
    <2>. QED BY <1>2, <2>1, Zenon DEF RingMoves
  <1>3. CASE RingExit(c, i) \/ RingFatal(c, i)
    <2> DEFINE g == [h EXCEPT !.thread = "done", !.busy = FALSE, !.exec = 0]
    <2>1. g \in Ring /\ g.thread = "done"
      BY <1>1, Zenon DEF Ring
    <2>2. g.res = h.res /\ g.reply = h.reply /\ g.exec = 0
      BY <1>1, Zenon DEF Ring
    <2>3. RingSteps(c, i, g) /\ fatal' \in {fatal, fatal \cup {c}}
      BY <1>3, Zenon DEF RingExit, RingFatal, RingLeaves
    <2> HIDE DEF g, h
    <2>4. \A r \in InUse(g) : r \in InUse(h)
      BY <2>2, Zenon DEF InUse
    <2>. QED BY <1>2, <2>1, <2>3, <2>4, Zenon
  <1>4. CASE RingExecuteEnd(c, i)
    <2> DEFINE g == [h EXCEPT !.exec = 0]
    <2>1. g \in Ring /\ g.thread = h.thread
      BY <1>1, Zenon DEF Ring
    <2>2. g.res = h.res /\ g.reply = h.reply /\ g.exec = 0
      BY <1>1, Zenon DEF Ring
    <2>3. RingSteps(c, i, g) /\ fatal' \in {fatal, fatal \cup {c}}
      BY <1>4, Zenon DEF RingExecuteEnd
    <2> HIDE DEF g, h
    <2>4. \A r \in InUse(g) : r \in InUse(h)
      BY <2>2, Zenon DEF InUse
    <2>. QED BY <1>2, <2>1, <2>3, <2>4, Zenon
  <1>5. ASSUME NEW b \in BOOLEAN, RingSteps(c, i, [h EXCEPT !.busy = b]), UNCHANGED fatal
        PROVE  RingMoves(c, i)
    <2> DEFINE g == [h EXCEPT !.busy = b]
    <2>1. g \in Ring /\ g.thread = h.thread
      BY <1>1, Zenon DEF Ring
    <2>2. g.res = h.res /\ g.reply = h.reply /\ g.exec = h.exec
      BY <1>1, Zenon DEF Ring
    <2>3. RingSteps(c, i, g) /\ fatal' \in {fatal, fatal \cup {c}}
      BY <1>5, Zenon
    <2> HIDE DEF g, h
    <2>4. \A r \in InUse(g) : r \in InUse(h)
      BY <2>2, Zenon DEF InUse
    <2>. QED BY <1>2, <2>1, <2>3, <2>4, Zenon
  <1>6. CASE RingAcquire(c, i) \/ RingRelease(c, i)
    BY <1>5, <1>6, Zenon DEF RingAcquire, RingRelease
  <1>7. ASSUME NEW r \in Res, RingSetReply(c, i, r) PROVE RingMoves(c, i)
    <2> DEFINE g == [h EXCEPT !.reply = r]
    <2>1. g \in Ring /\ g.thread = h.thread
      BY <1>1, Zenon DEF Ring
    <2>2. g.res = h.res /\ g.reply = r /\ g.exec = h.exec
      BY <1>1, Zenon DEF Ring
    <2>3. RingSteps(c, i, g) /\ table[c][r] = "shm" /\ fatal' \in {fatal, fatal \cup {c}}
      BY <1>7, Zenon DEF RingSetReply, RingSetsStream
    <2> HIDE DEF g, h
    <2>4. \A q \in InUse(g) : q \in InUse(h) \/ table[c][q] = "shm"
      BY <2>2, <2>3, Zenon DEF InUse
    <2>. QED BY <1>2, <2>1, <2>3, <2>4, Zenon
  <1>8. ASSUME NEW r \in Res, RingExecute(c, i, r) PROVE RingMoves(c, i)
    <2> DEFINE g == [h EXCEPT !.exec = r]
    <2>1. g \in Ring /\ g.thread = h.thread
      BY <1>1, Zenon DEF Ring
    <2>2. g.res = h.res /\ g.reply = h.reply /\ g.exec = r
      BY <1>1, Zenon DEF Ring
    <2>3. RingSteps(c, i, g) /\ table[c][r] = "shm" /\ fatal' \in {fatal, fatal \cup {c}}
      BY <1>8, Zenon DEF RingExecute, RingSetsStream
    <2> HIDE DEF g, h
    <2>4. \A q \in InUse(g) : q \in InUse(h) \/ table[c][q] = "shm"
      BY <2>2, <2>3, Zenon DEF InUse
    <2>. QED BY <1>2, <2>1, <2>3, <2>4, Zenon
  <1>. QED BY <1>3, <1>4, <1>6, <1>7, <1>8, Zenon

-----------------------------------------------------------------------------
(***************************************************************************)
(* Each kind of step keeps the invariant                                   *)
(***************************************************************************)
\* A step of the monitor.
LEMMA LifeMonitor ==
    ASSUME LifeInv, NEW c \in Ctxs, MonitorMoves(c)
    PROVE  LifeInv'
  <1> USE DEF LifeInv
  <1>1. (cmd \in Cmd)'
    BY Zenon DEF MonitorMoves, objects
  <1>2. TablesType'
    BY Zenon DEF TablesType, MonitorMoves, objects
  <1>3. ThreadsType'
    BY DEF ThreadsType, MonitorMoves, objects
  <1>4. RingsType'
    BY RingsSame, Zenon DEF MonitorMoves
  <1>5. Stages'
    BY Zenon DEF Stages, MonitorMoves, objects, Crashed, Teardown
  <1>6. Joining'
    BY Zenon DEF Joining, MonitorMoves, objects
  <1>7. MonitorKnown'
    BY DEF MonitorKnown, MonitorMoves, objects, ThreadsType, Crashed
  <1>8. SyncKnown'
    BY Zenon DEF SyncKnown, MonitorMoves, objects
  <1>9. Emptied'
    BY Zenon DEF Emptied, MonitorMoves, objects
  <1>. QED BY <1>1, <1>2, <1>3, <1>4, <1>5, <1>6, <1>7, <1>8, <1>9, Zenon

\* A step of a ring thread.
LEMMA LifeRing ==
    ASSUME LifeInv, NEW c \in Ctxs, NEW i \in DOMAIN rings[c], RingMoves(c, i)
    PROVE  LifeInv'
  <1> USE DEF LifeInv
  <1>1. PICK g \in Ring : RingSteps(c, i, g) /\ g.thread # "joined"
    BY Zenon DEF RingMoves
  <1>2. /\ RingsType'
        /\ \A d \in Ctxs : DOMAIN rings'[d] = DOMAIN rings[d]
        /\ \A d \in Ctxs : d # c => rings'[d] = rings[d]
        /\ \A d \in Ctxs : \A j \in DOMAIN rings[d] :
               rings'[d][j] = IF d = c /\ j = i THEN g ELSE rings[d][j]
    <2>1. rings' = Replace(c, i, g)
      BY <1>1, Zenon DEF RingSteps, Replace, RingsType
    <2>. QED BY <2>1, Replaced, Zenon
  <1>3. /\ ~Crashed /\ UNCHANGED <<cmd, core, adapters, freed, known, table, threads>>
        /\ fatal' \in {fatal, fatal \cup {c}}
    BY <1>1, Zenon DEF RingMoves, RingSteps
  <1>4. rings[c] # <<>>
    OBVIOUS
  <1>5. (cmd \in Cmd)'
    BY <1>3, Zenon
  <1>6. TablesType'
    BY <1>3, Zenon DEF TablesType
  <1>7. ThreadsType'
    BY <1>3, Zenon DEF ThreadsType, threads
  <1>8. RingsType'
    BY <1>2, Zenon
  <1>9. Stages'
    BY <1>3, Zenon DEF Stages, Crashed, Teardown
  <1>10. Joining'
    <2>1. ASSUME NEW d \in Ctxs, NEW j \in DOMAIN rings'[d]
          PROVE  rings'[d][j].thread # "joined"
      <3>1. j \in DOMAIN rings[d]
        BY <1>2, Zenon
      <3>2. rings[d][j].thread # "joined"
        BY <3>1, Zenon DEF Joining
      <3>3. rings'[d][j] \in {g, rings[d][j]}
        BY <1>2, <3>1, Zenon
      <3>. QED BY <1>1, <3>2, <3>3, Zenon
    <2>2. cmd'.op # "no_ring"
      BY <1>3, Zenon DEF Crashed
    <2>3. cmd.op \in {"ring_join", "detach_join", "rings_join"} => cmd.ctx \in Ctxs
      BY Zenon DEF Stages, Teardown, TablesType
    <2>. QED BY <1>2, <1>3, <2>1, <2>2, <2>3, Zenon DEF Joining
  <1>11. MonitorKnown'
    BY <1>3, Zenon DEF MonitorKnown, threads
  <1>12. SyncKnown'
    BY <1>3, Zenon DEF SyncKnown, threads
  <1>13. Emptied'
    <2>1. \A d \in freed : d \in Ctxs /\ d # c
      BY <1>4, Zenon DEF Emptied, TablesType
    <2>2. cmd.op \in {"instance", "resources"} => cmd.ctx \in Ctxs /\ cmd.ctx # c
      BY <1>4, Zenon DEF Emptied, Stages, Teardown
    <2>. QED BY <1>2, <1>3, <2>1, <2>2, Zenon DEF Emptied
  <1>. QED BY <1>5, <1>6, <1>7, <1>8, <1>9, <1>10, <1>11, <1>12, <1>13, Zenon

\* A context is made of what was freed.
LEMMA LifeCreate ==
    ASSUME LifeInv, NEW c \in Ctxs, ContextCreate(c)
    PROVE  LifeInv'
  <1> USE DEF LifeInv
  <1>1. (cmd \in Cmd)'
    BY Zenon DEF ContextCreate, threads
  <1>2. TablesType'
    BY Zenon DEF TablesType, ContextCreate, threads
  <1>3. ThreadsType'
    BY Zenon DEF ThreadsType, ContextCreate, threads
  <1>4. RingsType'
    BY RingsSame, Zenon DEF ContextCreate
  <1>5. Stages'
    BY Zenon DEF Stages, ContextCreate, threads, Idle, Crashed, Teardown
  <1>6. Joining'
    BY Zenon DEF Joining, ContextCreate, threads
  <1>7. MonitorKnown'
    BY Zenon DEF MonitorKnown, ContextCreate, threads
  <1>8. SyncKnown'
    BY Zenon DEF SyncKnown, ContextCreate, threads
  <1>9. Emptied'
    BY Zenon DEF Emptied, ContextCreate, threads
  <1>. QED BY <1>1, <1>2, <1>3, <1>4, <1>5, <1>6, <1>7, <1>8, <1>9, Zenon

\* A sync thread takes up a fence or has retired it.
LEMMA LifeRetire ==
    ASSUME LifeInv, NEW c \in Ctxs, RetireLookup(c) \/ RetireCall(c)
    PROVE  LifeInv'
  <1> USE DEF LifeInv
  <1>1. (cmd \in Cmd)'
    BY Zenon DEF RetireLookup, RetireCall, objects
  <1>2. TablesType'
    BY Zenon DEF TablesType, RetireLookup, RetireCall, objects
  <1>3. ThreadsType'
    BY Zenon DEF ThreadsType, RetireLookup, RetireCall, objects
  <1>4. RingsType'
    BY RingsSame, Zenon DEF RetireLookup, RetireCall
  <1>5. Stages'
    BY Zenon DEF Stages, RetireLookup, RetireCall, objects, Crashed, Teardown
  <1>6. Joining'
    BY Zenon DEF Joining, RetireLookup, RetireCall, objects
  <1>7. MonitorKnown'
    BY Zenon DEF MonitorKnown, RetireLookup, RetireCall, objects
  <1>8. SyncKnown'
    <2>1. CASE RetireLookup(c)
      <3>1. c \notin freed /\ (cmd.ctx = c => cmd.op # "resources")
        BY <2>1, Zenon DEF RetireLookup, Stages, Teardown
      <3>. QED BY <2>1, <3>1, Zenon DEF RetireLookup, SyncKnown, ThreadsType, objects
    <2>2. CASE RetireCall(c)
      BY <2>2, Zenon DEF RetireCall, SyncKnown, ThreadsType, objects
    <2>. QED BY <2>1, <2>2, Zenon
  <1>9. Emptied'
    <2>1. UNCHANGED <<cmd, freed, known, table, rings>>
      BY Zenon DEF RetireLookup, RetireCall, objects
    <2>. QED BY <2>1, Zenon DEF Emptied
  <1>. QED BY <1>1, <1>2, <1>3, <1>4, <1>5, <1>6, <1>7, <1>8, <1>9, Zenon

\* A resource is filed.
LEMMA LifeFiled ==
    ASSUME LifeInv, NEW c \in Ctxs, NEW r \in Res, Filed(c, r)
    PROVE  LifeInv'
  <1> USE DEF LifeInv
  <1>1. /\ RingsType'
        /\ \A d \in Ctxs : DOMAIN rings'[d] = DOMAIN rings[d]
        /\ \A d \in Ctxs : d # c => rings'[d] = rings[d]
        /\ \A d \in Ctxs : \A j \in DOMAIN rings[d] :
               rings'[d][j].thread = rings[d][j].thread
    <2>1. CASE UNCHANGED rings
      BY <2>1, RingsSame, Zenon
    <2>2. ASSUME NEW e, AddResource(c, r, e) 
          PROVE  /\ RingsType'
                 /\ \A d \in Ctxs : DOMAIN rings'[d] = DOMAIN rings[d]
                 /\ \A d \in Ctxs : d # c => rings'[d] = rings[d]
                 /\ \A d \in Ctxs : \A j \in DOMAIN rings[d] :
                        rings'[d][j].thread = rings[d][j].thread
      <3>1. Loosened(c)
        BY <2>2, AddEffect, Zenon
      <3>. QED BY <3>1, LoosenedEffect, Zenon
    <2>. QED BY <2>1, <2>2, Zenon DEF Filed
  <1>2. cmd'.op = "idle" /\ cmd.op = "idle"
    BY Zenon DEF Filed, Idle
  <1>3. (cmd \in Cmd)'
    BY Zenon DEF Filed, threads
  <1>4. TablesType'
    <2>1. CASE UNCHANGED <<known, table>>
      BY <2>1, Zenon DEF TablesType, Filed
    <2>2. ASSUME NEW e \in {"shm", "dmabuf"}, AddResource(c, r, e),
                 known' = [known EXCEPT ![c] = @ \cup {r}]
          PROVE  TablesType'
      BY <2>2, Zenon DEF TablesType, Filed, AddResource
    <2>. QED BY <2>1, <2>2, Zenon DEF Filed
  <1>5. ThreadsType'
    BY Zenon DEF ThreadsType, Filed, threads
  <1>6. RingsType'
    BY <1>1, Zenon
  <1>7. Stages'
    BY Zenon DEF Stages, Filed, threads, Idle, Crashed, Teardown
  <1>8. Joining'
    BY <1>1, <1>2 DEF Joining
  <1>9. MonitorKnown'
    BY Zenon DEF MonitorKnown, Filed, threads
  <1>10. SyncKnown'
    BY Zenon DEF SyncKnown, Filed, threads
  <1>11. Emptied'
    <2>1. \A d \in freed : d \in Ctxs /\ d # c
      BY Zenon DEF Stages, TablesType, Filed
    <2>2. \A d \in freed : known'[d] = known[d] /\ table'[d] = table[d]
      BY <2>1, Zenon DEF Filed, AddResource, TablesType
    <2>3. UNCHANGED freed
      BY Zenon DEF Filed
    <2>4. \A d \in freed' : known'[d] = {} /\ \A s \in Res : table'[d][s] = ""
      <3>1. \A d \in freed : known[d] = {} /\ \A s \in Res : table[d][s] = ""
        BY Zenon DEF Emptied
      <3>2. ASSUME NEW d \in freed
            PROVE  known'[d] = {} /\ \A s \in Res : table'[d][s] = ""
        BY <2>2, <3>1, ZenonT(40)
      <3>. QED BY <2>3, <3>2, Zenon
    <2>5. \A d \in freed' : rings'[d] = <<>>
      BY <1>1, <2>1, <2>3, Zenon DEF Emptied
    <2>. QED BY <1>2, <2>4, <2>5, Zenon DEF Emptied
  <1>. QED BY <1>3, <1>4, <1>5, <1>6, <1>7, <1>8, <1>9, <1>10, <1>11, Zenon

\* A ring is listed.
LEMMA LifeListed ==
    ASSUME LifeInv, NEW c \in Ctxs, NEW r \in Res, NEW run \in BOOLEAN, Listed(c, r, run)
    PROVE  LifeInv'
  <1> USE DEF LifeInv
  <1>1. /\ RingsType'
        /\ \A d \in Ctxs : d # c => rings'[d] = rings[d]
        /\ \A j \in DOMAIN rings'[c] :
               \/ j \in DOMAIN rings[c] /\ rings'[c][j] = rings[c][j]
               \/ rings'[c][j].thread # "joined"
    BY ListEffect DEF Listed
  <1>2. monitor' \in [Ctxs -> [started : BOOLEAN,
                               pc : {"none", "never", "top", "lock", "wait", "done"}]]
    <2>1. CASE UNCHANGED monitor
      BY <2>1, Zenon DEF ThreadsType
    <2>2. ASSUME NEW pc \in {"top", "never"},
                 monitor' = [monitor EXCEPT ![c] = [started |-> TRUE, pc |-> pc]]
          PROVE  monitor' \in [Ctxs -> [started : BOOLEAN,
                     pc : {"none", "never", "top", "lock", "wait", "done"}]]
      BY <2>2, Zenon DEF ThreadsType
    <2>. QED BY <2>1, <2>2, Zenon DEF Listed
  <1>3. cmd'.op = "idle" /\ cmd.op = "idle" /\ UNCHANGED cmd
    BY Zenon DEF Listed, ListRing, Idle
  <1>4. (cmd \in Cmd)'
    BY Zenon DEF Listed, ListRing
  <1>5. TablesType'
    BY Zenon DEF TablesType, Listed, ListRing
  <1>6. ThreadsType'
    BY <1>2, Zenon DEF ThreadsType, Listed, ListRing
  <1>7. RingsType'
    BY <1>1, Zenon
  <1>8. Stages'
    BY Zenon DEF Stages, Listed, ListRing, Idle, Crashed, Teardown
  <1>9. Joining'
    BY <1>1, <1>3, Zenon DEF Joining
  <1>10. MonitorKnown'
    <2>1. CASE UNCHANGED monitor
      BY <2>1, Zenon DEF MonitorKnown, Listed, ListRing
    <2>2. ASSUME NEW pc \in {"top", "never"},
                 monitor' = [monitor EXCEPT ![c] = [started |-> TRUE, pc |-> pc]]
          PROVE  MonitorKnown'
      <3>1. c \notin freed /\ freed' = freed
        BY Zenon DEF Listed, ListRing, Stages
      <3>2. /\ monitor'[c].started = TRUE /\ monitor'[c].pc # "none"
            /\ \A d \in Ctxs : d # c => monitor'[d] = monitor[d]
        BY <2>2, Zenon DEF ThreadsType
      <3>. QED BY <1>3, <3>1, <3>2, Zenon DEF MonitorKnown, TablesType
    <2>. QED BY <2>1, <2>2, Zenon DEF Listed
  <1>11. SyncKnown'
    BY Zenon DEF SyncKnown, Listed, ListRing
  <1>12. Emptied'
    <2>1. \A d \in freed : d \in Ctxs /\ d # c
      BY Zenon DEF Stages, TablesType, Listed, ListRing
    <2>. QED BY <1>1, <1>3, <2>1, Zenon DEF Emptied, Listed, ListRing
  <1>. QED BY <1>4, <1>5, <1>6, <1>7, <1>8, <1>9, <1>10, <1>11, <1>12, Zenon

\* A ring is joined and leaves the list.
LEMMA LifeJoinEnds ==
    ASSUME LifeInv, JoinEnds
    PROVE  LifeInv'
  <1> USE DEF LifeInv
  <1>1. cmd.ctx \in Ctxs /\ cmd.ring \in DOMAIN rings[cmd.ctx]
    BY Zenon DEF JoinEnds, Stages, Joining, Teardown, TablesType
  <1>2. /\ RingsType'
        /\ \A d \in Ctxs : \A j \in DOMAIN rings'[d] :
               \E k \in DOMAIN rings[d] : rings'[d][j] = rings[d][k]
        /\ \A d \in Ctxs : d # cmd.ctx => rings'[d] = rings[d]
    BY <1>1, JoinedEffect, Zenon DEF JoinEnds
  <1>3. \/ cmd.op = "ring_join" /\ cmd'.op = "idle"
        \/ /\ cmd.op = "detach_join" /\ cmd'.op = "detach" /\ cmd'.ctx = cmd.ctx
           /\ cmd'.res = cmd.res /\ cmd'.rest = cmd.rest
        \/ cmd.op = "rings_join" /\ cmd'.op = "rings" /\ cmd'.ctx = cmd.ctx
    <2>1. CASE cmd.op = "ring_join" /\ cmd' = Idle
      BY <2>1, Zenon DEF Idle
    <2>2. CASE cmd.op = "detach_join" /\ cmd' = [cmd EXCEPT !.op = "detach", !.ring = 0]
      BY <2>2, Zenon DEF Cmd
    <2>3. CASE cmd.op = "rings_join" /\ cmd' = [cmd EXCEPT !.op = "rings", !.ring = 0]
      BY <2>3, Zenon DEF Cmd
    <2>. QED BY <2>1, <2>2, <2>3, Zenon DEF JoinEnds
  <1>4. UNCHANGED <<core, adapters, freed, known, table, fatal, monitor, sync>>
    BY Zenon DEF JoinEnds, objects, threads
  <1>5. (cmd \in Cmd)'
    <2>1. 0 \in 0..MaxRings
      BY ContextConstants
    <2>2. \A op \in {"detach", "rings"} : [cmd EXCEPT !.op = op, !.ring = 0] \in Cmd
      BY <2>1, Zenon DEF Cmd
    <2>. QED BY <2>2, IdleType, Zenon DEF JoinEnds
  <1>6. TablesType'
    BY Zenon DEF TablesType, JoinEnds, objects, threads
  <1>7. ThreadsType'
    BY Zenon DEF ThreadsType, JoinEnds, objects, threads
  <1>8. RingsType'
    BY <1>2, Zenon
  <1>9. Stages'
    BY <1>3, Zenon DEF Stages, JoinEnds, objects, Idle, Crashed, Teardown
  <1>10. Joining'
    BY <1>2, <1>3, Zenon DEF Joining
  <1>11. MonitorKnown'
    BY <1>3, <1>4, Zenon DEF MonitorKnown
  <1>12. SyncKnown'
    BY <1>3, <1>4, Zenon DEF SyncKnown
  <1>13. Emptied'
    <2>1. \A d \in freed : d \in Ctxs /\ d # cmd.ctx
      BY <1>3, Zenon DEF Stages, Teardown, TablesType
    <2>. QED BY <1>2, <1>3, <1>4, <2>1, Zenon DEF Emptied
  <1>. QED BY <1>5, <1>6, <1>7, <1>8, <1>9, <1>10, <1>11, <1>12, <1>13, Zenon

\* The join of a thread that does not exist.
LEMMA LifeJoinFails ==
    ASSUME LifeInv, JoinFails
    PROVE  LifeInv'
  <1> USE DEF LifeInv
  <1>1. cmd.ctx \in Ctxs /\ cmd.ring \in DOMAIN rings[cmd.ctx]
    BY Zenon DEF JoinFails, Stages, Joining, Teardown, TablesType
  <1>2. cmd'.op = "no_ring" /\ cmd'.ctx = cmd.ctx /\ cmd'.ring = cmd.ring
    BY Zenon DEF JoinFails, JoinCrashes, Cmd
  <1>3. UNCHANGED <<core, adapters, freed, known, table, fatal, rings, monitor, sync>>
    BY Zenon DEF JoinFails, JoinCrashes, objects, threads
  <1>4. (cmd \in Cmd)'
    BY Zenon DEF JoinFails, JoinCrashes, Cmd
  <1>5. TablesType'
    BY Zenon DEF TablesType, JoinFails, JoinCrashes, objects, threads
  <1>6. ThreadsType'
    BY Zenon DEF ThreadsType, JoinFails, JoinCrashes, objects, threads
  <1>7. RingsType'
    BY RingsSame, Zenon DEF JoinFails, JoinCrashes
  <1>8. Stages'
    BY <1>1, <1>2, <1>3, Zenon DEF Stages, Crashed, Teardown
  <1>9. Joining'
    <2>1. rings[cmd.ctx][cmd.ring].thread = "none"
      BY <1>1, Zenon DEF JoinFails, JoinCrashes, Joining
    <2>. QED BY <1>1, <1>2, <1>3, <2>1, Zenon DEF Joining
  <1>10. MonitorKnown'
    BY <1>1, <1>2, <1>3, Zenon DEF MonitorKnown, JoinFails
  <1>11. SyncKnown'
    BY <1>2, <1>3, Zenon DEF SyncKnown
  <1>12. Emptied'
    BY <1>2, <1>3, Zenon DEF Emptied
  <1>. QED BY <1>4, <1>5, <1>6, <1>7, <1>8, <1>9, <1>10, <1>11, <1>12, Zenon

\* A ring is told to stop.
LEMMA LifeStops ==
    ASSUME LifeInv, NEW c \in Ctxs, NEW i \in DOMAIN rings[c], Stops(c, i)
    PROVE  LifeInv'
  <1> USE DEF LifeInv
  <1>1. /\ RingsType'
        /\ \A d \in Ctxs : DOMAIN rings'[d] = DOMAIN rings[d]
        /\ \A d \in Ctxs : d # c => rings'[d] = rings[d]
        /\ \A d \in Ctxs : \A j \in DOMAIN rings[d] :
               rings'[d][j].thread = rings[d][j].thread
    BY LoosenedEffect, Zenon DEF Stops
  <1>2. \/ /\ cmd.op = "idle" /\ c \in adapters
           /\ cmd'.op = "ring_join" /\ cmd'.ctx = c /\ cmd'.ring = i
        \/ /\ cmd.op = "detach" /\ cmd.ctx = c /\ c \in adapters /\ cmd'.op = "detach_join"
           /\ cmd'.ctx = c /\ cmd'.res = cmd.res /\ cmd'.rest = cmd.rest /\ cmd'.ring = i
        \/ /\ cmd.op = "rings" /\ cmd.ctx = c /\ cmd'.op = "rings_join" /\ cmd'.ctx = c
           /\ cmd'.ring = i /\ i = 1
    <2>1. CASE /\ cmd = Idle /\ c \in adapters
               /\ cmd' = [Idle EXCEPT !.op = "ring_join", !.ctx = c, !.ring = i]
      BY <2>1, Zenon DEF Idle
    <2>2. CASE /\ cmd.op = "detach" /\ cmd.ctx = c
               /\ cmd' = [cmd EXCEPT !.op = "detach_join", !.ring = i]
      BY <2>2, Zenon DEF Cmd, Stages
    <2>3. CASE /\ cmd.op = "rings" /\ cmd.ctx = c /\ i = 1
               /\ cmd' = [cmd EXCEPT !.op = "rings_join", !.ring = i]
      BY <2>3, Zenon DEF Cmd
    <2>. QED BY <2>1, <2>2, <2>3, Zenon DEF Stops
  <1>3. UNCHANGED <<adapters, freed, known, table, monitor, sync>>
    BY Zenon DEF Stops, threads
  <1>4. (cmd \in Cmd)'
    <2>1. i \in 0..MaxRings
      <3>1. rings[c] \in Seq(Ring) /\ Len(rings[c]) <= MaxRings
        BY Zenon DEF RingsType, RingsBounded
      <3>2. Len(rings[c]) \in Nat /\ i \in 1..Len(rings[c])
        BY <3>1, LenProperties, Zenon
      <3>. QED BY <3>1, <3>2, ContextConstants
    <2>2. [Idle EXCEPT !.op = "ring_join", !.ctx = c, !.ring = i] \in Cmd
      BY <2>1, IdleType, Zenon DEF Cmd
    <2>3. \A op \in {"detach_join", "rings_join"} : [cmd EXCEPT !.op = op, !.ring = i] \in Cmd
      BY <2>1, Zenon DEF Cmd
    <2>. QED BY <2>2, <2>3, Zenon DEF Stops
  <1>5. TablesType'
    BY Zenon DEF TablesType, Stops, threads
  <1>6. ThreadsType'
    BY Zenon DEF ThreadsType, Stops, threads
  <1>7. RingsType'
    BY <1>1, Zenon
  <1>8. Stages'
    BY <1>2, <1>3, Zenon DEF Stages, Crashed, Teardown
  <1>9. Joining'
    BY <1>1, <1>2 DEF Joining
  <1>10. MonitorKnown'
    BY <1>2, <1>3, Zenon DEF MonitorKnown
  <1>11. SyncKnown'
    BY <1>2, <1>3, Zenon DEF SyncKnown
  <1>12. Emptied'
    <2>1. \A d \in freed : d \in Ctxs /\ d # c
      BY <1>2, Zenon DEF Stages, Teardown, TablesType
    <2>. QED BY <1>1, <1>2, <1>3, <2>1, Zenon DEF Emptied
  <1>. QED BY <1>4, <1>5, <1>6, <1>7, <1>8, <1>9, <1>10, <1>11, <1>12, Zenon

\* A call begins to detach a resource.
LEMMA LifeDetaches ==
    ASSUME LifeInv, NEW r \in Res, Detaches(r)
    PROVE  LifeInv'
  <1> USE DEF LifeInv
  <1>1. /\ cmd.op = "idle"
        /\ \/ UNCHANGED cmd
           \/ /\ cmd'.op = "detach" /\ cmd'.ctx \in adapters /\ cmd'.rest \subseteq adapters
              /\ cmd'.res = r
    BY Zenon DEF Detaches, Detaching, Idle
  <1>2. UNCHANGED <<adapters, freed, known, table, rings, monitor, sync>>
    BY Zenon DEF Detaches, threads
  <1>3. (cmd \in Cmd)'
    <2>1. \A c \in Ctxs, cs \in SUBSET Ctxs :
              [Idle EXCEPT !.op = "detach", !.ctx = c, !.res = r, !.rest = cs] \in Cmd
      BY IdleType, Zenon DEF Cmd
    <2>2. CASE UNCHANGED cmd
      BY <2>2, Zenon
    <2>3. ASSUME NEW cs \in SUBSET adapters, Detaching(cs, r, "detach") PROVE cmd' \in Cmd
      <3>1. PICK c \in cs :
                cmd' = [Idle EXCEPT !.op = "detach", !.ctx = c, !.res = r, !.rest = cs \ {c}]
        BY <2>3, Zenon DEF Detaching
      <3>2. c \in Ctxs /\ cs \ {c} \in SUBSET Ctxs
        BY Zenon DEF TablesType
      <3>. QED BY <2>1, <3>1, <3>2, Zenon
    <2>. QED BY <2>2, <2>3, Zenon DEF Detaches
  <1>4. TablesType'
    BY Zenon DEF TablesType, Detaches, threads
  <1>5. ThreadsType'
    BY Zenon DEF ThreadsType, Detaches, threads
  <1>6. RingsType'
    BY RingsSame, Zenon DEF Detaches
  <1>7. Stages'
    <2>1. CASE UNCHANGED cmd
      BY <1>2, <2>1, Zenon DEF Stages, Crashed, Teardown
    <2>2. CASE cmd'.op = "detach"
      BY <1>1, <1>2, <2>2, Zenon DEF Stages, Crashed, Teardown
    <2>. QED BY <1>1, <2>1, <2>2, Zenon
  <1>8. Joining'
    BY <1>1, <1>2, Zenon DEF Joining
  <1>9. MonitorKnown'
    BY <1>1, <1>2, Zenon DEF MonitorKnown
  <1>10. SyncKnown'
    BY <1>1, <1>2, Zenon DEF SyncKnown
  <1>11. Emptied'
    BY <1>1, <1>2, Zenon DEF Emptied
  <1>. QED BY <1>3, <1>4, <1>5, <1>6, <1>7, <1>8, <1>9, <1>10, <1>11, Zenon

\* A command fails.
LEMMA LifeRefused ==
    ASSUME LifeInv, NEW c \in Ctxs, CreateRingRefused(c)
    PROVE  LifeInv'
  <1> USE DEF LifeInv
  <1>1. (cmd \in Cmd)'
    BY Zenon DEF CreateRingRefused, threads
  <1>2. TablesType'
    BY Zenon DEF TablesType, CreateRingRefused, threads
  <1>3. ThreadsType'
    BY Zenon DEF ThreadsType, CreateRingRefused, threads
  <1>4. RingsType'
    BY RingsSame, Zenon DEF CreateRingRefused
  <1>5. Stages'
    BY Zenon DEF Stages, CreateRingRefused, threads, Crashed, Teardown
  <1>6. Joining'
    BY Zenon DEF Joining, CreateRingRefused, threads
  <1>7. MonitorKnown'
    BY Zenon DEF MonitorKnown, CreateRingRefused, threads
  <1>8. SyncKnown'
    BY Zenon DEF SyncKnown, CreateRingRefused, threads
  <1>9. Emptied'
    BY Zenon DEF Emptied, CreateRingRefused, threads
  <1>. QED BY <1>1, <1>2, <1>3, <1>4, <1>5, <1>6, <1>7, <1>8, <1>9, Zenon

\* A context leaves the tables and is destroyed.
LEMMA LifeDestroy ==
    ASSUME LifeInv, NEW c \in Ctxs, ContextDestroy(c)
    PROVE  LifeInv'
  <1> USE DEF LifeInv
  <1>1. /\ cmd.op = "idle" /\ cmd'.op = "monitor" /\ cmd'.ctx = c
        /\ c \in adapters /\ adapters' = adapters \ {c}
    BY Zenon DEF ContextDestroy, Idle
  <1>2. UNCHANGED <<freed, known, table, rings, monitor, sync>>
    BY Zenon DEF ContextDestroy, threads
  <1>3. (cmd \in Cmd)'
    BY IdleType, Zenon DEF Cmd, ContextDestroy
  <1>4. TablesType'
    BY Zenon DEF TablesType, ContextDestroy, threads
  <1>5. ThreadsType'
    BY Zenon DEF ThreadsType, ContextDestroy, threads
  <1>6. RingsType'
    BY RingsSame, Zenon DEF ContextDestroy
  <1>7. Stages'
    BY <1>1, <1>2, Zenon DEF Stages, Crashed, Teardown
  <1>8. Joining'
    BY <1>1, <1>2, Zenon DEF Joining
  <1>9. MonitorKnown'
    BY <1>1, <1>2, Zenon DEF MonitorKnown
  <1>10. SyncKnown'
    BY <1>1, <1>2, Zenon DEF SyncKnown
  <1>11. Emptied'
    BY <1>1, <1>2, Zenon DEF Emptied
  <1>. QED BY <1>3, <1>4, <1>5, <1>6, <1>7, <1>8, <1>9, <1>10, <1>11, Zenon

\* The monitor is told to stop.
LEMMA LifeFini ==
    ASSUME LifeInv, MonitorFini
    PROVE  LifeInv'
  <1> USE DEF LifeInv
  <1>1. /\ cmd.op = "monitor" /\ cmd'.ctx = cmd.ctx
        /\ \/ ~monitor[cmd.ctx].started /\ cmd'.op = "rings" /\ UNCHANGED monitor
           \/ /\ monitor[cmd.ctx].started /\ cmd'.op = "monitor_join"
              /\ monitor' = [monitor EXCEPT ![cmd.ctx] = Stopped(monitor[cmd.ctx])]
    BY GoEffect, Zenon DEF MonitorFini, Stopped
  <1>2. UNCHANGED <<adapters, freed, known, table, rings, sync>>
    BY Zenon DEF MonitorFini, objects
  <1>3. cmd.ctx \in Ctxs /\ cmd.ctx \notin freed
    BY <1>1, Zenon DEF Stages, Teardown
  <1>4. (cmd \in Cmd)'
    BY GoEffect, Zenon DEF MonitorFini
  <1>5. TablesType'
    BY Zenon DEF TablesType, MonitorFini, objects
  <1>6. ThreadsType'
    <2>1. CASE UNCHANGED monitor
      BY <1>2, <2>1, Zenon DEF ThreadsType
    <2>2. CASE monitor' = [monitor EXCEPT ![cmd.ctx] = Stopped(monitor[cmd.ctx])]
      <3>1. Stopped(monitor[cmd.ctx]) \in [started : BOOLEAN,
                pc : {"none", "never", "top", "lock", "wait", "done"}]
        BY <1>3, Zenon DEF ThreadsType, Stopped
      <3>. QED BY <1>2, <2>2, <3>1, Zenon DEF ThreadsType
    <2>. QED BY <1>1, <2>1, <2>2, Zenon
  <1>7. RingsType'
    BY RingsSame, Zenon DEF MonitorFini
  <1>8. Stages'
    BY <1>1, <1>2, <1>3, Zenon DEF Stages, Crashed, Teardown
  <1>9. Joining'
    BY <1>1, <1>2, Zenon DEF Joining
  <1>10. MonitorKnown'
    <2>1. CASE ~monitor[cmd.ctx].started /\ cmd'.op = "rings" /\ UNCHANGED monitor
      <3>1. monitor[cmd.ctx].pc = "none"
        BY <1>1, <1>3, <2>1, Zenon DEF MonitorKnown
      <3>2. \A c \in Ctxs : ~monitor[c].started => monitor[c].pc = "none"
        BY <1>1, Zenon DEF MonitorKnown
      <3>. QED BY <1>1, <1>2, <2>1, <3>1, <3>2, Zenon DEF MonitorKnown
    <2>2. CASE /\ monitor[cmd.ctx].started /\ cmd'.op = "monitor_join"
               /\ monitor' = [monitor EXCEPT ![cmd.ctx] = Stopped(monitor[cmd.ctx])]
      <3>1. \A c \in Ctxs : c # cmd.ctx => monitor'[c] = monitor[c]
        BY <2>2, Zenon DEF ThreadsType
      <3>2. monitor'[cmd.ctx] = Stopped(monitor[cmd.ctx])
        BY <1>3, <2>2, Zenon DEF ThreadsType
      <3>3. ~monitor'[cmd.ctx].started /\ monitor'[cmd.ctx].pc # "none"
        <4>1. monitor[cmd.ctx].pc # "none"
          BY <1>3, <2>2, Zenon DEF MonitorKnown
        <4>2. /\ ~Stopped(monitor[cmd.ctx]).started
              /\ Stopped(monitor[cmd.ctx]).pc \in {"top", monitor[cmd.ctx].pc}
          BY Zenon DEF Stopped
        <4>. QED BY <3>2, <4>1, <4>2, Zenon
      <3>4. freed \subseteq Ctxs
        BY Zenon DEF TablesType
      <3>. QED BY <1>1, <1>2, <1>3, <2>2, <3>1, <3>2, <3>3, <3>4, Zenon DEF MonitorKnown
    <2>. QED BY <1>1, <2>1, <2>2, Zenon
  <1>11. SyncKnown'
    BY <1>1, <1>2, Zenon DEF SyncKnown
  <1>12. Emptied'
    BY <1>1, <1>2, Zenon DEF Emptied
  <1>. QED BY <1>4, <1>5, <1>6, <1>7, <1>8, <1>9, <1>10, <1>11, <1>12, Zenon

\* The monitor is joined, or was never there.
LEMMA LifeMonitorJoin ==
    ASSUME LifeInv, MonitorJoin
    PROVE  LifeInv'
  <1> USE DEF LifeInv
  <1>1. /\ cmd.op = "monitor_join" /\ cmd'.ctx = cmd.ctx
        /\ \/ cmd'.op = "rings" /\ monitor' = [monitor EXCEPT ![cmd.ctx] = NoMonitor]
           \/ /\ monitor[cmd.ctx].pc \in {"none", "never"} /\ cmd'.op = "no_monitor"
              /\ UNCHANGED monitor
    BY GoEffect, Zenon DEF MonitorJoin
  <1>2. UNCHANGED <<adapters, freed, known, table, rings, sync>>
    BY Zenon DEF MonitorJoin, objects
  <1>3. cmd.ctx \in Ctxs /\ cmd.ctx \notin freed
    BY <1>1, Zenon DEF Stages, Teardown
  <1>4. (cmd \in Cmd)'
    BY GoEffect, Zenon DEF MonitorJoin
  <1>5. TablesType'
    BY Zenon DEF TablesType, MonitorJoin, objects
  <1>6. ThreadsType'
    <2>1. CASE UNCHANGED monitor
      BY <1>2, <2>1, Zenon DEF ThreadsType
    <2>2. CASE monitor' = [monitor EXCEPT ![cmd.ctx] = NoMonitor]
      <3>1. NoMonitor \in [started : BOOLEAN,
                pc : {"none", "never", "top", "lock", "wait", "done"}]
        BY <1>3, Zenon DEF ThreadsType, NoMonitor
      <3>. QED BY <1>2, <2>2, <3>1, Zenon DEF ThreadsType
    <2>. QED BY <1>1, <2>1, <2>2, Zenon
  <1>7. RingsType'
    BY RingsSame, Zenon DEF MonitorJoin
  <1>8. Stages'
    BY <1>1, <1>2, <1>3, Zenon DEF Stages, Crashed, Teardown
  <1>9. Joining'
    BY <1>1, <1>2, Zenon DEF Joining
  <1>10. MonitorKnown'
    <2>1. CASE /\ monitor[cmd.ctx].pc \in {"none", "never"} /\ cmd'.op = "no_monitor"
               /\ UNCHANGED monitor
      <3>1. monitor[cmd.ctx].pc = "never"
        BY <1>1, <2>1, Zenon DEF MonitorKnown
      <3>2. \A c \in Ctxs : ~monitor[c].started => monitor[c].pc = "none" \/ cmd.ctx = c
        BY Zenon DEF MonitorKnown
      <3>. QED BY <1>1, <1>2, <2>1, <3>1, <3>2, Zenon DEF MonitorKnown
    <2>2. CASE cmd'.op = "rings" /\ monitor' = [monitor EXCEPT ![cmd.ctx] = NoMonitor]
      <3>1. \A c \in Ctxs : c # cmd.ctx => monitor'[c] = monitor[c]
        BY <2>2, Zenon DEF ThreadsType
      <3>2. monitor'[cmd.ctx] = NoMonitor
        BY <1>3, <2>2, Zenon DEF ThreadsType
      <3>3. ~monitor'[cmd.ctx].started /\ monitor'[cmd.ctx].pc = "none"
        BY <3>2 DEF NoMonitor
      <3>4. freed \subseteq Ctxs
        BY Zenon DEF TablesType
      <3>. QED BY <1>1, <1>2, <1>3, <2>2, <3>1, <3>2, <3>3, <3>4, Zenon DEF MonitorKnown
    <2>. QED BY <1>1, <2>1, <2>2, Zenon
  <1>11. SyncKnown'
    BY <1>1, <1>2, Zenon DEF SyncKnown
  <1>12. Emptied'
    BY <1>1, <1>2, Zenon DEF Emptied
  <1>. QED BY <1>4, <1>5, <1>6, <1>7, <1>8, <1>9, <1>10, <1>11, <1>12, Zenon

\* The last ring is gone.
LEMMA LifeRingsDone ==
    ASSUME LifeInv, RingsDone
    PROVE  LifeInv'
  <1> USE DEF LifeInv
  <1>1. /\ cmd.op = "rings" /\ cmd'.op = "instance" /\ cmd'.ctx = cmd.ctx
        /\ rings[cmd.ctx] = <<>>
    BY GoEffect, Zenon DEF RingsDone
  <1>2. UNCHANGED <<adapters, freed, known, table, rings, monitor, sync>>
    BY Zenon DEF RingsDone, threads, objects
  <1>3. (cmd \in Cmd)'
    BY GoEffect, Zenon DEF RingsDone
  <1>4. TablesType'
    BY Zenon DEF TablesType, RingsDone, threads, objects
  <1>5. ThreadsType'
    BY Zenon DEF ThreadsType, RingsDone, threads, objects
  <1>6. RingsType'
    BY RingsSame, Zenon DEF RingsDone
  <1>7. Stages'
    BY <1>1, <1>2, Zenon DEF Stages, Crashed, Teardown
  <1>8. Joining'
    BY <1>1, <1>2, Zenon DEF Joining
  <1>9. MonitorKnown'
    BY <1>1, <1>2, Zenon DEF MonitorKnown
  <1>10. SyncKnown'
    BY <1>1, <1>2, Zenon DEF SyncKnown
  <1>11. Emptied'
    BY <1>1, <1>2, Zenon DEF Emptied
  <1>. QED BY <1>3, <1>4, <1>5, <1>6, <1>7, <1>8, <1>9, <1>10, <1>11, Zenon

\* The instance goes, and the sync threads with it.
LEMMA LifeInstance ==
    ASSUME LifeInv, InstanceDestroy
    PROVE  LifeInv'
  <1> USE DEF LifeInv
  <1>1. /\ cmd.op = "instance" /\ cmd'.op = "resources" /\ cmd'.ctx = cmd.ctx
        /\ sync[cmd.ctx] # "found"
    BY GoEffect, Zenon DEF InstanceDestroy
  <1>2. UNCHANGED <<adapters, freed, known, table, rings, monitor, sync>>
    BY Zenon DEF InstanceDestroy, threads, objects
  <1>3. (cmd \in Cmd)'
    BY GoEffect, Zenon DEF InstanceDestroy
  <1>4. TablesType'
    BY Zenon DEF TablesType, InstanceDestroy, threads, objects
  <1>5. ThreadsType'
    BY Zenon DEF ThreadsType, InstanceDestroy, threads, objects
  <1>6. RingsType'
    BY RingsSame, Zenon DEF InstanceDestroy
  <1>7. Stages'
    BY <1>1, <1>2, Zenon DEF Stages, Crashed, Teardown
  <1>8. Joining'
    BY <1>1, <1>2, Zenon DEF Joining
  <1>9. MonitorKnown'
    BY <1>1, <1>2, Zenon DEF MonitorKnown
  <1>10. SyncKnown'
    BY <1>1, <1>2, Zenon DEF SyncKnown
  <1>11. Emptied'
    BY <1>1, <1>2, Zenon DEF Emptied
  <1>. QED BY <1>3, <1>4, <1>5, <1>6, <1>7, <1>8, <1>9, <1>10, <1>11, Zenon

\* An entry of the table goes.
LEMMA LifeTable ==
    ASSUME LifeInv, NEW r \in Res, TableDestroy(r)
    PROVE  LifeInv'
  <1> USE DEF LifeInv
  <1>1. /\ cmd.op = "resources" /\ UNCHANGED <<cmd, freed, known, rings>>
        /\ table' = [table EXCEPT ![cmd.ctx][r] = ""]
    BY Zenon DEF TableDestroy
  <1>2. cmd.ctx \in Ctxs /\ cmd.ctx \notin freed
    BY <1>1, Zenon DEF Stages, Teardown
  <1>3. (cmd \in Cmd)'
    BY Zenon DEF TableDestroy, threads
  <1>4. TablesType'
    BY <1>2, Zenon DEF TablesType, TableDestroy
  <1>5. ThreadsType'
    BY Zenon DEF ThreadsType, TableDestroy, threads
  <1>6. RingsType'
    BY RingsSame, Zenon DEF TableDestroy
  <1>7. Stages'
    BY Zenon DEF Stages, TableDestroy, threads, Crashed, Teardown
  <1>8. Joining'
    BY Zenon DEF Joining, TableDestroy, threads
  <1>9. MonitorKnown'
    BY Zenon DEF MonitorKnown, TableDestroy, threads
  <1>10. SyncKnown'
    BY Zenon DEF SyncKnown, TableDestroy, threads
  <1>11. Emptied'
    BY <1>1, <1>2, Zenon DEF Emptied, TablesType
  <1>. QED BY <1>3, <1>4, <1>5, <1>6, <1>7, <1>8, <1>9, <1>10, <1>11, Zenon

\* The context is freed.
LEMMA LifeFree ==
    ASSUME LifeInv, ContextFree
    PROVE  LifeInv'
  <1> USE DEF LifeInv
  <1>1. /\ cmd.op = "resources" /\ cmd' = Idle /\ cmd'.op = "idle"
        /\ freed' = freed \cup {cmd.ctx} /\ known' = [known EXCEPT ![cmd.ctx] = {}]
        /\ \A r \in Res : table[cmd.ctx][r] = ""
    BY Zenon DEF ContextFree, Idle
  <1>2. UNCHANGED <<adapters, table, rings, monitor, sync>>
    BY Zenon DEF ContextFree, threads
  <1>3. cmd.ctx \in Ctxs /\ cmd.ctx \notin adapters \cup freed
    BY <1>1, Zenon DEF Stages, Teardown
  <1>4. (cmd \in Cmd)'
    BY IdleType, Zenon DEF ContextFree
  <1>5. TablesType'
    BY <1>3, Zenon DEF TablesType, ContextFree
  <1>6. ThreadsType'
    BY Zenon DEF ThreadsType, ContextFree, threads
  <1>7. RingsType'
    BY RingsSame, Zenon DEF ContextFree
  <1>8. Stages'
    BY <1>1, <1>2, <1>3, Zenon DEF Stages, Crashed, Teardown, Idle
  <1>9. Joining'
    BY <1>1, <1>2, Zenon DEF Joining
  <1>10. MonitorKnown'
    BY <1>1, <1>2, <1>3, Zenon DEF MonitorKnown
  <1>11. SyncKnown'
    BY <1>1, <1>2, <1>3, Zenon DEF SyncKnown, Idle
  <1>12. Emptied'
    <2>1. \A d \in freed : d \in Ctxs /\ known'[d] = known[d]
      BY <1>1, <1>3, Zenon DEF TablesType
    <2>2. known'[cmd.ctx] = {}
      BY <1>1, <1>3, Zenon DEF TablesType
    <2>3. rings[cmd.ctx] = <<>>
      BY <1>1, Zenon DEF Emptied
    <2>. QED BY <1>1, <1>2, <1>3, <2>1, <2>2, <2>3, Zenon DEF Emptied
  <1>. QED BY <1>4, <1>5, <1>6, <1>7, <1>8, <1>9, <1>10, <1>11, <1>12, Zenon

\* The resource goes from the tables of a context.
LEMMA LifeResource ==
    ASSUME LifeInv, DestroyResource
    PROVE  LifeInv'
  <1> USE DEF LifeInv
  <1>1. cmd.op = "detach"
    BY Zenon DEF DestroyResource
  <1>2. \/ cmd' = Idle /\ cmd'.op = "idle"
        \/ /\ cmd'.op = "detach" /\ cmd'.ctx \in cmd.rest /\ cmd'.rest \subseteq cmd.rest
           /\ cmd'.res = cmd.res
    <2>1. Idle.op = "idle"
      BY Zenon DEF Idle
    <2>2. ASSUME Detaching(cmd.rest, cmd.res, "detach")
          PROVE  /\ cmd'.op = "detach" /\ cmd'.ctx \in cmd.rest
                 /\ cmd'.rest \subseteq cmd.rest /\ cmd'.res = cmd.res
      <3>1. PICK c \in cmd.rest :
                cmd' = [Idle EXCEPT !.op = "detach", !.ctx = c, !.res = cmd.res,
                                    !.rest = cmd.rest \ {c}]
        BY <2>2, Zenon DEF Detaching
      <3>. QED BY <3>1, Zenon DEF Idle
    <2>. QED BY <2>1, <2>2, Zenon DEF DestroyResource
  <1>3. /\ cmd.ctx \in adapters /\ cmd.ctx \in Ctxs
        /\ cmd.res \in Res /\ cmd.rest \subseteq adapters
    BY <1>1, Zenon DEF Stages, TablesType
  <1>4. UNCHANGED <<adapters, freed, monitor, sync>>
    BY Zenon DEF DestroyResource, threads
  <1>5. /\ RingsType'
        /\ \A d \in Ctxs : DOMAIN rings'[d] = DOMAIN rings[d]
        /\ \A d \in Ctxs : d # cmd.ctx => rings'[d] = rings[d]
        /\ \A d \in Ctxs : \A j \in DOMAIN rings[d] :
               rings'[d][j].thread = rings[d][j].thread
    <2>1. /\ \A j \in DOMAIN rings[cmd.ctx] : ~Uses(rings[cmd.ctx][j], cmd.res)
          /\ rings' = Relist(cmd.ctx, Unset(rings[cmd.ctx], cmd.res, Len(rings[cmd.ctx])))
      BY Zenon DEF DestroyResource, Relist
    <2>2. Loosened(cmd.ctx)
      BY <1>3, <2>1, UnsetEffect, Zenon
    <2>. QED BY <1>3, <2>2, LoosenedEffect, Zenon
  <1>6. (cmd \in Cmd)'
    <2>1. \A c \in Ctxs, cs \in SUBSET Ctxs :
              [Idle EXCEPT !.op = "detach", !.ctx = c, !.res = cmd.res, !.rest = cs] \in Cmd
      BY <1>3, IdleType, Zenon DEF Cmd
    <2>2. CASE cmd' = Idle
      BY <2>2, IdleType, Zenon
    <2>3. ASSUME Detaching(cmd.rest, cmd.res, "detach") PROVE cmd' \in Cmd
      <3>1. PICK c \in cmd.rest :
                cmd' = [Idle EXCEPT !.op = "detach", !.ctx = c, !.res = cmd.res,
                                    !.rest = cmd.rest \ {c}]
        BY <2>3, Zenon DEF Detaching
      <3>2. c \in Ctxs /\ cmd.rest \ {c} \in SUBSET Ctxs
        BY <1>3, Zenon DEF TablesType
      <3>. QED BY <2>1, <3>1, <3>2, Zenon
    <2>. QED BY <2>2, <2>3, Zenon DEF DestroyResource
  <1>7. TablesType'
    BY <1>3, Zenon DEF TablesType, DestroyResource
  <1>8. ThreadsType'
    BY Zenon DEF ThreadsType, DestroyResource, threads
  <1>9. RingsType'
    BY <1>5, Zenon
  <1>10. Stages'
    <2>1. CASE cmd' = Idle
      BY <1>1, <1>4, <2>1, Zenon DEF Stages, Crashed, Teardown, Idle
    <2>2. CASE /\ cmd'.op = "detach" /\ cmd'.ctx \in cmd.rest
               /\ cmd'.rest \subseteq cmd.rest /\ cmd'.res = cmd.res
      BY <1>1, <1>3, <1>4, <2>2, Zenon DEF Stages, Crashed, Teardown
    <2>. QED BY <1>2, <2>1, <2>2, Zenon
  <1>11. Joining'
    BY <1>1, <1>2, <1>5, Zenon DEF Joining
  <1>12. MonitorKnown'
    BY <1>1, <1>2, <1>4, Zenon DEF MonitorKnown
  <1>13. SyncKnown'
    BY <1>1, <1>2, <1>4, Zenon DEF SyncKnown
  <1>14. Emptied'
    <2>1. \A d \in freed : d \in Ctxs /\ d # cmd.ctx
      BY <1>3, Zenon DEF TablesType, Stages
    <2>2. \A d \in freed : known'[d] = known[d] /\ table'[d] = table[d]
      BY <2>1, <1>3, Zenon DEF DestroyResource, TablesType
    <2>3. \A d \in freed : rings'[d] = rings[d]
      BY <1>5, <2>1, Zenon
    <2>4. cmd'.op \notin {"instance", "resources"}
      BY <1>2, Zenon
    <2>5. freed' = freed
      BY <1>4, Zenon
    <2>6. \A d \in freed' : known'[d] = {} /\ \A r \in Res : table'[d][r] = ""
      <3>1. \A d \in freed : known[d] = {} /\ \A r \in Res : table[d][r] = ""
        BY Zenon DEF Emptied
      <3>2. ASSUME NEW d \in freed
            PROVE  known'[d] = {} /\ \A r \in Res : table'[d][r] = ""
        BY <2>2, <3>1, Zenon
      <3>. QED BY <2>5, <3>2, Zenon
    <2>7. \A d \in freed' : rings'[d] = <<>>
      BY <2>3, <2>5, Zenon DEF Emptied
    <2>. QED BY <2>4, <2>6, <2>7, Zenon DEF Emptied
  <1>. QED BY <1>6, <1>7, <1>8, <1>9, <1>10, <1>11, <1>12, <1>13, <1>14, Zenon

-----------------------------------------------------------------------------
(***************************************************************************)
(* Every step is of one of these kinds                                     *)
(***************************************************************************)
ContextStep(c) ==
    \/ MonitorMoves(c) \/ RetireLookup(c) \/ RetireCall(c)
    \/ ContextCreate(c) \/ ContextDestroy(c) \/ CreateRingRefused(c)
    \/ \E r \in Res : Filed(c, r) \/ \E run \in BOOLEAN : Listed(c, r, run)
    \/ \E i \in DOMAIN rings[c] : RingMoves(c, i) \/ Stops(c, i)

CallStep ==
    \/ JoinEnds \/ JoinFails \/ MonitorFini \/ MonitorJoin \/ RingsDone
    \/ InstanceDestroy \/ ContextFree \/ DestroyResource
    \/ \E r \in Res : Detaches(r) \/ TableDestroy(r)

LEMMA CallsKinds == LifeInv /\ Calls => (\E c \in Ctxs : ContextStep(c)) \/ CallStep
  <1> SUFFICES ASSUME LifeInv, Calls
               PROVE  (\E c \in Ctxs : ContextStep(c)) \/ CallStep
    OBVIOUS
  <1>1. ASSUME NEW r \in Res,
               (\E type \in {"shm", "dmabuf"} : ImportBlob(r, type)) \/ ResourceUnref(r)
        PROVE  CallStep
    <2>1. Detaches(r)
      BY <1>1, Zenon DEF LifeInv, TablesType, ImportBlob, ResourceUnref, Detaches
    <2>. QED BY <2>1, Zenon DEF CallStep
  <1>2. ASSUME NEW c \in Ctxs, NEW r \in Res,
               \/ \E type \in {"shm", "dmabuf"} : CreateBlob(c, r, type)
               \/ AttachResource(c, r) \/ DetachResource(c, r)
               \/ CreateRing(c, r) \/ CreateRingNoThread(c, r) \/ CreateRingNoMonitor(c, r)
        PROVE  ContextStep(c) \/ CallStep
    <2>1. Filed(c, r) \/ Detaches(r) \/ \E run \in BOOLEAN : Listed(c, r, run)
      BY <1>2, Kinds, Zenon
    <2>. QED BY <2>1, Zenon DEF ContextStep, CallStep
  <1>3. ASSUME NEW c \in Ctxs, NEW i \in DOMAIN rings[c], DestroyRing(c, i)
        PROVE  ContextStep(c)
    <2>1. Loosened(c)
      BY <1>3, StopLoosens, Zenon DEF DestroyRing, LifeInv
    <2>2. Stops(c, i)
      BY <1>3, <2>1, Zenon DEF DestroyRing, Stops, objects
    <2>. QED BY <2>2, Zenon DEF ContextStep
  <1>4. ASSUME NEW c \in Ctxs,
               ContextCreate(c) \/ ContextDestroy(c) \/ CreateRingRefused(c)
        PROVE  ContextStep(c)
    BY <1>4, Zenon DEF ContextStep
  <1>. QED BY <1>1, <1>2, <1>3, <1>4, Zenon DEF Calls

LEMMA CallGoesOnKinds ==
    LifeInv /\ CallGoesOn => (\E c \in Ctxs : ContextStep(c)) \/ CallStep
  <1> SUFFICES ASSUME LifeInv, CallGoesOn
               PROVE  (\E c \in Ctxs : ContextStep(c)) \/ CallStep
    OBVIOUS
  <1>1. CASE DestroyRingEnd \/ DestroyResourceJoin \/ RingsJoin
    <2>1. JoinEnds \/ JoinFails
      BY <1>1, Zenon DEF DestroyRingEnd, DestroyResourceJoin, RingsJoin, Join, JoinEnds, JoinFails,
                  LifeInv, Joining
    <2>. QED BY <2>1, Zenon DEF CallStep
  <1>2. CASE DestroyResourceStop
    <2>1. cmd.ctx \in Ctxs
      BY <1>2, Zenon DEF DestroyResourceStop, LifeInv, Stages, TablesType
    <2>2. PICK i \in DOMAIN rings[cmd.ctx] :
              /\ rings' = [rings EXCEPT ![cmd.ctx] =
                     [Unset(@, cmd.res, i - 1) EXCEPT ![i].started = FALSE]]
              /\ cmd' = [cmd EXCEPT !.op = "detach_join", !.ring = i]
      BY <1>2, Zenon DEF DestroyResourceStop
    <2>3. rings' = Relist(cmd.ctx,
              [Unset(rings[cmd.ctx], cmd.res, i - 1) EXCEPT ![i].started = FALSE])
      BY <2>1, <2>2, Zenon DEF Relist, LifeInv, RingsType
    <2>4. Loosened(cmd.ctx)
      BY <2>1, <2>3, WalkLoosens, Zenon DEF LifeInv
    <2>5. Stops(cmd.ctx, i)
      BY <1>2, <2>2, <2>4, Zenon DEF DestroyResourceStop, Stops
    <2>. QED BY <2>1, <2>5, Zenon DEF ContextStep
  <1>3. CASE RingsStop
    <2>1. CASE rings[cmd.ctx] = <<>>
      <3>1. RingsDone
        BY <1>3, <2>1, Zenon DEF RingsStop, RingsDone
      <3>. QED BY <3>1, Zenon DEF CallStep
    <2>2. CASE rings[cmd.ctx] # <<>>
      <3>1. cmd.ctx \in Ctxs
        BY <1>3, Zenon DEF RingsStop, LifeInv, Stages, Teardown
      <3>2. rings[cmd.ctx] \in Seq(Ring)
        BY <3>1, Zenon DEF LifeInv, RingsType
      <3>3. 1 \in DOMAIN rings[cmd.ctx]
        BY <2>2, <3>2, EmptySeq, LenProperties
      <3>4. Loosened(cmd.ctx)
        BY <1>3, <2>2, <3>1, <3>3, StopLoosens, Zenon DEF RingsStop, LifeInv
      <3>5. Stops(cmd.ctx, 1)
        BY <1>3, <2>2, <3>4, Zenon DEF RingsStop, Stops, objects
      <3>. QED BY <3>1, <3>3, <3>5, Zenon DEF ContextStep
    <2>. QED BY <2>1, <2>2, Zenon
  <1>4. CASE \/ DestroyResource \/ MonitorFini \/ MonitorJoin \/ InstanceDestroy
             \/ ContextFree \/ \E r \in Res : TableDestroy(r)
    BY <1>4, Zenon DEF CallStep
  <1>. QED BY <1>1, <1>2, <1>3, <1>4, Zenon DEF CallGoesOn

LEMMA StepKinds ==
    LifeInv /\ Next => (\E c \in Ctxs : ContextStep(c)) \/ CallStep
  <1> SUFFICES ASSUME LifeInv, NEW c \in Ctxs,
                      MonitorRuns(c) \/ RetireCall(c) \/ RingEnds(c) \/ Others(c)
               PROVE  ContextStep(c)
    BY CallsKinds, CallGoesOnKinds, Zenon DEF Next
  <1>1. CASE MonitorRuns(c) \/ MonitorFails(c)
    <2>1. MonitorMoves(c)
      BY <1>1, Zenon DEF MonitorRuns, MonitorFails, MonitorTop, MonitorWaits, MonitorTimeout,
                  MonitorSteps, MonitorMoves
    <2>. QED BY <2>1, Zenon DEF ContextStep
  <1>2. ASSUME NEW i \in DOMAIN rings[c],
               \/ RingExit(c, i) \/ RingFatal(c, i) \/ RingExecuteEnd(c, i)
               \/ RingAcquire(c, i) \/ RingRelease(c, i)
               \/ \E r \in Res : RingSetReply(c, i, r) \/ RingExecute(c, i, r)
        PROVE  ContextStep(c)
    <2>1. RingMoves(c, i)
      BY <1>2, RingKinds, Zenon DEF LifeInv
    <2>. QED BY <2>1, Zenon DEF ContextStep
  <1>3. CASE RetireLookup(c) \/ RetireCall(c)
    BY <1>3, Zenon DEF ContextStep
  <1>. QED BY <1>1, <1>2, <1>3, Zenon DEF RingEnds, Others

LEMMA LifeUnchanged == LifeInv /\ UNCHANGED vars => LifeInv'
  <1> SUFFICES ASSUME LifeInv, UNCHANGED vars PROVE LifeInv'
    OBVIOUS
  <1> USE DEF LifeInv
  <1>1. UNCHANGED <<cmd, core, adapters, freed, known, table, fatal, rings, monitor, sync>>
    BY Zenon DEF vars, objects, threads
  <1>2. (cmd \in Cmd)' /\ TablesType' /\ ThreadsType' /\ RingsType'
    BY <1>1, RingsSame, Zenon DEF TablesType, ThreadsType
  <1>3. Stages' /\ Joining'
    BY <1>1, Zenon DEF Stages, Joining, Crashed
  <1>4. MonitorKnown' /\ SyncKnown' /\ Emptied'
    BY <1>1, Zenon DEF MonitorKnown, SyncKnown, Emptied
  <1>. QED BY <1>2, <1>3, <1>4, Zenon

LEMMA LifeStep == LifeInv /\ [Next]_vars => LifeInv'
  <1> SUFFICES ASSUME LifeInv, [Next]_vars PROVE LifeInv'
    OBVIOUS
  <1>1. ASSUME NEW c \in Ctxs, ContextStep(c) PROVE LifeInv'
    <2>1. CASE MonitorMoves(c) \/ RetireLookup(c) \/ RetireCall(c)
      BY <2>1, LifeMonitor, LifeRetire, Zenon
    <2>2. CASE ContextCreate(c) \/ ContextDestroy(c) \/ CreateRingRefused(c)
      BY <2>2, LifeCreate, LifeDestroy, LifeRefused, Zenon
    <2>3. ASSUME NEW r \in Res, Filed(c, r) \/ \E run \in BOOLEAN : Listed(c, r, run)
          PROVE  LifeInv'
      BY <2>3, LifeFiled, LifeListed, Zenon
    <2>4. ASSUME NEW i \in DOMAIN rings[c], RingMoves(c, i) \/ Stops(c, i)
          PROVE  LifeInv'
      BY <2>4, LifeRing, LifeStops, Zenon
    <2>. QED BY <1>1, <2>1, <2>2, <2>3, <2>4, Zenon DEF ContextStep
  <1>2. CASE CallStep
    <2>1. CASE JoinEnds \/ JoinFails \/ RingsDone \/ DestroyResource
      BY <2>1, LifeJoinEnds, LifeJoinFails, LifeRingsDone, LifeResource, Zenon
    <2>2. CASE MonitorFini \/ MonitorJoin \/ InstanceDestroy \/ ContextFree
      BY <2>2, LifeFini, LifeMonitorJoin, LifeInstance, LifeFree, Zenon
    <2>3. ASSUME NEW r \in Res, Detaches(r) \/ TableDestroy(r) PROVE LifeInv'
      BY <2>3, LifeDetaches, LifeTable, Zenon
    <2>. QED BY <1>2, <2>1, <2>2, <2>3, Zenon DEF CallStep
  <1>3. CASE UNCHANGED vars
    BY <1>3, LifeUnchanged, Zenon
  <1>. QED BY <1>1, <1>2, <1>3, StepKinds, Zenon

-----------------------------------------------------------------------------
(***************************************************************************)
(* What it gives about threads                                             *)
(***************************************************************************)
LEMMA LifeAlways == Spec => []LifeInv
  <1>. QED BY LifeInit, LifeStep, PTL DEF Spec

\* vkr_context_destroy joins the monitor before it touches the rings and
\* vkr_instance_destroy ends the sync threads before the adapter is freed: no
\* thread outlives what it uses, with any number of contexts and rings.
THEOREM ThreadsSafe == Spec => []ThreadsWithinContext
  <1>1. LifeInv => ThreadsWithinContext
    <2> SUFFICES ASSUME LifeInv PROVE ThreadsWithinContext
      OBVIOUS
    <2>1. MonitorWithinContext
      BY Zenon DEF LifeInv, MonitorKnown, MonitorWithinContext
    <2>2. RetireOnLive
      BY Zenon DEF LifeInv, SyncKnown, RetireOnLive
    <2>3. RingsWithinContext
      BY Zenon DEF LifeInv, Emptied, RingsWithinContext
    <2>. QED BY <2>1, <2>2, <2>3, Zenon DEF ThreadsWithinContext
  <1>. QED BY <1>1, LifeAlways, PTL

\* vkr_ring_stop and vkr_context_ring_monitor_fini join a thread that does not
\* exist only if it could not be created when vkCreateRingMESA asked for it.
THEOREM CrashesExplained == Spec => []CrashOnlyAfterFailure
  <1>1. LifeInv => CrashOnlyAfterFailure
    BY Zenon DEF LifeInv, MonitorKnown, Joining, CrashOnlyAfterFailure
  <1>. QED BY <1>1, LifeAlways, PTL

-----------------------------------------------------------------------------
(***************************************************************************)
(* The tables of a context and the memory of its rings.  With the          *)
(* invariant above, these two are inductive.                               *)
(***************************************************************************)
MemInv == KnownIsTable /\ RingMemoryLive

\* A step that files and unfiles nothing, after which rings use what rings of
\* their context used before.
LEMMA MemSame ==
    ASSUME MemInv, UNCHANGED <<known, table>>, adapters' \subseteq adapters,
           \A c \in Ctxs : \A i \in DOMAIN rings'[c] :
               \E k \in DOMAIN rings[c] : InUse(rings'[c][i]) \subseteq InUse(rings[c][k])
    PROVE  MemInv'
  <1>1. KnownIsTable'
    BY Zenon DEF MemInv, KnownIsTable
  <1>2. ASSUME NEW c \in Ctxs, NEW i \in DOMAIN rings'[c], NEW r \in InUse(rings'[c][i])
        PROVE  table'[c][r] = "shm"
    BY Zenon DEF MemInv, RingMemoryLive
  <1>. QED BY <1>1, <1>2, Zenon DEF MemInv, RingMemoryLive

\* So when the rings of a context were loosened.
LEMMA MemLoosened ==
    ASSUME LifeInv, MemInv, UNCHANGED <<known, table>>, adapters' \subseteq adapters,
           NEW c \in Ctxs, Loosened(c)
    PROVE  MemInv'
  <1>1. /\ \A d \in Ctxs : DOMAIN rings'[d] = DOMAIN rings[d]
        /\ \A d \in Ctxs : \A j \in DOMAIN rings[d] :
               InUse(rings'[d][j]) \subseteq InUse(rings[d][j])
    BY LoosenedEffect, Zenon DEF LifeInv
  <1>. QED BY <1>1, MemSame, Zenon

\* What rings use is the id of a resource.
LEMMA InUseIsRes ==
    ASSUME LifeInv, NEW c \in Ctxs, NEW i \in DOMAIN rings[c], NEW r \in InUse(rings[c][i])
    PROVE  r \in Res
  <1>1. rings[c][i] \in Ring
    BY RingIs, Zenon DEF LifeInv
  <1>. QED BY <1>1, Zenon DEF Ring, InUse

LEMMA MemInit == Init => MemInv
  <1> SUFFICES ASSUME Init PROVE MemInv
    OBVIOUS
  <1>1. KnownIsTable
    BY Zenon DEF Init, KnownIsTable
  <1>2. DOMAIN <<>> = {}
    OBVIOUS
  <1>3. \A c \in Ctxs : rings[c] = <<>>
    BY Zenon DEF Init
  <1>4. RingMemoryLive
    BY <1>2, <1>3, Zenon DEF RingMemoryLive
  <1>. QED BY <1>1, <1>4, Zenon DEF MemInv

\* A context is created: what was freed before is empty.
LEMMA MemCreate ==
    ASSUME LifeInv, MemInv, NEW c \in Ctxs, ContextCreate(c)
    PROVE  MemInv'
  <1>1. c \in freed
    BY Zenon DEF LifeInv, Stages, Crashed, Teardown, ContextCreate, Idle
  <1>2. known[c] = {} /\ \A r \in Res : table[c][r] = ""
    BY <1>1, Zenon DEF LifeInv, Emptied
  <1>3. KnownIsTable'
    BY <1>2, Zenon DEF MemInv, KnownIsTable, ContextCreate
  <1>4. RingMemoryLive'
    BY Zenon DEF MemInv, RingMemoryLive, ContextCreate
  <1>. QED BY <1>3, <1>4, Zenon DEF MemInv

\* A resource is filed: rings that lay in what it replaces no longer name it.
LEMMA MemFiled ==
    ASSUME LifeInv, MemInv, NEW c \in Ctxs, NEW r \in Res, Filed(c, r)
    PROVE  MemInv'
  <1>1. CASE UNCHANGED <<known, table, rings>>
    BY <1>1, MemSame, Zenon DEF Filed
  <1>2. ASSUME NEW e \in {"shm", "dmabuf"}, AddResource(c, r, e),
               known' = [known EXCEPT ![c] = @ \cup {r}]
        PROVE  MemInv'
    <2>1. /\ \A d \in Ctxs : DOMAIN rings'[d] = DOMAIN rings[d]
          /\ \A d \in Ctxs : \A j \in DOMAIN rings[d] :
                 /\ InUse(rings'[d][j]) \subseteq InUse(rings[d][j])
                 /\ d = c => r \notin InUse(rings'[d][j])
      <3>1. RingsType
        BY Zenon DEF LifeInv
      <3>2. Loosened(c) /\ \A j \in DOMAIN rings[c] : r \notin InUse(rings'[c][j])
        BY <1>2, <3>1, AddEffect, Zenon
      <3>. QED BY <3>1, <3>2, LoosenedEffect, Zenon
    <2>2. /\ \A d \in Ctxs : \A q \in Res :
                 table'[d][q] = IF d = c /\ q = r THEN e ELSE table[d][q]
          /\ \A d \in Ctxs : known'[d] = IF d = c THEN known[c] \cup {r} ELSE known[d]
      BY <1>2, Zenon DEF AddResource, LifeInv, TablesType
    <2>3. adapters' = adapters /\ adapters \subseteq Ctxs
      BY Zenon DEF Filed, LifeInv, TablesType
    <2>4. KnownIsTable'
      <3>1. \A d \in adapters : known[d] = {q \in Res : table[d][q] # ""}
        BY Zenon DEF MemInv, KnownIsTable
      <3>2. ASSUME NEW d \in adapters
            PROVE  known'[d] = {q \in Res : table'[d][q] # ""}
        <4>1. CASE d = c
          <5>1. known'[d] = known[d] \cup {r}
            BY <2>2, <4>1, Zenon
          <5>2. \A q \in Res : table'[d][q] # "" <=> q = r \/ table[d][q] # ""
            BY <2>2, <4>1, Zenon
          <5>. QED BY <3>1, <5>1, <5>2, Zenon
        <4>2. CASE d # c
          <5>1. known'[d] = known[d] /\ \A q \in Res : table'[d][q] = table[d][q]
            BY <2>2, <2>3, <4>2, Zenon
          <5>. QED BY <3>1, <5>1, Zenon
        <4>. QED BY <4>1, <4>2, Zenon
      <3>. QED BY <2>3, <3>2, Zenon DEF KnownIsTable
    <2>5. ASSUME NEW d \in Ctxs, NEW j \in DOMAIN rings[d], NEW q \in InUse(rings'[d][j])
          PROVE  table'[d][q] = "shm"
      <3>1. q \in InUse(rings[d][j]) /\ (d = c => q # r)
        BY <2>1, <2>5, Zenon
      <3>2. table[d][q] = "shm"
        BY <3>1, Zenon DEF MemInv, RingMemoryLive
      <3>3. q \in Res
        BY <3>1, InUseIsRes, Zenon
      <3>. QED BY <2>2, <3>1, <3>2, <3>3, Zenon
    <2>6. RingMemoryLive'
      BY <2>1, <2>5, Zenon DEF RingMemoryLive
    <2>. QED BY <2>4, <2>6, Zenon DEF MemInv
  <1>. QED BY <1>1, <1>2, Zenon DEF Filed

\* A ring is listed in shared memory of the context.
LEMMA MemListed ==
    ASSUME LifeInv, MemInv, NEW c \in Ctxs, NEW r \in Res, NEW run \in BOOLEAN,
           Listed(c, r, run)
    PROVE  MemInv'
  <1>1. /\ \A d \in Ctxs : d # c => rings'[d] = rings[d]
        /\ \A j \in DOMAIN rings'[c] :
               \/ j \in DOMAIN rings[c] /\ rings'[c][j] = rings[c][j]
               \/ InUse(rings'[c][j]) \subseteq {r}
    <2>1. RingsType /\ ListRing(c, r, run)
      BY Zenon DEF LifeInv, Listed
    <2>2. /\ RingsType'
          /\ \A d \in Ctxs : d # c => rings'[d] = rings[d]
          /\ \A j \in DOMAIN rings'[c] :
                 \/ j \in DOMAIN rings[c] /\ rings'[c][j] = rings[c][j]
                 \/ InUse(rings'[c][j]) \subseteq {r} /\ rings'[c][j].thread # "joined"
      BY <2>1, ListEffect, Zenon
    <2>. QED BY <2>2, Zenon
  <1>2. table[c][r] = "shm" /\ UNCHANGED <<adapters, known, table>>
    BY Zenon DEF Listed, ListRing
  <1>3. KnownIsTable'
    BY <1>2, Zenon DEF MemInv, KnownIsTable
  <1>4. ASSUME NEW d \in Ctxs, NEW j \in DOMAIN rings'[d], NEW q \in InUse(rings'[d][j])
        PROVE  table'[d][q] = "shm"
    <2>1. CASE j \in DOMAIN rings[d] /\ rings'[d][j] = rings[d][j]
      BY <1>2, <2>1, Zenon DEF MemInv, RingMemoryLive
    <2>2. CASE d = c /\ InUse(rings'[d][j]) \subseteq {r}
      BY <1>2, <2>2, Zenon
    <2>. QED BY <1>1, <2>1, <2>2, Zenon
  <1>. QED BY <1>3, <1>4, Zenon DEF MemInv, RingMemoryLive

\* A ring thread moves to no other memory than shared memory of the context.
LEMMA MemRing ==
    ASSUME LifeInv, MemInv, NEW c \in Ctxs, NEW i \in DOMAIN rings[c], RingMoves(c, i)
    PROVE  MemInv'
  <1>1. PICK g \in Ring :
            /\ RingSteps(c, i, g)
            /\ \A r \in InUse(g) : r \in InUse(rings[c][i]) \/ table[c][r] = "shm"
    BY Zenon DEF RingMoves
  <1>2. RingsType /\ rings' = Replace(c, i, g)
    BY <1>1, Zenon DEF RingSteps, Replace, LifeInv, RingsType
  <1>3. /\ \A d \in Ctxs : DOMAIN rings'[d] = DOMAIN rings[d]
        /\ \A d \in Ctxs : \A j \in DOMAIN rings[d] :
               rings'[d][j] = IF d = c /\ j = i THEN g ELSE rings[d][j]
    BY <1>2, Replaced, Zenon
  <1>4. UNCHANGED <<adapters, known, table>>
    BY <1>1, Zenon DEF RingSteps
  <1>5. KnownIsTable'
    BY <1>4, Zenon DEF MemInv, KnownIsTable
  <1>6. \A d \in Ctxs : \A j \in DOMAIN rings[d] :
            \A q \in InUse(rings[d][j]) : table[d][q] = "shm"
    BY Zenon DEF MemInv, RingMemoryLive
  <1>7. ASSUME NEW d \in Ctxs, NEW j \in DOMAIN rings[d], NEW q \in InUse(rings'[d][j])
        PROVE  table[d][q] = "shm"
    <2>1. CASE d = c /\ j = i
      BY <1>1, <1>3, <1>6, <2>1, Zenon
    <2>2. CASE ~(d = c /\ j = i)
      BY <1>3, <1>6, <2>2, Zenon
    <2>. QED BY <2>1, <2>2, Zenon
  <1>. QED BY <1>3, <1>4, <1>5, <1>7, Zenon DEF MemInv, RingMemoryLive

\* The resource goes: no ring lies in it and no stream is left in it.
LEMMA MemResource ==
    ASSUME LifeInv, MemInv, DestroyResource
    PROVE  MemInv'
  <1> DEFINE c == cmd.ctx
             r == cmd.res
  <1>1. c \in Ctxs /\ r \in Res
    BY Zenon DEF LifeInv, Stages, TablesType, DestroyResource
  <1>2. /\ \A d \in Ctxs : DOMAIN rings'[d] = DOMAIN rings[d]
        /\ \A d \in Ctxs : \A j \in DOMAIN rings[d] :
               /\ InUse(rings'[d][j]) \subseteq InUse(rings[d][j])
               /\ d = c => r \notin InUse(rings'[d][j])
    <2>1. /\ \A j \in DOMAIN rings[cmd.ctx] : ~Uses(rings[cmd.ctx][j], cmd.res)
          /\ rings' = Relist(cmd.ctx, Unset(rings[cmd.ctx], cmd.res, Len(rings[cmd.ctx])))
      BY Zenon DEF DestroyResource, Relist
    <2>2. RingsType
      BY Zenon DEF LifeInv
    <2>3. /\ Loosened(cmd.ctx)
          /\ \A j \in DOMAIN rings[cmd.ctx] : cmd.res \notin InUse(rings'[cmd.ctx][j])
      BY <1>1, <2>1, <2>2, UnsetEffect, Zenon
    <2>. QED BY <1>1, <2>2, <2>3, LoosenedEffect, Zenon
  <1>4. /\ \A d \in Ctxs : \A q \in Res :
               table'[d][q] = IF d = c /\ q = r THEN "" ELSE table[d][q]
        /\ \A d \in Ctxs : known'[d] = IF d = c THEN known[c] \ {r} ELSE known[d]
    BY <1>1, Zenon DEF DestroyResource, LifeInv, TablesType
  <1>5. adapters' = adapters /\ adapters \subseteq Ctxs
    BY Zenon DEF DestroyResource, LifeInv, TablesType
  <1> HIDE DEF c, r
  <1>6. KnownIsTable'
    <2>1. \A d \in adapters : known[d] = {q \in Res : table[d][q] # ""}
      BY Zenon DEF MemInv, KnownIsTable
    <2>2. ASSUME NEW d \in adapters
          PROVE  known'[d] = {q \in Res : table'[d][q] # ""}
      <3>1. CASE d = c
        <4>1. known'[d] = known[d] \ {r}
          BY <1>1, <1>4, <3>1, Zenon
        <4>2. \A q \in Res : table'[d][q] # "" <=> q # r /\ table[d][q] # ""
          BY <1>1, <1>4, <3>1, Zenon
        <4>. QED BY <2>1, <4>1, <4>2, Zenon
      <3>2. CASE d # c
        <4>1. known'[d] = known[d] /\ \A q \in Res : table'[d][q] = table[d][q]
          BY <1>4, <1>5, <3>2, Zenon
        <4>. QED BY <2>1, <4>1, Zenon
      <3>. QED BY <3>1, <3>2, Zenon
    <2>. QED BY <1>5, <2>2, Zenon DEF KnownIsTable
  <1>7. ASSUME NEW d \in Ctxs, NEW j \in DOMAIN rings[d], NEW q \in InUse(rings'[d][j])
        PROVE  table'[d][q] = "shm"
    <2>1. q \in InUse(rings[d][j]) /\ (d = c => q # r)
      BY <1>2, <1>7, Zenon
    <2>2. table[d][q] = "shm"
      BY <2>1, Zenon DEF MemInv, RingMemoryLive
    <2>3. q \in Res
      BY <2>1, InUseIsRes, Zenon
    <2>. QED BY <1>4, <2>1, <2>2, <2>3, Zenon
  <1>. QED BY <1>2, <1>6, <1>7, Zenon DEF MemInv, RingMemoryLive

\* Entries go, and the context, when it is in no table and has no rings.
LEMMA MemFree ==
    ASSUME LifeInv, MemInv, (\E r \in Res : TableDestroy(r)) \/ ContextFree
    PROVE  MemInv'
  <1>1. /\ cmd.ctx \in Ctxs /\ cmd.ctx \notin adapters /\ rings[cmd.ctx] = <<>>
        /\ UNCHANGED <<adapters, rings>>
    BY Zenon DEF LifeInv, Stages, Teardown, Emptied, TableDestroy, ContextFree
  <1>2. \A c \in Ctxs : c # cmd.ctx => known'[c] = known[c] /\ table'[c] = table[c]
    BY Zenon DEF LifeInv, TablesType, TableDestroy, ContextFree
  <1>3. adapters \subseteq Ctxs
    BY Zenon DEF LifeInv, TablesType
  <1>4. KnownIsTable'
    <2>1. \A c \in adapters : known[c] = {r \in Res : table[c][r] # ""}
      BY Zenon DEF MemInv, KnownIsTable
    <2>2. \A c \in adapters : known'[c] = known[c] /\ table'[c] = table[c]
      BY <1>1, <1>2, <1>3, Zenon
    <2>3. ASSUME NEW c \in adapters
          PROVE  known'[c] = {r \in Res : table'[c][r] # ""}
      BY <2>1, <2>2, Zenon
    <2>4. adapters' = adapters
      BY <1>1, Zenon
    <2>. QED BY <2>3, <2>4, Zenon DEF KnownIsTable
  <1>5. DOMAIN <<>> = {}
    OBVIOUS
  <1>6. RingMemoryLive'
    <2>1. ASSUME NEW c \in Ctxs, NEW i \in DOMAIN rings[c], NEW r \in InUse(rings[c][i])
          PROVE  table'[c][r] = "shm"
      <3>1. table[c][r] = "shm"
        BY Zenon DEF MemInv, RingMemoryLive
      <3>2. c # cmd.ctx
        BY <1>1, <1>5, Zenon
      <3>. QED BY <1>2, <3>1, <3>2, Zenon
    <2>2. rings' = rings
      BY <1>1, Zenon
    <2>. QED BY <2>1, <2>2, Zenon DEF RingMemoryLive
  <1>. QED BY <1>4, <1>6, Zenon DEF MemInv

LEMMA MemStep == LifeInv /\ MemInv /\ [Next]_vars => MemInv'
  <1> SUFFICES ASSUME LifeInv, MemInv, [Next]_vars PROVE MemInv'
    OBVIOUS
  <1>1. ASSUME UNCHANGED <<known, table, rings>>, adapters' \subseteq adapters PROVE MemInv'
    BY <1>1, MemSame, Zenon
  <1>2. ASSUME NEW c \in Ctxs, ContextStep(c) PROVE MemInv'
    <2>1. CASE \/ MonitorMoves(c) \/ RetireLookup(c) \/ RetireCall(c)
               \/ ContextDestroy(c) \/ CreateRingRefused(c)
      BY <1>1, <2>1, Zenon DEF MonitorMoves, RetireLookup, RetireCall, ContextDestroy,
                        CreateRingRefused, objects
    <2>2. CASE ContextCreate(c)
      BY <2>2, MemCreate, Zenon
    <2>3. ASSUME NEW r \in Res, Filed(c, r) \/ \E run \in BOOLEAN : Listed(c, r, run)
          PROVE  MemInv'
      BY <2>3, MemFiled, MemListed, Zenon
    <2>4. ASSUME NEW i \in DOMAIN rings[c], RingMoves(c, i) PROVE MemInv'
      BY <2>4, MemRing, Zenon
    <2>5. ASSUME NEW i \in DOMAIN rings[c], Stops(c, i) PROVE MemInv'
      <3>1. UNCHANGED <<adapters, known, table>> /\ Loosened(c)
        BY <2>5, Zenon DEF Stops
      <3>. QED BY <3>1, MemLoosened, Zenon
    <2>. QED BY <1>2, <2>1, <2>2, <2>3, <2>4, <2>5, Zenon DEF ContextStep
  <1>3. CASE CallStep
    <2>1. CASE JoinEnds
      <3>1. cmd.ctx \in Ctxs /\ cmd.ring \in DOMAIN rings[cmd.ctx]
        BY <2>1, Zenon DEF JoinEnds, LifeInv, Joining, Stages, Teardown, TablesType
      <3>2. \A d \in Ctxs : \A j \in DOMAIN rings'[d] :
                \E k \in DOMAIN rings[d] : rings'[d][j] = rings[d][k]
        BY <2>1, <3>1, JoinedEffect, Zenon DEF JoinEnds, LifeInv
      <3>3. UNCHANGED <<adapters, known, table>>
        BY <2>1, Zenon DEF JoinEnds, objects
      <3>4. \A d \in Ctxs : \A j \in DOMAIN rings'[d] :
                \E k \in DOMAIN rings[d] : InUse(rings'[d][j]) \subseteq InUse(rings[d][k])
        <4> SUFFICES ASSUME NEW d \in Ctxs, NEW j \in DOMAIN rings'[d]
                     PROVE  \E k \in DOMAIN rings[d] :
                                InUse(rings'[d][j]) \subseteq InUse(rings[d][k])
          OBVIOUS
        <4>1. PICK k \in DOMAIN rings[d] : rings'[d][j] = rings[d][k]
          BY <3>2, Zenon
        <4>2. InUse(rings'[d][j]) = InUse(rings[d][k])
          BY <4>1, Zenon
        <4>. QED BY <4>2, Zenon
      <3>. QED BY <3>3, <3>4, MemSame, Zenon
    <2>2. CASE \/ JoinFails \/ MonitorFini \/ MonitorJoin \/ RingsDone \/ InstanceDestroy
               \/ \E r \in Res : Detaches(r)
      BY <1>1, <2>2, Zenon DEF JoinFails, JoinCrashes, MonitorFini, MonitorJoin, RingsDone,
                        InstanceDestroy, Detaches, objects
    <2>3. CASE DestroyResource
      BY <2>3, MemResource, Zenon
    <2>4. CASE (\E r \in Res : TableDestroy(r)) \/ ContextFree
      BY <2>4, MemFree, Zenon
    <2>. QED BY <1>3, <2>1, <2>2, <2>3, <2>4, Zenon DEF CallStep
  <1>4. CASE UNCHANGED vars
    BY <1>1, <1>4, Zenon DEF vars, objects
  <1>. QED BY <1>2, <1>3, <1>4, StepKinds, Zenon

LEMMA MemAlways == Spec => []MemInv
  <1>1. Init => LifeInv /\ MemInv
    BY LifeInit, MemInit, Zenon
  <1>2. (LifeInv /\ MemInv) /\ [Next]_vars => (LifeInv /\ MemInv)'
    BY LifeStep, MemStep, Zenon
  <1>. QED BY <1>1, <1>2, PTL DEF Spec

\* The state is well-formed, and known_res of a context that is listed is its
\* resource table: attach files nothing twice and detach leaves nothing behind.
THEOREM TablesSafe == Spec => []TablesAgree
  <1>1. LifeInv /\ MemInv => TablesAgree
    BY LifeTyped, Zenon DEF MemInv, TablesAgree
  <1>. QED BY <1>1, LifeAlways, MemAlways, PTL

\* vkr_context_destroy_resource stops and joins the rings that lie in a resource,
\* decode from it or are writing a reply to it, and takes it from the encoders of
\* the others before it goes, and vkr_context_destroy has no rings left when the
\* table goes: listed rings have pointers to mapped memory only.
THEOREM RingMemorySafe == Spec => []RingMemoryLive
  <1>1. MemInv => RingMemoryLive
    BY Zenon DEF MemInv
  <1>. QED BY <1>1, MemAlways, PTL

-----------------------------------------------------------------------------
(***************************************************************************)
(* The pool of transport memory: lists of holes                            *)
(***************************************************************************)

Spans == [off : 0 .. PoolSize, size : 1 .. PoolSize]

InHoles(hs, u) == \E i \in DOMAIN hs : u \in Pages(hs[i])

\* What follows position hi of a list
Rest(s, hi) == SubSeq(s, hi + 1, Len(s))

LEMMA RestIs ==
    ASSUME NEW s \in Seq(Spans), NEW hi \in 0 .. Len(s)
    PROVE  /\ Rest(s, hi) \in Seq(Spans) /\ Len(Rest(s, hi)) = Len(s) - hi
           /\ \A i \in 1 .. Len(s) - hi : Rest(s, hi)[i] = s[hi + i]
  <1>1. Len(s) \in Nat /\ hi \in Nat
    OBVIOUS
  <1>2. \A i \in hi + 1 .. Len(s) : s[i] \in Spans
    BY <1>1
  <1>. QED BY <1>1, <1>2 DEF Rest

LEMMA FrontIs ==
    ASSUME NEW s \in Seq(Spans), NEW n \in 0 .. Len(s)
    PROVE  /\ SubSeq(s, 1, n) \in Seq(Spans) /\ Len(SubSeq(s, 1, n)) = n
           /\ \A i \in 1 .. n : SubSeq(s, 1, n)[i] = s[i]
  <1>1. Len(s) \in Nat /\ n \in Nat
    OBVIOUS
  <1>2. \A i \in 1 .. n : s[i] \in Spans
    BY <1>1
  <1>. QED BY <1>1, <1>2

\* The list r is s, whose entries lo..hi have made way for those of t.
IsSplice(r, s, lo, hi, t) ==
    /\ r \in Seq(Spans)
    /\ Len(r) = (lo - 1) + Len(t) + (Len(s) - hi)
    /\ \A i \in 1 .. lo - 1 : r[i] = s[i]
    /\ \A i \in 1 .. Len(t) : r[(lo - 1) + i] = t[i]
    /\ \A k, i \in Nat : hi < i /\ i <= Len(s) /\ k = (lo - 1) + Len(t) + (i - hi) => r[k] = s[i]

LEMMA SpliceIs ==
    ASSUME NEW s \in Seq(Spans), NEW t \in Seq(Spans),
           NEW lo \in 1 .. Len(s) + 1, NEW hi \in lo - 1 .. Len(s)
    PROVE  IsSplice(Spliced(s, lo, hi, t), s, lo, hi, t)
  <1> DEFINE f == SubSeq(s, 1, lo - 1)
             g == Rest(s, hi)
             ft == f \o t
             r == ft \o g
  <1>1. /\ Len(s) \in Nat /\ Len(t) \in Nat /\ lo - 1 \in 0 .. Len(s) /\ hi \in 0 .. Len(s)
        /\ lo \in Int /\ hi \in Int
    OBVIOUS
  <1>2. f \in Seq(Spans) /\ Len(f) = lo - 1 /\ \A i \in 1 .. lo - 1 : f[i] = s[i]
    BY <1>1, FrontIs, Zenon
  <1>3. g \in Seq(Spans) /\ Len(g) = Len(s) - hi /\ \A i \in 1 .. Len(s) - hi : g[i] = s[hi + i]
    BY <1>1, RestIs, Zenon
  <1>4. Spliced(s, lo, hi, t) = r
    BY Zenon DEF Spliced, Rest
  <1> HIDE DEF f, g
  <1>5. /\ ft \in Seq(Spans) /\ Len(ft) = Len(f) + Len(t)
        /\ \A i \in 1 .. Len(f) : ft[i] = f[i]
        /\ \A i \in 1 .. Len(f) + Len(t) : i > Len(f) => ft[i] = t[i - Len(f)]
    BY <1>2, SMTT(30)
  <1> HIDE DEF ft
  <1>6. /\ r \in Seq(Spans) /\ Len(r) = Len(ft) + Len(g)
        /\ \A i \in 1 .. Len(ft) : r[i] = ft[i]
        /\ \A i \in 1 .. Len(ft) + Len(g) : i > Len(ft) => r[i] = g[i - Len(ft)]
    <2>1. ft \in Seq(Spans) /\ g \in Seq(Spans)
      BY <1>3, <1>5, Zenon
    <2>. QED BY <2>1
  <1> HIDE DEF r
  <1>7. \A i \in 1 .. lo - 1 : r[i] = s[i]
    BY <1>1, <1>2, <1>5, <1>6
  <1>8. \A i \in 1 .. Len(t) : r[(lo - 1) + i] = t[i]
    <2> TAKE i \in 1 .. Len(t)
    <2> DEFINE k == (lo - 1) + i
    <2>1. k \in 1 .. Len(f) + Len(t) /\ k > Len(f) /\ k - Len(f) = i
      BY <1>1, <1>2
    <2> HIDE DEF k
    <2>2. r[k] = t[i]
      BY <1>5, <1>6, <2>1, Zenon
    <2>. QED BY <2>2, Zenon DEF k
  <1>9. \A k, i \in Nat : hi < i /\ i <= Len(s) /\ k = (lo - 1) + Len(t) + (i - hi) => r[k] = s[i]
    <2> SUFFICES ASSUME NEW k \in Nat, NEW i \in Nat, hi < i, i <= Len(s),
                        k = (lo - 1) + Len(t) + (i - hi)
                 PROVE  r[k] = s[i]
      OBVIOUS
    <2>1. k \in 1 .. Len(ft) + Len(g) /\ k > Len(ft) /\ k - Len(ft) = i - hi
      BY <1>1, <1>2, <1>3, <1>5, SMTT(30)
    <2>2. i - hi \in 1 .. Len(s) - hi /\ hi + (i - hi) = i
      BY <1>1
    <2>3. r[k] = g[i - hi]
      BY <1>6, <2>1, Zenon
    <2>. QED BY <1>3, <2>2, <2>3, Zenon
  <1>10. Len(r) = (lo - 1) + Len(t) + (Len(s) - hi)
    BY <1>2, <1>3, <1>5, <1>6, Zenon
  <1>. QED BY <1>4, <1>6, <1>7, <1>8, <1>9, <1>10, Zenon DEF IsSplice

\* Holes of the pool with gaps between them, in offset order
Apart(hs) ==
    /\ hs \in Seq(Spans)
    /\ \A i \in DOMAIN hs : End(hs[i]) <= PoolSize
    /\ \A i, j \in DOMAIN hs : i < j => End(hs[i]) < hs[j].off

\* Holes lo..hi make way for x.
LEMMA SpliceHole ==
    ASSUME NEW hs, Apart(hs), NEW x \in Spans, End(x) <= PoolSize,
           NEW lo \in 1 .. Len(hs) + 1, NEW hi \in lo - 1 .. Len(hs),
           \A k \in 1 .. lo - 1 : End(hs[k]) < x.off,
           \A k \in hi + 1 .. Len(hs) : End(x) < hs[k].off
    PROVE  /\ Apart(Spliced(hs, lo, hi, <<x>>))
           /\ \A u : InHoles(Spliced(hs, lo, hi, <<x>>), u) <=>
                        \/ u \in Pages(x)
                        \/ \E k \in DOMAIN hs : (k < lo \/ k > hi) /\ u \in Pages(hs[k])
  <1> DEFINE t == <<x>>
             r == Spliced(hs, lo, hi, t)
             n == Len(hs)
  <1>1. hs \in Seq(Spans) /\ n \in Nat /\ DOMAIN hs = 1 .. n /\ lo \in Int /\ hi \in Int
    BY DEF Apart
  <1>2. /\ r \in Seq(Spans) /\ Len(r) = lo + (n - hi)
        /\ \A i \in 1 .. lo - 1 : r[i] = hs[i]
        /\ r[lo] = x
        /\ \A k, i \in Nat : hi < i /\ i <= n /\ k = lo + (i - hi) => r[k] = hs[i]
    <2>1. t \in Seq(Spans) /\ Len(t) = 1 /\ t[1] = x
      OBVIOUS
    <2>2. IsSplice(r, hs, lo, hi, t)
      <3> HIDE DEF t
      <3>. QED BY <1>1, <2>1, SpliceIs, Zenon
    <2> HIDE DEF t, r
    <2>3. r[(lo - 1) + 1] = x
      BY <2>1, <2>2 DEF IsSplice
    <2>4. \A k, i \in Nat : hi < i /\ i <= n /\ k = lo + (i - hi) => r[k] = hs[i]
      <3> SUFFICES ASSUME NEW k \in Nat, NEW i \in Nat, hi < i, i <= n, k = lo + (i - hi)
                   PROVE  r[k] = hs[i]
        OBVIOUS
      <3>1. k = (lo - 1) + Len(t) + (i - hi)
        BY <1>1, <2>1
      <3>. QED BY <2>2, <3>1, Zenon DEF IsSplice
    <2>5. Len(r) = lo + (n - hi) /\ (lo - 1) + 1 = lo
      BY <1>1, <2>1, <2>2 DEF IsSplice
    <2>. QED BY <2>2, <2>3, <2>4, <2>5, Zenon DEF IsSplice
  <1> HIDE DEF r, n, t
  <1>3. \A i \in DOMAIN r : \/ i \in 1 .. lo - 1 /\ r[i] = hs[i]
                            \/ i = lo /\ r[i] = x
                            \/ i > lo /\ hi + (i - lo) \in hi + 1 .. n /\ r[i] = hs[hi + (i - lo)]
    <2> TAKE i \in DOMAIN r
    <2>1. i \in 1 .. lo + (n - hi)
      BY <1>2
    <2>2. CASE i > lo
      <3> DEFINE l == hi + (i - lo)
      <3>0. /\ lo \in Int /\ hi \in Int /\ n \in Int /\ i \in Int /\ 1 <= lo /\ lo - 1 <= hi
            /\ i <= lo + (n - hi) /\ 1 <= i
        BY <1>1, <2>1
      <3>1. l \in Int /\ hi < l /\ l <= n /\ i = lo + (l - hi)
        BY <2>2, <3>0
      <3>2. i \in Nat /\ l \in Nat /\ hi < l /\ l <= n /\ i = lo + (l - hi) /\ l \in hi + 1 .. n
        <4> HIDE DEF l
        <4>. QED BY <3>0, <3>1
      <3> HIDE DEF l
      <3>3. r[i] = hs[l]
        BY <1>2, <3>2, Zenon
      <3>. QED BY <2>2, <3>2, <3>3, Zenon DEF l
    <2>. QED BY <1>1, <1>2, <2>1, <2>2
  <1>4. /\ \A k \in DOMAIN hs : End(hs[k]) <= PoolSize /\ hs[k] \in Spans
        /\ \A i, j \in DOMAIN hs : i < j => End(hs[i]) < hs[j].off
    BY <1>1 DEF Apart
  <1>5. \A i, j \in DOMAIN r : i < j => End(r[i]) < r[j].off
    <2> SUFFICES ASSUME NEW i \in DOMAIN r, NEW j \in DOMAIN r, i < j
                 PROVE  End(r[i]) < r[j].off
      OBVIOUS
    <2>0. i \in Int /\ j \in Int
      BY <1>2
    <2>1. CASE j < lo
      <3>1. i \in 1 .. lo - 1 /\ r[i] = hs[i] /\ j \in 1 .. lo - 1 /\ r[j] = hs[j]
        BY <1>1, <1>3, <2>0, <2>1
      <3>. QED BY <1>1, <1>4, <3>1 DEF n
    <2>2. CASE j = lo
      <3>1. i \in 1 .. lo - 1 /\ r[i] = hs[i] /\ r[j] = x
        BY <1>1, <1>2, <1>3, <2>0, <2>2
      <3>. QED BY <3>1, Zenon
    <2>3. CASE j > lo
      <3> DEFINE l == hi + (j - lo)
      <3>1. l \in hi + 1 .. n /\ r[j] = hs[l]
        BY <1>1, <1>3, <2>0, <2>3
      <3>2. CASE i < lo
        <4>1. i \in 1 .. lo - 1 /\ r[i] = hs[i]
          BY <1>1, <1>3, <2>0, <3>2
        <4>2. i \in DOMAIN hs /\ l \in DOMAIN hs /\ i < l
          BY <1>1, <3>1, <4>1 DEF n
        <4> HIDE DEF l
        <4>. QED BY <1>4, <3>1, <4>1, <4>2, Zenon
      <3>3. CASE i = lo
        <4> HIDE DEF l
        <4>. QED BY <1>2, <3>1, <3>3, Zenon DEF n
      <3>4. CASE i > lo
        <4> DEFINE m == hi + (i - lo)
        <4>0. ~(i \in 1 .. lo - 1) /\ i # lo
          BY <1>1, <2>0, <3>4
        <4>1. m \in hi + 1 .. n /\ r[i] = hs[m]
          BY <1>3, <4>0, Zenon
        <4>2. m \in DOMAIN hs /\ l \in DOMAIN hs /\ m < l
          BY <1>1, <2>0, <3>1, <4>1, SMTT(30)
        <4> HIDE DEF l, m
        <4>. QED BY <1>4, <3>1, <4>1, <4>2, Zenon
      <3>. QED BY <1>1, <2>0, <3>2, <3>3, <3>4
    <2>. QED BY <1>1, <2>0, <2>1, <2>2, <2>3
  <1>6. \A i \in DOMAIN r : End(r[i]) <= PoolSize
    <2>1. \A i \in DOMAIN r : r[i] = x \/ \E k \in DOMAIN hs : r[i] = hs[k]
      BY <1>1, <1>3
    <2>. QED BY <1>4, <2>1, Zenon
  <1>7. ASSUME NEW u
        PROVE  InHoles(r, u) <=>
                  \/ u \in Pages(x)
                  \/ \E k \in DOMAIN hs : (k < lo \/ k > hi) /\ u \in Pages(hs[k])
    <2>1. \A i \in DOMAIN r : \/ r[i] = x
                              \/ \E k \in DOMAIN hs : (k < lo \/ k > hi) /\ r[i] = hs[k]
      BY <1>1, <1>3
    <2>2. lo \in DOMAIN r
      BY <1>1, <1>2 DEF n
    <2>3. \A k \in DOMAIN hs : k < lo \/ k > hi => \E i \in DOMAIN r : r[i] = hs[k]
      <3> TAKE k \in DOMAIN hs
      <3>0. k \in 1 .. n
        BY <1>1, Zenon
      <3>1. CASE k < lo
        <4>1. k \in 1 .. lo - 1 /\ k \in DOMAIN r
          BY <1>1, <1>2, <3>0, <3>1 DEF n
        <4>. QED BY <1>2, <4>1, Zenon
      <3>2. CASE k > hi
        <4> DEFINE i == lo + (k - hi)
        <4>0. DOMAIN r = 1 .. lo + (n - hi)
          BY <1>2
        <4>1. i \in Nat /\ k \in Nat /\ k <= n /\ i \in DOMAIN r
          BY <1>1, <3>0, <3>2, <4>0
        <4>2. r[i] = hs[k]
          BY <1>2, <3>2, <4>1, Zenon
        <4>. QED BY <4>1, <4>2, Zenon
      <3>. QED BY <3>1, <3>2, Zenon
    <2>. QED BY <1>2, <2>1, <2>2, <2>3, Zenon DEF InHoles
  <1>8. Apart(r)
    BY <1>2, <1>5, <1>6, Zenon DEF Apart
  <1>. QED BY <1>7, <1>8, Zenon DEF r, t

\* Hole i is taken out of the list.
LEMMA SpliceNoHole ==
    ASSUME NEW hs, Apart(hs), NEW i \in DOMAIN hs
    PROVE  /\ Apart(Spliced(hs, i, i, <<>>))
           /\ \A u : InHoles(Spliced(hs, i, i, <<>>), u) <=>
                        \E k \in DOMAIN hs : k # i /\ u \in Pages(hs[k])
  <1> DEFINE t == <<>>
             r == Spliced(hs, i, i, t)
             n == Len(hs)
  <1>1. hs \in Seq(Spans) /\ n \in Nat /\ DOMAIN hs = 1 .. n /\ i \in 1 .. n
    BY DEF Apart
  <1>2. /\ r \in Seq(Spans) /\ Len(r) = n - 1
        /\ \A j \in 1 .. i - 1 : r[j] = hs[j]
        /\ \A k, j \in Nat : i < j /\ j <= n /\ k = j - 1 => r[k] = hs[j]
    <2>1. t \in Seq(Spans) /\ Len(t) = 0 /\ i \in 1 .. Len(hs) + 1 /\ i \in i - 1 .. Len(hs)
      BY <1>1
    <2>2. IsSplice(r, hs, i, i, t)
      <3> HIDE DEF t
      <3>. QED BY <1>1, <2>1, SpliceIs, Zenon
    <2> HIDE DEF t, r
    <2>3. \A k, j \in Nat : i < j /\ j <= n /\ k = j - 1 => r[k] = hs[j]
      <3> SUFFICES ASSUME NEW k \in Nat, NEW j \in Nat, i < j, j <= n, k = j - 1
                   PROVE  r[k] = hs[j]
        OBVIOUS
      <3>1. k = (i - 1) + Len(t) + (j - i)
        BY <1>1, <2>1
      <3>. QED BY <2>2, <3>1, Zenon DEF IsSplice
    <2>4. Len(r) = n - 1
      BY <1>1, <2>1, <2>2 DEF IsSplice
    <2>. QED BY <2>2, <2>3, <2>4, Zenon DEF IsSplice
  <1> HIDE DEF r, n, t
  <1>3. \A j \in DOMAIN r : \/ j \in 1 .. i - 1 /\ r[j] = hs[j]
                            \/ j >= i /\ j + 1 \in i + 1 .. n /\ r[j] = hs[j + 1]
    <2> TAKE j \in DOMAIN r
    <2>1. j \in 1 .. n - 1
      BY <1>1, <1>2
    <2>2. CASE j >= i
      <3> DEFINE l == j + 1
      <3>1. j \in Nat /\ l \in Nat /\ i < l /\ l <= n /\ j = l - 1
        BY <1>1, <2>1, <2>2
      <3> HIDE DEF l
      <3>2. r[j] = hs[l]
        BY <1>2, <3>1, Zenon
      <3>3. j + 1 \in i + 1 .. n
        BY <1>1, <2>1, <2>2
      <3>. QED BY <2>2, <3>2, <3>3, Zenon DEF l
    <2>. QED BY <1>1, <1>2, <2>1, <2>2
  <1>4. /\ \A k \in DOMAIN hs : End(hs[k]) <= PoolSize
        /\ \A k, j \in DOMAIN hs : k < j => End(hs[k]) < hs[j].off
    BY Zenon DEF Apart
  <1>5. \A j \in DOMAIN r : \E k \in DOMAIN hs : /\ k # i /\ r[j] = hs[k]
                                                 /\ k = IF j < i THEN j ELSE j + 1
    <2> TAKE j \in DOMAIN r
    <2>1. CASE j \in 1 .. i - 1 /\ r[j] = hs[j]
      <3>1. j \in DOMAIN hs /\ j # i /\ j < i
        BY <1>1, <2>1
      <3>. QED BY <2>1, <3>1, Zenon
    <2>2. CASE j >= i /\ j + 1 \in i + 1 .. n /\ r[j] = hs[j + 1]
      <3> DEFINE k == j + 1
      <3>1. j \in Int
        BY <1>2
      <3>2. k \in DOMAIN hs /\ k # i /\ ~(j < i)
        BY <1>1, <2>2, <3>1
      <3>. QED BY <2>2, <3>2, Zenon
    <2>. QED BY <1>3, <2>1, <2>2, Zenon
  <1>6. \A j, l \in DOMAIN r : j < l => End(r[j]) < r[l].off
    <2> SUFFICES ASSUME NEW j \in DOMAIN r, NEW l \in DOMAIN r, j < l
                 PROVE  End(r[j]) < r[l].off
      OBVIOUS
    <2>1. PICK a \in DOMAIN hs : r[j] = hs[a] /\ a = IF j < i THEN j ELSE j + 1
      BY <1>5, Zenon
    <2>2. PICK b \in DOMAIN hs : r[l] = hs[b] /\ b = IF l < i THEN l ELSE l + 1
      BY <1>5, Zenon
    <2>3. j \in Int /\ l \in Int
      BY <1>2
    <2>4. a < b
      BY <1>1, <2>1, <2>2, <2>3
    <2>. QED BY <1>4, <2>1, <2>2, <2>4, Zenon
  <1>7. \A j \in DOMAIN r : End(r[j]) <= PoolSize
    BY <1>4, <1>5, Zenon
  <1>8. ASSUME NEW u
        PROVE  InHoles(r, u) <=> \E k \in DOMAIN hs : k # i /\ u \in Pages(hs[k])
    <2>1. \A k \in DOMAIN hs : k # i => \E j \in DOMAIN r : r[j] = hs[k]
      <3> TAKE k \in DOMAIN hs
      <3>0. k \in 1 .. n /\ DOMAIN r = 1 .. n - 1
        BY <1>1, <1>2
      <3>1. CASE k < i
        <4>1. k \in 1 .. i - 1 /\ k \in DOMAIN r
          BY <1>1, <3>0, <3>1
        <4>. QED BY <1>2, <4>1, Zenon
      <3>2. CASE k > i
        <4> DEFINE l == k - 1
        <4>1. l \in Nat /\ k \in Nat /\ k <= n /\ l \in DOMAIN r
          BY <1>1, <3>0, <3>2
        <4>2. r[l] = hs[k]
          BY <1>2, <3>2, <4>1, Zenon
        <4>. QED BY <4>1, <4>2, Zenon
      <3>. QED BY <1>1, <3>0, <3>1, <3>2
    <2>. QED BY <1>5, <2>1, Zenon DEF InHoles
  <1>9. Apart(r)
    BY <1>2, <1>6, <1>7, Zenon DEF Apart
  <1>. QED BY <1>8, <1>9, Zenon DEF r, t

LEMMA PoolBound == PoolSize \in Nat /\ 0 < PoolSize
  BY PoolConstants

LEMMA InSpans ==
    ASSUME NEW e \in Spans
    PROVE  /\ e.off \in Nat /\ e.size \in Nat /\ e.size >= 1 /\ e.size <= PoolSize
           /\ e.off <= PoolSize
           /\ End(e) \in Nat /\ End(e) = e.off + e.size
           /\ \A u : u \in Pages(e) <=> u \in Int /\ e.off <= u /\ u < End(e)
  <1>1. e.off \in 0 .. PoolSize /\ e.size \in 1 .. PoolSize
    BY Zenon DEF Spans
  <1>2. End(e) = e.off + e.size /\ Pages(e) = e.off .. End(e) - 1
    BY Zenon DEF End, Pages
  <1>3. e.off \in Nat /\ e.size \in Nat /\ End(e) \in Nat
    BY <1>1, <1>2, PoolBound
  <1>. QED BY <1>1, <1>2, <1>3, PoolBound

LEMMA HoleIs ==
    ASSUME NEW o \in Nat, NEW z \in Nat \ {0}, o + z <= PoolSize
    PROVE  /\ Hole(o, z) \in Spans /\ Hole(o, z).off = o /\ Hole(o, z).size = z
           /\ End(Hole(o, z)) = o + z
  <1>1. o \in 0 .. PoolSize /\ z \in 1 .. PoolSize
    BY PoolBound
  <1>. QED BY <1>1, Zenon DEF Spans, Hole, End

\* vkr_shm_pool_alloc takes the front of a hole and leaves the rest.
LEMMA CarveApart ==
    ASSUME NEW hs, Apart(hs), NEW i \in DOMAIN hs, NEW size \in Nat \ {0}, size <= hs[i].size
    PROVE  /\ Apart(Spliced(hs, i, i, Left(hs[i], size)))
           /\ \A u : InHoles(Spliced(hs, i, i, Left(hs[i], size)), u) <=>
                        InHoles(hs, u) /\ u \notin Pages(Hole(hs[i].off, size))
           /\ Hole(hs[i].off, size) \in Spans
           /\ End(Hole(hs[i].off, size)) <= PoolSize
           /\ \A u \in Pages(Hole(hs[i].off, size)) : InHoles(hs, u)
  <1> DEFINE e == hs[i]
             a == Hole(e.off, size)
             r == Spliced(hs, i, i, Left(e, size))
  <1>1. /\ hs \in Seq(Spans) /\ Len(hs) \in Nat /\ DOMAIN hs = 1 .. Len(hs) /\ i \in 1 .. Len(hs)
        /\ \A k \in DOMAIN hs : hs[k] \in Spans /\ End(hs[k]) <= PoolSize
        /\ \A k, j \in DOMAIN hs : k < j => End(hs[k]) < hs[j].off
    BY DEF Apart
  <1>2. /\ e \in Spans /\ e.off \in Nat /\ e.size \in Nat
        /\ End(e) = e.off + e.size /\ End(e) \in Nat /\ End(e) <= PoolSize
        /\ \A u : u \in Pages(e) <=> u \in Int /\ e.off <= u /\ u < End(e)
    <2>1. e \in Spans
      BY <1>1, Zenon
    <2> HIDE DEF e
    <2>2. End(e) <= PoolSize
      BY <1>1, Zenon DEF e
    <2>. QED BY <2>1, <2>2, InSpans, Zenon
  <1>3. size <= e.size
    OBVIOUS
  <1> HIDE DEF e
  <1>4. /\ a \in Spans /\ a.off = e.off /\ a.size = size
        /\ End(a) = e.off + size /\ End(a) <= PoolSize
    <2>1. e.off + size <= PoolSize
      BY <1>2, <1>3, PoolBound
    <2>. QED BY <1>2, <2>1, HoleIs, Zenon
  <1> HIDE DEF a
  <1>5. \A u : u \in Pages(a) <=> u \in Int /\ e.off <= u /\ u < e.off + size
    BY <1>4, InSpans, Zenon
  <1>6. \A k \in DOMAIN hs : \A u : k # i /\ u \in Pages(hs[k]) => u \notin Pages(e)
    <2> SUFFICES ASSUME NEW k \in DOMAIN hs, NEW u, k # i, u \in Pages(hs[k]), u \in Pages(e)
                 PROVE  FALSE
      OBVIOUS
    <2>1. u \in Int /\ hs[k].off <= u /\ u < End(hs[k]) /\ hs[k].off \in Nat /\ End(hs[k]) \in Nat
      BY <1>1, InSpans, Zenon
    <2>2. u \in Int /\ e.off <= u /\ u < End(e)
      BY <1>2, Zenon
    <2>3. k < i \/ i < k
      BY <1>1
    <2>4. End(hs[k]) < e.off \/ End(e) < hs[k].off
      BY <1>1, <2>3, Zenon DEF e
    <2>. QED BY <1>2, <2>1, <2>2, <2>4
  <1>7. \A u : InHoles(hs, u) <=> \/ u \in Pages(e)
                                 \/ \E k \in DOMAIN hs : k # i /\ u \in Pages(hs[k])
    BY Zenon DEF InHoles, e
  <1>8. \A u : u \in Pages(a) => u \in Pages(e)
    BY <1>2, <1>3, <1>5
  <1>9. Apart(r) /\ \A u : InHoles(r, u) <=> InHoles(hs, u) /\ u \notin Pages(a)
    <2>1. CASE e.size = size
      <3>1. Left(e, size) = <<>>
        BY <2>1, Zenon DEF Left
      <3>2. /\ Apart(r)
            /\ \A u : InHoles(r, u) <=> \E k \in DOMAIN hs : k # i /\ u \in Pages(hs[k])
        BY <3>1, SpliceNoHole, Zenon
      <3>3. \A u : u \in Pages(a) <=> u \in Pages(e)
        BY <1>2, <1>5, <2>1, Zenon
      <3> HIDE DEF r
      <3>. QED BY <1>6, <1>7, <3>2, <3>3, Zenon
    <2>2. CASE e.size # size
      <3> DEFINE x == Hole(e.off + size, e.size - size)
      <3>1. Left(e, size) = <<x>>
        BY <2>2, Zenon DEF Left
      <3>2. /\ x \in Spans /\ x.off = e.off + size /\ End(x) = End(e)
        <4>1. /\ e.off + size \in Nat /\ e.size - size \in Nat \ {0}
              /\ (e.off + size) + (e.size - size) = End(e)
          BY <1>2, <1>3, <2>2, PoolBound, SMTT(30)
        <4>. QED BY <1>2, <4>1, HoleIs
      <3> HIDE DEF x
      <3>3. \A u : u \in Pages(x) <=> u \in Pages(e) /\ u \notin Pages(a)
        <4>1. \A u : u \in Pages(x) <=> u \in Int /\ e.off + size <= u /\ u < End(e)
          BY <3>2, InSpans, Zenon
        <4>. QED BY <1>2, <1>5, <4>1
      <3>4. /\ \A k \in 1 .. i - 1 : End(hs[k]) < x.off
            /\ \A k \in i + 1 .. Len(hs) : End(x) < hs[k].off
        <4>1. \A k \in 1 .. i - 1 : k \in DOMAIN hs /\ k < i
          BY <1>1
        <4>2. \A k \in i + 1 .. Len(hs) : k \in DOMAIN hs /\ i < k
          BY <1>1
        <4>3. \A k \in 1 .. i - 1 : End(hs[k]) < e.off /\ End(hs[k]) \in Nat
          BY <1>1, <4>1, InSpans, Zenon DEF e
        <4>4. \A k \in i + 1 .. Len(hs) : End(e) < hs[k].off
          BY <1>1, <4>2, Zenon DEF e
        <4>. QED BY <1>2, <3>2, <4>3, <4>4
      <3>5. /\ Apart(r)
            /\ \A u : InHoles(r, u) <=> \/ u \in Pages(x)
                                       \/ \E k \in DOMAIN hs : (k < i \/ k > i) /\ u \in Pages(hs[k])
        <4>1. i \in 1 .. Len(hs) + 1 /\ i \in i - 1 .. Len(hs) /\ End(x) <= PoolSize
          BY <1>1, <1>2, <3>2
        <4>. QED BY <3>1, <3>2, <3>4, <4>1, SpliceHole, Zenon
      <3>6. \A k \in DOMAIN hs : (k < i \/ k > i) <=> k # i
        BY <1>1
      <3> HIDE DEF r
      <3>. QED BY <1>6, <1>7, <1>8, <3>3, <3>5, <3>6, Zenon
    <2>. QED BY <2>1, <2>2, Zenon
  <1>10. \A u \in Pages(a) : InHoles(hs, u)
    BY <1>7, <1>8, Zenon
  <1>. QED BY <1>4, <1>9, <1>10, Zenon DEF e, a, r

\* vkr_shm_pool_free returns an hole none of which was free: it is merged
\* with what it touches, and the list still has gaps between its holes.
LEMMA ReturnApart ==
    ASSUME NEW hs, Apart(hs), NEW e \in Spans, End(e) <= PoolSize,
           \A u \in Pages(e) : ~InHoles(hs, u),
           NEW pos \in 1 .. Len(hs) + 1, NextHole(hs, e, pos)
    PROVE  /\ Apart(Returned(hs, pos, e, TRUE))
           /\ \A u : InHoles(Returned(hs, pos, e, TRUE), u) <=> InHoles(hs, u) \/ u \in Pages(e)
  <1> DEFINE next == pos <= Len(hs) /\ End(e) = hs[pos].off
             prev == pos > 1 /\ End(hs[pos - 1]) = e.off
             last == IF next THEN End(hs[pos]) ELSE End(e)
             off  == IF prev THEN hs[pos - 1].off ELSE e.off
             lo   == IF prev THEN pos - 1 ELSE pos
             hi   == IF next THEN pos ELSE pos - 1
             x    == Hole(off, last - off)
  <1>1. /\ hs \in Seq(Spans) /\ Len(hs) \in Nat /\ DOMAIN hs = 1 .. Len(hs) /\ pos \in Nat
        /\ \A k \in DOMAIN hs : hs[k] \in Spans /\ End(hs[k]) <= PoolSize
        /\ \A k, j \in DOMAIN hs : k < j => End(hs[k]) < hs[j].off
    BY DEF Apart
  <1>2. /\ e.off \in Nat /\ e.size \in Nat /\ e.size >= 1
        /\ End(e) = e.off + e.size /\ End(e) \in Nat
        /\ \A u : u \in Pages(e) <=> u \in Int /\ e.off <= u /\ u < End(e)
    BY InSpans, Zenon
  <1>3. \A k \in DOMAIN hs :
            /\ hs[k].off \in Nat /\ End(hs[k]) \in Nat
            /\ hs[k].off < End(hs[k])
            /\ \A u : u \in Pages(hs[k]) <=> u \in Int /\ hs[k].off <= u /\ u < End(hs[k])
    <2> TAKE k \in DOMAIN hs
    <2> DEFINE f == hs[k]
    <2>1. f \in Spans
      BY <1>1, Zenon
    <2> HIDE DEF f
    <2>2. /\ f.off \in Nat /\ End(f) \in Nat /\ f.off < End(f)
          /\ \A u : u \in Pages(f) <=> u \in Int /\ f.off <= u /\ u < End(f)
      BY <2>1, InSpans
    <2>. QED BY <2>2, Zenon DEF f
  <1>4. \A k \in DOMAIN hs : IF k < pos THEN End(hs[k]) <= e.off ELSE End(e) <= hs[k].off
    <2> TAKE k \in DOMAIN hs
    <2>1. \A u : ~(u \in Pages(e) /\ u \in Pages(hs[k]))
      BY Zenon DEF InHoles
    <2>2. CASE k < pos
      <3>1. hs[k].off <= e.off
        <4>1. k \in 1 .. pos - 1
          BY <1>1, <2>2
        <4>. QED BY <4>1, Zenon DEF NextHole
      <3>2. ~(e.off \in Pages(hs[k]))
        BY <1>2, <2>1
      <3>. QED BY <1>2, <1>3, <2>2, <3>1, <3>2
    <2>3. CASE ~(k < pos)
      <3>1. e.off <= hs[k].off
        <4>1. pos \in DOMAIN hs /\ pos <= Len(hs) /\ (k = pos \/ pos < k)
          BY <1>1, <2>3
        <4>2. hs[pos].off > e.off
          BY <4>1, Zenon DEF NextHole
        <4>3. pos < k => End(hs[pos]) < hs[k].off
          BY <1>1, <4>1, Zenon
        <4>. QED BY <1>2, <1>3, <4>1, <4>2, <4>3, SMTT(30)
      <3>2. ~(hs[k].off \in Pages(e))
        BY <1>3, <2>1
      <3>. QED BY <1>2, <1>3, <2>3, <3>1, <3>2
    <2>. QED BY <2>2, <2>3, Zenon
  <1>5. next => pos \in DOMAIN hs /\ End(e) = hs[pos].off
    BY <1>1
  <1>6. prev => pos - 1 \in DOMAIN hs /\ pos - 1 < pos /\ End(hs[pos - 1]) = e.off
    BY <1>1
  <1>7. /\ off \in Nat /\ last \in Nat /\ off <= e.off /\ End(e) <= last /\ last <= PoolSize
        /\ off < last
    <2>1. off \in Nat /\ off <= e.off
      <3>1. CASE prev
        <4>1. /\ hs[pos - 1].off \in Nat
              /\ hs[pos - 1].off < End(hs[pos - 1])
          BY <1>3, <1>6, <3>1, Zenon
        <4>. QED BY <1>2, <3>1, <4>1
      <3>. QED BY <1>2, <3>1
    <2>2. last \in Nat /\ End(e) <= last /\ last <= PoolSize
      <3>1. CASE next
        <4>1. /\ End(hs[pos]) \in Nat /\ hs[pos].off < End(hs[pos]) /\ End(hs[pos]) <= PoolSize
          BY <1>1, <1>3, <1>5, <3>1, Zenon
        <4>. QED BY <1>2, <3>1, <4>1
      <3>. QED BY <1>2, <3>1
    <2> HIDE DEF off, last
    <2>. QED BY <1>2, <2>1, <2>2
  <1>8. /\ x \in Spans /\ x.off = off /\ End(x) = last
    <2> HIDE DEF off, last
    <2>1. last - off \in Nat \ {0} /\ off + (last - off) = last
      BY <1>7
    <2>. QED BY <1>7, <2>1, HoleIs, Zenon
  <1>9. lo \in 1 .. Len(hs) + 1 /\ hi \in lo - 1 .. Len(hs)
    BY <1>1
  <1>10. \A k \in 1 .. lo - 1 : End(hs[k]) < off
    <2> TAKE k \in 1 .. lo - 1
    <2>1. k \in DOMAIN hs /\ k < pos
      BY <1>1
    <2>2. CASE prev
      <3>1. k < pos - 1 /\ pos - 1 \in DOMAIN hs
        BY <1>1, <2>1, <2>2
      <3>. QED BY <1>1, <2>1, <2>2, <3>1, Zenon
    <2>3. CASE ~prev
      <3>1. End(hs[k]) <= e.off /\ End(hs[k]) \in Nat
        BY <1>3, <1>4, <2>1, Zenon
      <3>2. CASE k = pos - 1
        <4>1. End(hs[k]) # e.off
          BY <1>1, <2>1, <2>3, <3>2
        <4>. QED BY <1>2, <2>3, <3>1, <4>1
      <3>3. CASE k # pos - 1
        <4>1. pos - 1 \in DOMAIN hs /\ k < pos - 1 /\ pos - 1 < pos
          BY <1>1, <2>1, <3>3
        <4>2. End(hs[k]) < hs[pos - 1].off /\ hs[pos - 1].off < End(hs[pos - 1])
          BY <1>1, <1>3, <2>1, <4>1, Zenon
        <4>3. End(hs[pos - 1]) <= e.off /\ hs[pos - 1].off \in Nat /\ End(hs[pos - 1]) \in Nat
          BY <1>3, <1>4, <4>1, Zenon
        <4>. QED BY <1>2, <2>3, <3>1, <4>2, <4>3, SMTT(30)
      <3>. QED BY <3>2, <3>3, Zenon
    <2>. QED BY <2>2, <2>3, Zenon
  <1>11. \A k \in hi + 1 .. Len(hs) : last < hs[k].off
    <2> TAKE k \in hi + 1 .. Len(hs)
    <2>1. k \in DOMAIN hs /\ ~(k < pos)
      BY <1>1
    <2>2. CASE next
      <3>1. pos < k /\ pos \in DOMAIN hs
        BY <1>1, <2>1, <2>2
      <3>. QED BY <1>1, <2>1, <2>2, <3>1, Zenon
    <2>3. CASE ~next
      <3>1. pos \in DOMAIN hs /\ pos <= Len(hs) /\ End(e) # hs[pos].off /\ ~(pos < pos)
        BY <1>1, <2>1, <2>3
      <3>2. End(e) <= hs[pos].off
        BY <1>4, <3>1, Zenon
      <3>3. k # pos => End(hs[pos]) < hs[k].off
        BY <1>1, <2>1, <3>1
      <3>. QED BY <1>2, <1>3, <2>1, <2>3, <3>1, <3>2, <3>3, SMTT(30)
    <2>. QED BY <2>2, <2>3, Zenon
  <1>12. \A u : u \in Pages(x) <=> \/ u \in Pages(e)
                                   \/ \E k \in DOMAIN hs : lo <= k /\ k <= hi /\ u \in Pages(hs[k])
    <2>1. \A u : u \in Pages(x) <=> u \in Int /\ off <= u /\ u < last
      BY <1>8, InSpans, Zenon
    <2>2. \A k \in DOMAIN hs : lo <= k /\ k <= hi <=> (prev /\ k = pos - 1) \/ (next /\ k = pos)
      BY <1>1, <1>5, <1>6
    <2>3. \A u : u \in Int /\ off <= u /\ u < last <=>
                     \/ u \in Pages(e)
                     \/ prev /\ u \in Pages(hs[pos - 1])
                     \/ next /\ u \in Pages(hs[pos])
      <3>1. prev => \A u : u \in Pages(hs[pos - 1]) <=> u \in Int /\ off <= u /\ u < e.off
        BY <1>3, <1>6, Zenon
      <3>2. next => \A u : u \in Pages(hs[pos]) <=> u \in Int /\ End(e) <= u /\ u < last
        BY <1>3, <1>5, Zenon
      <3>3. (~prev => off = e.off) /\ (~next => last = End(e))
        OBVIOUS
      <3> HIDE DEF prev, next, off, last
      <3>. QED BY <1>2, <1>7, <3>1, <3>2, <3>3, SMTT(30)
    <2> HIDE DEF prev, next, off, last, lo, hi, x
    <2>. QED BY <1>5, <1>6, <2>1, <2>2, <2>3, Zenon
  <1>13. Returned(hs, pos, e, TRUE) = Spliced(hs, lo, hi, <<x>>)
    BY Zenon DEF Returned
  <1> HIDE DEF prev, next, off, last, lo, hi, x
  <1> DEFINE r == Spliced(hs, lo, hi, <<x>>)
  <1>14. /\ Apart(r)
         /\ \A u : InHoles(r, u) <=>
                        \/ u \in Pages(x)
                        \/ \E k \in DOMAIN hs : (k < lo \/ k > hi) /\ u \in Pages(hs[k])
    <2>1. /\ \A k \in 1 .. lo - 1 : End(hs[k]) < x.off
          /\ \A k \in hi + 1 .. Len(hs) : End(x) < hs[k].off
          /\ End(x) <= PoolSize
      BY <1>7, <1>8, <1>10, <1>11, Zenon
    <2>. QED BY <1>8, <1>9, <2>1, SpliceHole, Zenon
  <1>15. \A k \in DOMAIN hs : (k < lo \/ k > hi) <=> ~(lo <= k /\ k <= hi)
    BY <1>1, <1>9
  <1>16. \A u : InHoles(r, u) <=> InHoles(hs, u) \/ u \in Pages(e)
    <2> HIDE DEF r
    <2>. QED BY <1>12, <1>14, <1>15, Zenon DEF InHoles
  <1>. QED BY <1>13, <1>14, <1>16, Zenon

-----------------------------------------------------------------------------
\* The pages on the list are those nobody uses.
Covers(hs, used) == Apart(hs) /\ \A u \in PoolPages : InHoles(hs, u) <=> u \notin used

LEMMA CoveredHole ==
    ASSUME NEW hs, NEW used \in SUBSET PoolPages, Covers(hs, used), NEW i \in DOMAIN hs
    PROVE  /\ hs[i] \in Spans /\ hs[i].off \in Nat /\ hs[i].size \in Nat \ {0}
           /\ End(hs[i]) = hs[i].off + hs[i].size /\ End(hs[i]) <= PoolSize
           /\ \A u : u \in Pages(hs[i]) <=> u \in Int /\ hs[i].off <= u /\ u < End(hs[i])
           /\ \A u \in Pages(hs[i]) : u \in PoolPages /\ u \notin used
  <1> DEFINE h == hs[i]
  <1>1. h \in Spans /\ End(h) <= PoolSize
    BY DEF Covers, Apart
  <1>2. \A u \in Pages(h) : InHoles(hs, u)
    BY Zenon DEF InHoles
  <1> HIDE DEF h
  <1>3. /\ h.off \in Nat /\ h.size \in Nat \ {0} /\ End(h) = h.off + h.size
        /\ \A u : u \in Pages(h) <=> u \in Int /\ h.off <= u /\ u < End(h)
    BY <1>1, InSpans
  <1>4. \A u \in Pages(h) : u \in PoolPages
    BY <1>1, <1>3, PoolBound DEF PoolPages
  <1>5. \A u \in Pages(h) : u \notin used
    BY <1>2, <1>4, Zenon DEF Covers
  <1>. QED BY <1>1, <1>3, <1>4, <1>5, Zenon DEF h

\* Such a list has each gap once, in order: a hole ends where a used page, or the
\* pool's end, is, since the next page would be on the list otherwise.
LEMMA CoversGaps ==
    ASSUME NEW hs, NEW used \in SUBSET PoolPages, Covers(hs, used)
    PROVE  \A i \in DOMAIN hs : hs[i] \in Gaps(used)
  <1> TAKE i \in DOMAIN hs
  <1> DEFINE h == hs[i]
  <1>1. /\ h \in Spans /\ h.off \in Nat /\ h.size \in Nat \ {0}
        /\ End(h) = h.off + h.size /\ End(h) <= PoolSize
        /\ \A u : u \in Pages(h) <=> u \in Int /\ h.off <= u /\ u < End(h)
        /\ \A u \in Pages(h) : u \in PoolPages /\ u \notin used
    BY CoveredHole, Zenon
  <1>2. \A k \in DOMAIN hs : k = i \/ End(hs[k]) < h.off \/ End(h) < hs[k].off
    BY DEF Covers, Apart
  <1>3. \A k \in DOMAIN hs : \A u : u \in Pages(hs[k]) <=> u \in Int /\ hs[k].off <= u /\ u < End(hs[k])
    BY CoveredHole, Zenon
  <1>4. \A k \in DOMAIN hs : hs[k].off \in Nat /\ End(hs[k]) \in Nat
    BY CoveredHole
  <1>5. h.off = 0 \/ h.off - 1 \in used
    <2> SUFFICES ASSUME h.off # 0, h.off - 1 \notin used PROVE FALSE
      OBVIOUS
    <2> DEFINE u == h.off - 1
    <2> HIDE DEF h
    <2>1. u \in PoolPages
      BY <1>1, PoolBound DEF PoolPages
    <2>2. PICK k \in DOMAIN hs : u \in Pages(hs[k])
      BY <2>1, Zenon DEF Covers, InHoles
    <2>3. hs[k].off <= h.off - 1 /\ h.off - 1 < End(hs[k])
      BY <1>3, <2>2, Zenon
    <2>. QED BY <1>1, <1>2, <1>4, <2>3 DEF h
  <1>6. End(h) = PoolSize \/ End(h) \in used
    <2> SUFFICES ASSUME End(h) # PoolSize, End(h) \notin used PROVE FALSE
      OBVIOUS
    <2> HIDE DEF h
    <2>1. End(h) \in PoolPages
      BY <1>1, PoolBound DEF PoolPages
    <2>2. PICK k \in DOMAIN hs : End(h) \in Pages(hs[k])
      BY <2>1, Zenon DEF Covers, InHoles
    <2>3. hs[k].off <= End(h) /\ End(h) < End(hs[k])
      BY <1>3, <2>2, Zenon
    <2>. QED BY <1>1, <1>2, <1>4, <2>3 DEF h
  <1> HIDE DEF h
  <1>7. h \in [off : PoolPages, size : 1 .. PoolSize]
    <2>1. h.off \in PoolPages /\ h.size \in 1 .. PoolSize
      BY <1>1, PoolBound DEF PoolPages
    <2>. QED BY <1>1, <2>1, Zenon DEF Spans
  <1>. QED BY <1>1, <1>5, <1>6, <1>7, Zenon DEF Gaps, h

\* Gaps that share a page are one.
LEMMA GapIs ==
    ASSUME NEW used \in SUBSET PoolPages, NEW h \in Gaps(used)
    PROVE  /\ h \in Spans /\ h.off \in PoolPages /\ h.size \in Nat \ {0} /\ h = Hole(h.off, h.size)
           /\ h.off \in Nat /\ End(h) = h.off + h.size /\ End(h) \in Nat /\ End(h) <= PoolSize
           /\ \A u : u \in Pages(h) <=> u \in Int /\ h.off <= u /\ u < End(h)
           /\ \A u \in Pages(h) : u \notin used
           /\ h.off = 0 \/ h.off - 1 \in used
           /\ End(h) = PoolSize \/ End(h) \in used
  <1>1. /\ h \in [off : PoolPages, size : 1 .. PoolSize] /\ End(h) <= PoolSize
        /\ \A u \in Pages(h) : u \notin used
        /\ h.off = 0 \/ h.off - 1 \in used
        /\ End(h) = PoolSize \/ End(h) \in used
    BY Zenon DEF Gaps
  <1>2. h \in Spans /\ h.off \in PoolPages /\ h = Hole(h.off, h.size)
    BY <1>1, PoolBound DEF Spans, PoolPages, Hole
  <1>. QED BY <1>1, <1>2, InSpans

LEMMA GapsApart ==
    ASSUME NEW used \in SUBSET PoolPages, NEW g \in Gaps(used), NEW h \in Gaps(used),
           g.off <= h.off
    PROVE  g = h \/ End(g) < h.off
  <1>1. /\ g.off \in Nat /\ End(g) \in Nat /\ g.size \in Nat /\ End(g) = g.off + g.size
        /\ \A u : u \in Pages(g) <=> u \in Int /\ g.off <= u /\ u < End(g)
        /\ \A u \in Pages(g) : u \notin used
        /\ End(g) = PoolSize \/ End(g) \in used
        /\ g = Hole(g.off, g.size)
    BY GapIs, Zenon
  <1>2. /\ h.off \in Nat /\ End(h) \in Nat /\ h.size \in Nat \ {0} /\ End(h) = h.off + h.size
        /\ \A u : u \in Pages(h) <=> u \in Int /\ h.off <= u /\ u < End(h)
        /\ \A u \in Pages(h) : u \notin used
        /\ h.off = 0 \/ h.off - 1 \in used
        /\ End(h) = PoolSize \/ End(h) \in used
        /\ h = Hole(h.off, h.size) /\ End(h) <= PoolSize
    BY GapIs, Zenon
  <1>3. CASE h.off < End(g)
    <2>1. h.off = g.off
      <3>1. h.off - 1 \notin Pages(g) \/ h.off = 0
        BY <1>1, <1>2, Zenon
      <3>. QED BY <1>1, <1>2, <1>3, <3>1
    <2>2. End(h) = End(g)
      <3>1. ~(End(h) < End(g))
        <4>1. End(h) < End(g) => End(h) \in Pages(g)
          BY <1>1, <1>2, <2>1
        <4>2. End(g) <= PoolSize
          BY GapIs, Zenon
        <4>. QED BY <1>1, <1>2, <4>1, <4>2
      <3>2. ~(End(g) < End(h))
        <4>1. End(g) < End(h) => End(g) \in Pages(h)
          BY <1>1, <1>2, <1>3, <2>1
        <4>. QED BY <1>1, <1>2, <4>1
      <3>. QED BY <1>1, <1>2, <3>1, <3>2
    <2>3. g.size = h.size
      BY <1>1, <1>2, <2>1, <2>2
    <2>. QED BY <1>1, <1>2, <2>1, <2>3, Zenon
  <1>4. CASE h.off = End(g)
    <2>1. h.off - 1 \in Pages(g) \/ g.size = 0
      BY <1>1, <1>4
    <2>2. g.size # 0
      BY GapIs, Zenon
    <2>3. h.off \in Pages(h) /\ h.off # 0 /\ h.off - 1 \in used
      BY <1>1, <1>2, <1>4, <2>2
    <2>. QED BY <1>1, <2>1, <2>2, <2>3, Zenon
  <1>. QED BY <1>1, <1>2, <1>3, <1>4

-----------------------------------------------------------------------------
(***************************************************************************)
(* Allocating from and returning to holes that cover what nobody uses      *)
(***************************************************************************)
\* An unused run of s pages lies in one hole.
LEMMA FitsInHole ==
    ASSUME NEW used \in SUBSET PoolPages, NEW hs, Covers(hs, used),
           NEW s \in 1 .. PoolSize, NEW o \in Fits(used, s)
    PROVE  \E i \in DOMAIN hs : hs[i].off <= o /\ hs[i].size >= s
  <1>1. /\ o \in Nat /\ s \in Nat \ {0} /\ o + s <= PoolSize
        /\ \A p \in o .. o + s - 1 : p \notin used
    BY PoolBound DEF Fits
  <1>2. o \in PoolPages /\ o \notin used
    BY <1>1, PoolBound DEF PoolPages
  <1>3. PICK i \in DOMAIN hs : o \in Pages(hs[i])
    BY <1>2, Zenon DEF Covers, InHoles
  <1>4. hs[i] \in Gaps(used)
    BY CoversGaps, Zenon
  <1>5. /\ hs[i].off \in Nat /\ hs[i].size \in Nat /\ End(hs[i]) = hs[i].off + hs[i].size
        /\ hs[i].off <= o /\ o < End(hs[i])
        /\ End(hs[i]) = PoolSize \/ End(hs[i]) \in used
    BY <1>3, <1>4, GapIs, ZenonT(40)
  <1>6. End(hs[i]) >= o + s
    <2> SUFFICES ASSUME End(hs[i]) < o + s PROVE FALSE
      BY <1>1, <1>5
    <2>1. End(hs[i]) \in o .. o + s - 1
      BY <1>1, <1>5
    <2>. QED BY <1>1, <1>5, <2>1, PoolBound
  <1>7. hs[i].size >= s
    BY <1>1, <1>5, <1>6
  <1>. QED BY <1>5, <1>7, Zenon

\* The first hole that fits begins at the lowest place there is, and what is carved
\* from it leaves the holes of what is used then.
LEMMA CarveCovers ==
    ASSUME NEW used \in SUBSET PoolPages, NEW hs, Covers(hs, used), NEW s \in 1 .. PoolSize,
           NEW i \in DOMAIN hs, FirstFit(hs, s, i)
    PROVE  /\ hs[i].off \in Fits(used, s)
           /\ \A o \in Fits(used, s) : hs[i].off <= o
           /\ Covers(Carve(hs, i, s), used \cup Pages(Hole(hs[i].off, s)))
           /\ Pages(Hole(hs[i].off, s)) \subseteq PoolPages
  <1> DEFINE a == Hole(hs[i].off, s)
             r == Carve(hs, i, s)
  <1>0. hs \in Seq(Spans) /\ Len(hs) \in Nat /\ DOMAIN hs = 1 .. Len(hs) /\ s \in Nat \ {0}
    BY PoolBound DEF Covers, Apart
  <1>1. s <= hs[i].size
    BY Zenon DEF FirstFit
  <1>2. /\ hs[i].off \in Nat /\ hs[i].size \in Nat /\ End(hs[i]) = hs[i].off + hs[i].size
        /\ End(hs[i]) <= PoolSize
        /\ \A u : u \in Pages(hs[i]) <=> u \in Int /\ hs[i].off <= u /\ u < End(hs[i])
        /\ \A u \in Pages(hs[i]) : u \notin used
    BY CoveredHole, Zenon
  <1>3. hs[i].off \in Fits(used, s)
    <2>1. hs[i].off \in 0 .. PoolSize - s
      BY <1>0, <1>1, <1>2, PoolBound
    <2>2. \A p \in hs[i].off .. hs[i].off + s - 1 : p \in Pages(hs[i])
      BY <1>0, <1>1, <1>2
    <2>. QED BY <1>2, <2>1, <2>2, Zenon DEF Fits
  <1>4. ASSUME NEW o \in Fits(used, s) PROVE hs[i].off <= o
    <2>1. PICK k \in DOMAIN hs : hs[k].off <= o /\ hs[k].size >= s
      BY FitsInHole, Zenon
    <2>2. hs[k].off \in Nat /\ hs[k].size \in Nat /\ o \in Int
      <3>1. hs[k].off \in Nat /\ hs[k].size \in Nat
        BY CoveredHole, Zenon
      <3>2. o \in Int
        BY DEF Fits
      <3>. QED BY <3>1, <3>2, Zenon
    <2>3. i <= k
      <3> SUFFICES ASSUME k < i PROVE FALSE
        BY <1>0
      <3>1. k \in 1 .. i - 1
        BY <1>0
      <3>2. hs[k].size < s
        BY <3>1, Zenon DEF FirstFit
      <3>. QED BY <1>0, <2>1, <2>2, <3>2
    <2>4. hs[i].off <= hs[k].off
      <3>1. i < k => End(hs[i]) < hs[k].off
        BY Zenon DEF Covers, Apart
      <3>2. i = k \/ i < k
        BY <1>0, <2>3
      <3>. QED BY <1>2, <2>2, <3>1, <3>2
    <2>. QED BY <1>2, <2>1, <2>2, <2>4
  <1>5. /\ Apart(r)
        /\ \A u : InHoles(r, u) <=> InHoles(hs, u) /\ u \notin Pages(a)
        /\ \A u \in Pages(a) : InHoles(hs, u)
        /\ a \in Spans /\ End(a) <= PoolSize
    BY <1>0, <1>1, CarveApart, Zenon DEF Covers, Carve
  <1> HIDE DEF a, r
  <1>6. Pages(a) \subseteq PoolPages
    BY <1>5, InSpans, PoolBound DEF PoolPages
  <1>7. Covers(r, used \cup Pages(a))
    BY <1>5, Zenon DEF Covers
  <1>. QED BY <1>3, <1>4, <1>6, <1>7, Zenon DEF a, r

\* Whether a freed slice has a neighbour on the list is whether one of the pages
\* beside it is unused.
LEMMA Beside ==
    ASSUME NEW used \in SUBSET PoolPages, NEW hs, Covers(hs, used),
           NEW e \in Spans, End(e) <= PoolSize, Pages(e) \subseteq used,
           NEW n \in 1 .. Len(hs) + 1, NextHole(hs, e, n)
    PROVE  /\ (n > 1 /\ End(hs[n - 1]) = e.off) <=> (e.off - 1 \in PoolPages /\ e.off - 1 \notin used)
           /\ (n <= Len(hs) /\ End(e) = hs[n].off) <=> (End(e) \in PoolPages /\ End(e) \notin used)
  <1> DEFINE o == e.off
             s == e.size
  <1>0. /\ o \in Nat /\ s \in Nat \ {0} /\ End(e) = o + s /\ o + s <= PoolSize
        /\ \A u : u \in Pages(e) <=> u \in Int /\ o <= u /\ u < o + s
    BY InSpans
  <1>1. hs \in Seq(Spans) /\ Len(hs) \in Nat /\ DOMAIN hs = 1 .. Len(hs) /\ n \in Nat
    BY DEF Covers, Apart
  <1>2. \A k \in DOMAIN hs :
            /\ hs[k].off \in Nat /\ End(hs[k]) \in Nat /\ hs[k].off < End(hs[k])
            /\ \A u : u \in Pages(hs[k]) <=> u \in Int /\ hs[k].off <= u /\ u < End(hs[k])
            /\ \A u \in Pages(hs[k]) : u \in PoolPages /\ u \notin used
    BY CoveredHole
  <1>3. \A p \in o .. o + s - 1 : p \in used
    BY <1>0
  <1>4. /\ n <= Len(hs) => hs[n].off > o
        /\ \A j \in 1 .. n - 1 : hs[j].off <= o
    BY Zenon DEF NextHole
  <1> HIDE DEF o, s
  <1>5. \A i, j \in DOMAIN hs : i < j => End(hs[i]) < hs[j].off
    BY Zenon DEF Covers, Apart
  <1>6. \A u \in PoolPages : u \notin used => \E k \in DOMAIN hs : u \in Pages(hs[k])
    BY Zenon DEF Covers, InHoles
  <1>7. ASSUME n > 1, End(hs[n - 1]) = o
        PROVE  o - 1 \in PoolPages /\ o - 1 \notin used
    <2>1. n - 1 \in DOMAIN hs
      BY <1>1, <1>7, SMTT(30)
    <2>2. o - 1 \in Pages(hs[n - 1])
      BY <1>0, <1>2, <1>7, <2>1, SMTT(30)
    <2>. QED BY <1>0, <1>2, <2>1, <2>2, SMTT(30)
  <1>8. ASSUME o - 1 \in PoolPages, o - 1 \notin used
        PROVE  n > 1 /\ End(hs[n - 1]) = o
    <2>1. PICK k \in DOMAIN hs : o - 1 \in Pages(hs[k])
      BY <1>6, <1>8, Zenon
    <2>2. hs[k].off <= o - 1 /\ o - 1 < End(hs[k]) /\ o \notin Pages(hs[k])
      BY <1>0, <1>2, <1>3, <2>1, SMTT(30)
    <2>3. End(hs[k]) = o
      BY <1>0, <1>2, <2>1, <2>2, SMTT(30)
    <2>4. k < n
      <3> SUFFICES ASSUME n <= k PROVE FALSE
        BY <1>1
      <3>1. n \in DOMAIN hs /\ n <= Len(hs)
        BY <1>1
      <3>2. n < k => End(hs[n]) < hs[k].off
        BY <1>5, <3>1, Zenon
      <3>. QED BY <1>0, <1>1, <1>2, <1>4, <2>2, <3>1, <3>2, SMTT(30)
    <2>5. k = n - 1
      <3> SUFFICES ASSUME k # n - 1 PROVE FALSE
        OBVIOUS
      <3>1. n - 1 \in DOMAIN hs /\ n - 1 \in 1 .. n - 1 /\ k < n - 1
        BY <1>1, <2>4
      <3>2. End(hs[k]) < hs[n - 1].off /\ hs[n - 1].off <= o /\ hs[n - 1].off \in Nat
        BY <1>2, <1>4, <1>5, <3>1, Zenon
      <3>. QED BY <1>0, <2>3, <3>2
    <2>. QED BY <1>1, <2>3, <2>5
  <1>9. ASSUME n <= Len(hs), o + s = hs[n].off
        PROVE  o + s \in PoolPages /\ o + s \notin used
    <2>1. n \in DOMAIN hs
      BY <1>1, <1>9, SMTT(30)
    <2>2. o + s \in Pages(hs[n])
      BY <1>0, <1>2, <1>9, <2>1, SMTT(30)
    <2>. QED BY <1>0, <1>2, <2>1, <2>2, Zenon
  <1>10. ASSUME o + s \in PoolPages, o + s \notin used
         PROVE  n <= Len(hs) /\ o + s = hs[n].off
    <2>1. PICK k \in DOMAIN hs : o + s \in Pages(hs[k])
      BY <1>6, <1>10, Zenon
    <2>2. hs[k].off <= o + s /\ o + s < End(hs[k]) /\ o + s - 1 \notin Pages(hs[k])
      BY <1>0, <1>2, <1>3, <2>1, SMTT(30)
    <2>3. hs[k].off = o + s
      BY <1>0, <1>2, <2>1, <2>2, SMTT(30)
    <2>4. n <= k
      <3> SUFFICES ASSUME k < n PROVE FALSE
        BY <1>1
      <3>1. k \in 1 .. n - 1
        BY <1>1, SMTT(30)
      <3>. QED BY <1>0, <1>2, <1>4, <2>3, <3>1, SMTT(30)
    <2>5. k = n
      <3> SUFFICES ASSUME n < k PROVE FALSE
        BY <1>1, <2>4
      <3>1. n \in DOMAIN hs /\ n <= Len(hs)
        BY <1>1, SMTT(30)
      <3>2. End(hs[n]) < hs[k].off /\ hs[n].off > o /\ hs[n].off < End(hs[n])
        BY <1>2, <1>4, <1>5, <3>1, SMTT(30)
      <3>3. hs[n].off \in o .. o + s - 1 /\ hs[n].off \in Pages(hs[n])
        BY <1>0, <1>2, <2>3, <3>1, <3>2, SMTT(30)
      <3>. QED BY <1>2, <1>3, <3>1, <3>3, SMTT(30)
    <2>. QED BY <1>1, <2>3, <2>5
  <1>. QED BY <1>0, <1>7, <1>8, <1>9, <1>10, SMTT(30) DEF o

\* Returning a slice leaves the holes of what is used then; without memory for a
\* hole it does so if and only if a page beside the slice is unused.
LEMMA ReturnCovers ==
    ASSUME NEW used \in SUBSET PoolPages, NEW hs, Covers(hs, used),
           NEW e \in Spans, End(e) <= PoolSize, Pages(e) \subseteq used,
           NEW n \in 1 .. Len(hs) + 1, NextHole(hs, e, n)
    PROVE  /\ Covers(Returned(hs, n, e, TRUE), used \ Pages(e))
           /\ Covers(Returned(hs, n, e, FALSE),
                     IF {e.off - 1, End(e)} \cap PoolPages \subseteq used THEN used
                                                                      ELSE used \ Pages(e))
  <1> DEFINE r == Returned(hs, n, e, TRUE)
             prev == n > 1 /\ End(hs[n - 1]) = e.off
             next == n <= Len(hs) /\ End(e) = hs[n].off
  <1>1. Apart(hs) /\ \A u \in Pages(e) : ~InHoles(hs, u)
    BY Zenon DEF Covers
  <1>2. /\ prev <=> (e.off - 1 \in PoolPages /\ e.off - 1 \notin used)
        /\ next <=> (End(e) \in PoolPages /\ End(e) \notin used)
    BY Beside
  <1>3. Returned(hs, n, e, FALSE) = IF prev \/ next THEN r ELSE hs
    BY Zenon DEF Returned
  <1>4. Apart(r) /\ \A u : InHoles(r, u) <=> InHoles(hs, u) \/ u \in Pages(e)
    BY <1>1, ReturnApart, Zenon
  <1> HIDE DEF prev, next, r
  <1>5. Covers(r, used \ Pages(e))
    BY <1>4, Zenon DEF Covers
  <1>6. ({e.off - 1, End(e)} \cap PoolPages \subseteq used) <=> ~(prev \/ next)
    BY <1>2, Zenon
  <1>7. Returned(hs, n, e, TRUE) = r
    BY Zenon DEF r
  <1>. QED BY <1>3, <1>5, <1>6, <1>7, Zenon

-----------------------------------------------------------------------------
(***************************************************************************)
(* The lists of gaps                                                       *)
(***************************************************************************)
INSTANCE FiniteSetTheorems

LEMMA Least ==
    ASSUME NEW T \in SUBSET Nat, T # {}
    PROVE  \E m \in T : \A k \in T : m <= k
  <1> DEFINE R == OpToRel(<, Nat)
  <1>1. IsWellFoundedOn(R, Nat)
    BY NatLessThanWellFounded, Zenon
  <1>2. \A a, b \in Nat : <<a, b>> \in R <=> a < b
    BY Zenon DEF OpToRel
  <1> HIDE DEF R
  <1>3. \E m \in T : \A k \in T : ~(<<k, m>> \in R)
    BY <1>1, WFMin, Zenon
  <1>4. \A m, k \in T : ~(<<k, m>> \in R) => m <= k
    BY <1>2
  <1>. QED BY <1>3, <1>4, Zenon

\* A page nobody uses lies in a gap.
LEMMA GapAround ==
    ASSUME NEW used \in SUBSET PoolPages, NEW u \in PoolPages, u \notin used
    PROVE  \E g \in Gaps(used) : u \in Pages(g)
  <1> DEFINE A == {a \in 0 .. u : \A p \in a .. u : p \notin used}
             B == {b \in u + 1 .. PoolSize : b = PoolSize \/ b \in used}
  <1>1. u \in Nat /\ u < PoolSize /\ PoolSize \in Nat
    BY PoolBound, SMTT(30) DEF PoolPages
  <1>2. u \in A /\ A \in SUBSET Nat
    BY <1>1
  <1>3. PoolSize \in B /\ B \in SUBSET Nat
    BY <1>1
  <1>4. PICK lo \in A : \A a \in A : lo <= a
    <2> HIDE DEF A
    <2>. QED BY <1>2, Least, Zenon
  <1>5. PICK hi \in B : \A b \in B : hi <= b
    <2> HIDE DEF B
    <2>. QED BY <1>3, Least, ZenonT(40)
  <1>6. /\ lo \in Nat /\ lo <= u /\ \A p \in lo .. u : p \notin used
        /\ hi \in Nat /\ u < hi /\ hi <= PoolSize /\ (hi = PoolSize \/ hi \in used)
    BY <1>1
  <1>7. lo = 0 \/ lo - 1 \in used
    <2> SUFFICES ASSUME lo # 0, lo - 1 \notin used PROVE FALSE
      OBVIOUS
    <2>1. lo - 1 \in 0 .. u /\ \A p \in lo - 1 .. u : p = lo - 1 \/ p \in lo .. u
      BY <1>1, <1>6
    <2>2. lo - 1 \in A
      BY <1>6, <2>1, Zenon
    <2> HIDE DEF A
    <2>. QED BY <1>4, <1>6, <2>2, SMTT(30)
  <1>8. \A p \in u + 1 .. hi - 1 : p \notin used
    <2> SUFFICES ASSUME NEW p \in u + 1 .. hi - 1, p \in used PROVE FALSE
      OBVIOUS
    <2>1. p \in B /\ p < hi /\ p \in Int
      BY <1>1, <1>6, SMTT(30)
    <2> HIDE DEF B
    <2>. QED BY <1>5, <1>6, <2>1, SMTT(30)
  <1> HIDE DEF A, B
  <1> DEFINE g == Hole(lo, hi - lo)
  <1>9. g \in [off : PoolPages, size : 1 .. PoolSize] /\ g.off = lo /\ g.size = hi - lo
    <2>1. lo \in PoolPages /\ hi - lo \in 1 .. PoolSize
      BY <1>1, <1>6, SMTT(30) DEF PoolPages
    <2>. QED BY <2>1, ZenonT(40) DEF Hole
  <1>10. End(g) = hi /\ Pages(g) = lo .. hi - 1
    <2> HIDE DEF g
    <2>. QED BY <1>6, <1>9, SMTT(30) DEF End, Pages
  <1> HIDE DEF g
  <1>11. Pages(g) \cap used = {} /\ u \in Pages(g)
    <2>1. \A p \in lo .. hi - 1 : p \in lo .. u \/ p \in u + 1 .. hi - 1
      BY <1>1, <1>6, SMTT(30)
    <2>. QED BY <1>1, <1>6, <1>8, <1>10, <2>1, SMTT(30)
  <1>12. g \in Gaps(used)
    BY <1>6, <1>7, <1>9, <1>10, <1>11, SMTT(30) DEF Gaps
  <1>. QED BY <1>11, <1>12, ZenonT(40)

\* The lists of gaps are the lists of holes that cover what nobody uses.
LEMMA GapListCovers ==
    ASSUME NEW used \in SUBSET PoolPages, NEW hs \in GapLists(used)
    PROVE  Covers(hs, used)
  <1> DEFINE G == Gaps(used)
             n == Cardinality(G)
  <1>1. hs \in [1 .. n -> G] /\ \A i, j \in DOMAIN hs : i < j => hs[i].off < hs[j].off
    BY Zenon DEF GapLists
  <1>2. IsFiniteSet(G)
    <2> DEFINE f == [g \in G |-> g.off]
    <2>1. \A g, h \in G : g.off = h.off => g = h
      <3> TAKE g, h \in G
      <3>1. /\ g.off \in Nat /\ h.off \in Nat /\ g.size \in Nat \ {0}
            /\ End(g) = g.off + g.size
        BY GapIs, Zenon
      <3>2. g.off <= h.off => g = h \/ End(g) < h.off
        BY GapsApart, Zenon
      <3>. QED BY <3>1, <3>2, SMTT(30)
    <2>2. \A g \in G : g.off \in PoolPages
      BY GapIs, Zenon
    <2>3. f \in Injection(G, PoolPages)
      BY <2>1, <2>2, Zenon DEF Injection, IsInjective
    <2>4. IsFiniteSet(PoolPages)
      BY FS_Interval, PoolBound, SMTT(30) DEF PoolPages
    <2> HIDE DEF f, G
    <2>. QED BY <2>3, <2>4, FS_Injection, ZenonT(40)
  <1>3. n \in Nat
    BY <1>2, FS_CardinalityType, Zenon
  <1> HIDE DEF n
  <1>4. DOMAIN hs = 1 .. n
    BY <1>1, Zenon
  <1>5. \A i, j \in DOMAIN hs : hs[i] = hs[j] => i = j
    <2> SUFFICES ASSUME NEW i \in DOMAIN hs, NEW j \in DOMAIN hs, hs[i] = hs[j], i # j
                 PROVE  FALSE
      OBVIOUS
    <2>1. i \in Int /\ j \in Int /\ hs[i] \in G
      BY <1>1, <1>4, SMTT(30)
    <2>2. hs[i].off \in Nat
      BY <2>1, GapIs, ZenonT(40)
    <2>3. hs[i].off < hs[j].off \/ hs[j].off < hs[i].off
      BY <1>1, <2>1, SMTT(30)
    <2>. QED BY <2>2, <2>3, SMTT(30)
  <1>6. hs \in Surjection(1 .. n, G)
    <2>1. hs \in Injection(1 .. n, G)
      BY <1>1, <1>4, <1>5, ZenonT(40) DEF Injection, IsInjective
    <2>2. Cardinality(1 .. n) = n
      BY <1>3, FS_Interval, SMTT(30)
    <2>3. Cardinality(1 .. n) = Cardinality(G)
      BY <2>2, Zenon DEF n
    <2> HIDE DEF G
    <2>. QED BY <1>2, <2>1, <2>3, FS_Injection, ZenonT(40)
  <1>7. \A g \in G : \E i \in DOMAIN hs : hs[i] = g
    BY <1>4, <1>6, ZenonT(40) DEF Surjection
  <1>8. Apart(hs)
    <2>1. hs \in Seq(Spans)
      <3>1. \A i \in 1 .. n : hs[i] \in Spans
        BY <1>1, GapIs, Zenon
      <3>2. hs \in [1 .. n -> Spans]
        BY <1>1, <3>1, Zenon
      <3>. QED BY <1>3, <3>2, SMTT(30)
    <2>2. \A i \in DOMAIN hs : End(hs[i]) <= PoolSize
      BY <1>1, GapIs, ZenonT(40)
    <2>3. \A i, j \in DOMAIN hs : i < j => End(hs[i]) < hs[j].off
      <3> SUFFICES ASSUME NEW i \in DOMAIN hs, NEW j \in DOMAIN hs, i < j
                   PROVE  End(hs[i]) < hs[j].off
        OBVIOUS
      <3>1. hs[i] \in G /\ hs[j] \in G /\ hs[i].off < hs[j].off /\ i \in Int /\ j \in Int
        BY <1>1, <1>4, SMTT(30)
      <3>2. hs[i].off \in Nat /\ hs[j].off \in Nat
        BY <3>1, GapIs, ZenonT(40)
      <3>3. hs[i] # hs[j]
        BY <1>5, <3>1, SMTT(30)
      <3>. QED BY <3>1, <3>2, <3>3, GapsApart, SMTT(30)
    <2>. QED BY <2>1, <2>2, <2>3, ZenonT(40) DEF Apart
  <1>9. ASSUME NEW u \in PoolPages
        PROVE  InHoles(hs, u) <=> u \notin used
    <2>1. InHoles(hs, u) => u \notin used
      BY <1>1, GapIs, Zenon DEF InHoles
    <2>2. ASSUME u \notin used
          PROVE  \E g \in G : u \in Pages(g)
      BY <2>2, GapAround, Zenon
    <2>. QED BY <1>7, <2>1, <2>2, ZenonT(40) DEF InHoles
  <1>. QED BY <1>8, <1>9, Zenon DEF Covers

LEMMA CoversGapList ==
    ASSUME NEW used \in SUBSET PoolPages, NEW hs, Covers(hs, used)
    PROVE  hs \in GapLists(used)
  <1> DEFINE G == Gaps(used)
             n == Len(hs)
  <1>1. hs \in Seq(Spans) /\ n \in Nat /\ DOMAIN hs = 1 .. n
    BY DEF Covers, Apart
  <1>2. \A i \in DOMAIN hs : hs[i] \in G
    BY CoversGaps, Zenon
  <1>3. \A i, j \in DOMAIN hs : i < j => hs[i].off < hs[j].off
    <2> SUFFICES ASSUME NEW i \in DOMAIN hs, NEW j \in DOMAIN hs, i < j
                 PROVE  hs[i].off < hs[j].off
      OBVIOUS
    <2>1. End(hs[i]) < hs[j].off
      BY Zenon DEF Covers, Apart
    <2>2. /\ hs[i].off \in Nat /\ hs[i].size \in Nat /\ End(hs[i]) = hs[i].off + hs[i].size
          /\ hs[j].off \in Nat
      BY CoveredHole, Zenon
    <2>. QED BY <2>1, <2>2, SMTT(30)
  <1>4. \A i, j \in DOMAIN hs : hs[i] = hs[j] => i = j
    <2> SUFFICES ASSUME NEW i \in DOMAIN hs, NEW j \in DOMAIN hs, hs[i] = hs[j], i # j
                 PROVE  FALSE
      OBVIOUS
    <2>1. i \in Int /\ j \in Int /\ hs[i].off \in Nat
      BY <1>1, CoveredHole, SMTT(30)
    <2>2. hs[i].off < hs[j].off \/ hs[j].off < hs[i].off
      BY <1>3, <2>1, SMTT(30)
    <2>. QED BY <2>1, <2>2, SMTT(30)
  <1>5. \A g \in G : \E i \in DOMAIN hs : hs[i] = g
    <2> TAKE g \in G
    <2>1. g.off \in PoolPages /\ g.off \in Pages(g) /\ g.off \notin used /\ g.off \in Nat
      BY GapIs
    <2>2. PICK i \in DOMAIN hs : g.off \in Pages(hs[i])
      BY <2>1, ZenonT(40) DEF Covers, InHoles
    <2>3. hs[i] \in G /\ hs[i].off <= g.off /\ g.off < End(hs[i]) /\ End(hs[i]) \in Nat
      BY <1>2, <2>2, GapIs, SMTT(30)
    <2>4. hs[i] = g \/ End(hs[i]) < g.off
      BY <2>3, GapsApart, Zenon
    <2>. QED BY <2>1, <2>3, <2>4, SMTT(30)
  <1>6. hs \in [1 .. n -> G]
    BY <1>1, <1>2, SMTT(30)
  <1> HIDE DEF G, n
  <1>7. Cardinality(G) = n
    <2>1. hs \in Injection(1 .. n, G)
      BY <1>1, <1>4, <1>6, ZenonT(40) DEF Injection, IsInjective
    <2>2. hs \in Surjection(1 .. n, G)
      BY <1>1, <1>5, <1>6, ZenonT(40) DEF Surjection
    <2>3. ExistsBijection(1 .. n, G)
      BY <2>1, <2>2, Zenon DEF ExistsBijection, Bijection
    <2>4. IsFiniteSet(1 .. n) /\ Cardinality(1 .. n) = n
      BY <1>1, FS_Interval, SMTT(30)
    <2>. QED BY <2>3, <2>4, FS_Bijection, ZenonT(40)
  <1>. QED BY <1>3, <1>6, <1>7, ZenonT(40) DEF GapLists, G

-----------------------------------------------------------------------------
LEMMA AllocIsExact == AllocExact
  <1> SUFFICES ASSUME NEW used \in SUBSET PoolPages, NEW hs \in GapLists(used), NEW s \in 1 .. PoolSize
               PROVE  /\ Fits(used, s) # {} => \E i \in DOMAIN hs : FirstFit(hs, s, i)
                      /\ \A i \in DOMAIN hs : FirstFit(hs, s, i) =>
                           /\ hs[i].off \in Fits(used, s)
                           /\ \A o \in Fits(used, s) : hs[i].off <= o
                           /\ Carve(hs, i, s) \in GapLists(used \cup Pages(Hole(hs[i].off, s)))
    BY Zenon DEF AllocExact
  <1>1. Covers(hs, used)
    BY GapListCovers, Zenon
  <1>2. hs \in Seq(Spans) /\ Len(hs) \in Nat /\ DOMAIN hs = 1 .. Len(hs) /\ s \in Nat \ {0}
    BY <1>1, PoolBound, SMTT(30) DEF Covers, Apart
  <1>3. \A i \in DOMAIN hs : hs[i].off \in Nat /\ hs[i].size \in Nat
    BY <1>1, CoveredHole, Zenon
  <1>4. Fits(used, s) # {} => \E i \in DOMAIN hs : FirstFit(hs, s, i)
    <2> SUFFICES ASSUME Fits(used, s) # {} PROVE \E i \in DOMAIN hs : FirstFit(hs, s, i)
      OBVIOUS
    <2> DEFINE T == {i \in DOMAIN hs : hs[i].size >= s}
    <2>1. T \in SUBSET Nat /\ T # {}
      <3>1. PICK o : o \in Fits(used, s)
        OBVIOUS
      <3>2. \E i \in DOMAIN hs : hs[i].size >= s
        BY <1>1, <3>1, FitsInHole, ZenonT(40)
      <3>. QED BY <1>2, <3>2, SMTT(30)
    <2>2. PICK i \in T : \A k \in T : i <= k
      <3> HIDE DEF T
      <3>. QED BY <2>1, Least, Zenon
    <2>3. \A j \in 1 .. i - 1 : j \in DOMAIN hs /\ j < i
      BY <1>2, SMTT(30)
    <2>4. \A j \in 1 .. i - 1 : hs[j].size < s
      BY <1>2, <1>3, <2>2, <2>3, SMTT(30)
    <2>. QED BY <2>4, Zenon DEF FirstFit
  <1>5. ASSUME NEW i \in DOMAIN hs, FirstFit(hs, s, i)
        PROVE  /\ hs[i].off \in Fits(used, s)
               /\ \A o \in Fits(used, s) : hs[i].off <= o
               /\ Carve(hs, i, s) \in GapLists(used \cup Pages(Hole(hs[i].off, s)))
    <2> DEFINE a == Hole(hs[i].off, s)
    <2>1. /\ hs[i].off \in Fits(used, s)
          /\ \A o \in Fits(used, s) : hs[i].off <= o
          /\ Covers(Carve(hs, i, s), used \cup Pages(a))
          /\ Pages(a) \subseteq PoolPages
      BY <1>1, <1>5, CarveCovers, ZenonT(40)
    <2> HIDE DEF a
    <2>2. used \cup Pages(a) \in SUBSET PoolPages
      BY <2>1, Zenon
    <2>3. Carve(hs, i, s) \in GapLists(used \cup Pages(a))
      BY <2>1, <2>2, CoversGapList, ZenonT(40)
    <2>. QED BY <2>1, <2>3, Zenon DEF a
  <1>. QED BY <1>4, <1>5, Zenon

\* The search for the next hole stops somewhere.
LEMMA NextHoleExists ==
    ASSUME NEW used \in SUBSET PoolPages, NEW hs, Covers(hs, used), NEW e \in Spans
    PROVE  \E n \in 1 .. Len(hs) + 1 : NextHole(hs, e, n)
  <1>1. hs \in Seq(Spans) /\ Len(hs) \in Nat /\ DOMAIN hs = 1 .. Len(hs)
    BY DEF Covers, Apart
  <1>2. \A k \in DOMAIN hs : hs[k].off \in Nat
    BY CoveredHole, Zenon
  <1>3. e.off \in Nat
    BY InSpans, Zenon
  <1> DEFINE T == {n \in 1 .. Len(hs) + 1 : n <= Len(hs) => hs[n].off > e.off}
  <1>4. T \in SUBSET Nat /\ Len(hs) + 1 \in T
    BY <1>1
  <1>5. PICK n \in T : \A k \in T : n <= k
    <2> HIDE DEF T
    <2>. QED BY <1>4, Least, ZenonT(40)
  <1>6. ASSUME NEW j \in 1 .. n - 1 PROVE hs[j].off <= e.off
    <2>1. j \in DOMAIN hs /\ j \in 1 .. Len(hs) + 1 /\ j < n /\ n \in Nat
      BY <1>1
    <2>2. j \notin T
      <3> HIDE DEF T
      <3>. QED BY <1>5, <2>1, SMTT(30)
    <2>. QED BY <1>2, <1>3, <2>1, <2>2, SMTT(30)
  <1>. QED BY <1>6, Zenon DEF NextHole

LEMMA FreeIsExact == FreeExact
  <1> SUFFICES ASSUME NEW used \in SUBSET PoolPages, NEW hs \in GapLists(used), NEW o \in used,
                      NEW s \in 1 .. PoolSize - o, Pages(Hole(o, s)) \subseteq used
               PROVE  /\ \E n \in 1 .. Len(hs) + 1 : NextHole(hs, Hole(o, s), n)
                      /\ \A n \in 1 .. Len(hs) + 1 : NextHole(hs, Hole(o, s), n) =>
                           /\ Returned(hs, n, Hole(o, s), TRUE) \in GapLists(used \ Pages(Hole(o, s)))
                           /\ Returned(hs, n, Hole(o, s), FALSE) \in
                                GapLists(IF {o - 1, o + s} \cap PoolPages \subseteq used THEN used
                                                                       ELSE used \ Pages(Hole(o, s)))
    BY Zenon DEF FreeExact
  <1> DEFINE e == Hole(o, s)
             left == IF {o - 1, o + s} \cap PoolPages \subseteq used THEN used ELSE used \ Pages(e)
  <1>1. Covers(hs, used) /\ Pages(e) \subseteq used
    BY GapListCovers, Zenon
  <1>2. o \in Nat /\ s \in Nat \ {0} /\ o + s <= PoolSize
    BY PoolBound DEF PoolPages
  <1>3. e \in Spans /\ e.off = o /\ End(e) = o + s
    BY <1>2, HoleIs, Zenon
  <1> HIDE DEF e
  <1>4. End(e) <= PoolSize
    BY <1>2, <1>3, Zenon
  <1>5. \E n \in 1 .. Len(hs) + 1 : NextHole(hs, e, n)
    BY <1>1, <1>3, NextHoleExists, ZenonT(40)
  <1>6. ASSUME NEW n \in 1 .. Len(hs) + 1, NextHole(hs, e, n)
        PROVE  /\ Returned(hs, n, e, TRUE) \in GapLists(used \ Pages(e))
               /\ Returned(hs, n, e, FALSE) \in GapLists(left)
    <2>1. /\ Covers(Returned(hs, n, e, TRUE), used \ Pages(e))
          /\ Covers(Returned(hs, n, e, FALSE),
                    IF {e.off - 1, End(e)} \cap PoolPages \subseteq used THEN used
                                                                     ELSE used \ Pages(e))
      BY <1>1, <1>3, <1>4, <1>6, ReturnCovers, ZenonT(40)
    <2>2. Covers(Returned(hs, n, e, FALSE), left)
      BY <1>3, <2>1, Zenon
    <2>3. left \in SUBSET PoolPages /\ used \ Pages(e) \in SUBSET PoolPages
      BY Zenon
    <2> HIDE DEF left
    <2>. QED BY <2>1, <2>2, <2>3, CoversGapList, ZenonT(40)
  <1>. QED BY <1>5, <1>6, Zenon DEF e

LEMMA WholePoolIsGap == StartExact
  <1> DEFINE h == Hole(0, PoolSize)
  <1>1. h \in Spans /\ End(h) = PoolSize /\ h.off = 0
    BY PoolBound, HoleIs
  <1> HIDE DEF h
  <1>2. WholePool = <<h>>
    BY Zenon DEF WholePool, h
  <1>3. /\ <<h>> \in Seq(Spans) /\ DOMAIN <<h>> = {1} /\ <<h>>[1] = h
    BY <1>1
  <1>4. Apart(WholePool)
    BY <1>1, <1>2, <1>3, PoolBound, SMTT(30) DEF Apart
  <1>5. \A u \in PoolPages : u \in Pages(h)
    BY <1>1, InSpans, PoolBound, SMTT(30) DEF PoolPages
  <1>6. Covers(WholePool, {})
    BY <1>2, <1>3, <1>4, <1>5, Zenon DEF Covers, InHoles
  <1>. QED BY <1>6, CoversGapList, Zenon DEF StartExact

\* The pool is exact whatever its size: from the one hole it starts as, through
\* any sequence of vkr_shm_pool_alloc and vkr_shm_pool_free, the list of holes is
\* that of the gaps between the pages in use; an allocation succeeds whenever
\* there is room and takes the lowest place; a free that cannot get memory for a
\* hole loses its own slice only.
THEOREM PoolStaysExact == Spec => []PoolExact
  <1>1. PoolExact
    BY WholePoolIsGap, AllocIsExact, FreeIsExact, Zenon DEF PoolExact
  <1>. QED BY <1>1, PTL
=============================================================================
