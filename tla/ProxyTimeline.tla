--------------------------- MODULE ProxyTimeline ---------------------------
(***************************************************************************)
(* The fences of a proxy context (src/proxy/proxy_context.c) and of the    *)
(* render worker it talks to (server/render_context.c), with               *)
(* VIRGL_RENDERER_ASYNC_FENCE_CB: the VMM's thread submits fences, the     *)
(* context's sync thread retires them, the worker stores the sequence      *)
(* numbers it has reached in shared memory and may die at any moment.      *)
(*                                                                         *)
(* A fence is its ordinal on its ring, from 1; its seqno is the ordinal    *)
(* modulo M.  A section under timeline_mutex is one step of the submitting *)
(* thread; the sync thread holds the mutex over several ("scan").          *)
(***************************************************************************)
EXTENDS Integers, Sequences

CONSTANTS
    NumRings,    \* PROXY_CONTEXT_TIMELINE_COUNT
    M,           \* 2^32: the modulus of a seqno
    StallLimit,  \* 100: looks without progress before the socket is checked
    MaxPending,  \* bound on the fences pending on a ring, below INT32_MAX
    MaxFences    \* bound on the fences submitted, per ring

INT_MAX == M \div 2 - 1

Rings == 0..NumRings-1

ASSUME ProxyConstants ==
    /\ NumRings \in Nat \ {0} /\ M \in Nat /\ M % 2 = 0
    /\ StallLimit \in Nat \ {0}
    /\ MaxPending \in Nat /\ MaxPending <= INT_MAX
    /\ MaxFences \in [Rings -> Nat]

VARIABLES
    \* struct proxy_context
    fences, next_seqno, cur_seqno, stall_count, busy_mask, stop,
    \* the submitting thread
    spc, sring, sfence, smask,
    \* the sync thread
    tpc, todo, new_mask,
    \* shared with the worker
    timeline_seqnos, eventfd, alive, requests,
    \* the worker
    accepted, to_notify,
    \* what the VMM was told
    retired, failed

proxy  == <<fences, next_seqno, cur_seqno, stall_count, busy_mask, stop>>
submit == <<spc, sring, sfence, smask>>
sync   == <<tpc, todo, new_mask>>
shared == <<timeline_seqnos, eventfd, alive, requests>>
worker == <<accepted, to_notify>>
told   == <<retired, failed>>
vars   == <<proxy, submit, sync, shared, worker, told>>

TypeOK ==
    /\ fences \in [Rings -> Seq(Nat)]
    /\ next_seqno \in [Rings -> Nat]
    /\ cur_seqno \in [Rings -> 0..M-1]
    /\ stall_count \in [Rings -> 0..StallLimit]
    /\ busy_mask \subseteq Rings
    /\ stop \in BOOLEAN
    /\ spc \in {"idle", "add", "send", "recover", "wake", "join", "gone"}
    /\ sring \in Rings /\ sfence \in Nat /\ smask \subseteq Rings
    /\ tpc \in {"top", "poll", "flush", "lock", "scan", "exit"}
    /\ todo \subseteq Rings /\ new_mask \subseteq Rings
    /\ timeline_seqnos \in [Rings -> 0..M-1]
    /\ eventfd \in BOOLEAN /\ alive \in BOOLEAN
    /\ requests \in Seq([ring : Rings, fence : Nat])
    /\ accepted \in [Rings -> Seq(Nat)]
    /\ to_notify \subseteq Rings
    /\ retired \in [Rings -> Nat]
    /\ failed \in [Rings -> SUBSET Nat]

\* proxy_context_init_timelines and render_context_init_virgl_context
Init ==
    /\ fences = [r \in Rings |-> <<>>]
    /\ next_seqno = [r \in Rings |-> 1]
    /\ cur_seqno = [r \in Rings |-> 0]
    /\ stall_count = [r \in Rings |-> 0]
    /\ busy_mask = {} /\ stop = FALSE
    /\ spc = "idle" /\ sring = 0 /\ sfence = 0 /\ smask = {}
    /\ tpc = "top" /\ todo = {} /\ new_mask = {}
    /\ timeline_seqnos = [r \in Rings |-> 0]
    /\ eventfd = FALSE /\ alive = TRUE /\ requests = <<>>
    /\ accepted = [r \in Rings |-> <<>>] /\ to_notify = {}
    /\ retired = [r \in Rings |-> 0]
    /\ failed = [r \in Rings |-> {}]

\* The sync thread is inside proxy_context_retire_fences_internal's lock.
MutexFree == tpc # "scan"

-----------------------------------------------------------------------------
(***************************************************************************)
(* proxy_context_submit_fence                                              *)
(***************************************************************************)
\* old_busy_mask is read before the lock; the fence gets its seqno.
SubmitFence(r) ==
    /\ spc = "idle"
    /\ next_seqno[r] <= MaxFences[r] /\ Len(fences[r]) < MaxPending
    /\ smask' = busy_mask
    /\ sring' = r
    /\ sfence' = next_seqno[r]
    /\ next_seqno' = [next_seqno EXCEPT ![r] = @ + 1]
    /\ spc' = "add"
    /\ UNCHANGED <<fences, cur_seqno, stall_count, busy_mask, stop, sync, shared,
                   worker, told>>

\* Mutant: list_add for list_addtail.
SubmitAdd_AtHead ==
    /\ spc = "add" /\ MutexFree
    /\ fences' = [fences EXCEPT ![sring] = <<sfence>> \o @]
    /\ busy_mask' = busy_mask \cup {sring}
    /\ spc' = "send"
    /\ UNCHANGED <<next_seqno, cur_seqno, stall_count, stop, sring, sfence, smask,
                   sync, shared, worker, told>>

SubmitAdd ==
    /\ spc = "add" /\ MutexFree
    /\ fences' = [fences EXCEPT ![sring] = Append(@, sfence)]
    /\ busy_mask' = busy_mask \cup {sring}
    /\ spc' = "send"
    /\ UNCHANGED <<next_seqno, cur_seqno, stall_count, stop, sring, sfence, smask,
                   sync, shared, worker, told>>

\* proxy_socket_send_request fails when the other end is gone.
SubmitSend ==
    /\ spc = "send"
    /\ IF alive
         THEN /\ requests' = Append(requests, [ring |-> sring, fence |-> sfence])
              /\ spc' = "idle"
         ELSE /\ spc' = "recover"
              /\ UNCHANGED requests
    /\ UNCHANGED <<proxy, sring, sfence, smask, sync, timeline_seqnos, eventfd,
                   alive, worker, told>>

\* list_del of an entry, which is on the list or was retired from it before
ListDel(list, f) ==
    IF \E i \in DOMAIN list : list[i] = f
      THEN LET i == CHOOSE i \in DOMAIN list : list[i] = f
           IN  SubSeq(list, 1, i - 1) \o SubSeq(list, i + 1, Len(list))
      ELSE list

\* Mutant: the recovery clears the ring's bit instead of restoring the mask.
SubmitRecover_ClearBit ==
    /\ spc = "recover" /\ MutexFree
    /\ fences' = [fences EXCEPT ![sring] = ListDel(@, sfence)]
    /\ busy_mask' = busy_mask \ {sring}
    /\ failed' = [failed EXCEPT ![sring] = @ \cup {sfence}]
    /\ spc' = "idle"
    /\ UNCHANGED <<next_seqno, cur_seqno, stall_count, stop, sring, sfence, smask,
                   sync, shared, worker, retired>>

\* list_del of the fence from whatever list holds it, and the old mask
SubmitRecover ==
    /\ spc = "recover" /\ MutexFree
    /\ fences' = [fences EXCEPT ![sring] = ListDel(@, sfence)]
    /\ busy_mask' = smask
    /\ failed' = [failed EXCEPT ![sring] = @ \cup {sfence}]
    /\ spc' = "idle"
    /\ UNCHANGED <<next_seqno, cur_seqno, stall_count, stop, sring, sfence, smask,
                   sync, shared, worker, retired>>

-----------------------------------------------------------------------------
(***************************************************************************)
(* proxy_context_sync_thread and proxy_context_retire_fences_internal      *)
(***************************************************************************)
SyncTop ==
    /\ tpc = "top"
    /\ tpc' = IF stop THEN "exit" ELSE "poll"
    /\ UNCHANGED <<proxy, submit, todo, new_mask, shared, worker, told>>

\* poll on the eventfd and on the socket, which hangs up when the worker dies
SyncPoll ==
    /\ tpc = "poll"
    /\ eventfd \/ ~alive
    /\ tpc' = "flush"
    /\ UNCHANGED <<proxy, submit, todo, new_mask, shared, worker, told>>

SyncFlush ==
    /\ tpc = "flush"
    /\ eventfd' = FALSE
    /\ tpc' = "lock"
    /\ UNCHANGED <<proxy, submit, todo, new_mask, timeline_seqnos, alive, requests,
                   worker, told>>

SyncLock ==
    /\ tpc = "lock"
    /\ todo' = busy_mask
    /\ new_mask' = {}
    /\ tpc' = "scan"
    /\ UNCHANGED <<proxy, submit, shared, worker, told>>

\* Mutant: without taking wrapping into account.
IsSignaled_NoWrap(f, seqno) == f % M <= seqno

\* proxy_fence_is_signaled, for the fence with ordinal f
IsSignaled(f, seqno) == (seqno - f) % M < INT_MAX

\* n fences of a list retire when its timeline has reached seqno: the longest
\* prefix of signaled ones.
SignaledPrefix(list, seqno, n) ==
    /\ \A i \in 1..n : IsSignaled(list[i], seqno)
    /\ n < Len(list) => ~IsSignaled(list[n + 1], seqno)

\* Mutant: the socket is never consulted.
ForceRetire_Never(r) == FALSE

\* No progress for a while and the socket has been disconnected
ForceRetire(r) == stall_count[r] + 1 >= StallLimit /\ ~alive

\* The worker's seqno is where it was at the last look, with fences pending.
Stalled(r) == cur_seqno[r] = timeline_seqnos[r] /\ fences[r] # <<>>

\* The first n fences retire; the ring stays busy if others are left.
RetireFences(r, n) ==
    /\ cur_seqno' = [cur_seqno EXCEPT ![r] = timeline_seqnos[r]]
    /\ stall_count' = [stall_count EXCEPT ![r] = 0]
    /\ fences' = [fences EXCEPT ![r] = SubSeq(@, n + 1, Len(@))]
    /\ retired' = IF n = 0 THEN retired ELSE [retired EXCEPT ![r] = fences[r][n]]
    /\ new_mask' = IF n < Len(fences[r]) THEN new_mask \cup {r} ELSE new_mask

\* retire_timeline_fences_locked with the seqno just loaded
RetireTimeline(r) ==
    \/ /\ Stalled(r) /\ ~ForceRetire(r)
       /\ stall_count' = [stall_count EXCEPT ![r] = IF @ < StallLimit THEN @ + 1 ELSE @]
       /\ new_mask' = new_mask \cup {r}
       /\ UNCHANGED <<cur_seqno, fences, retired>>
    \/ /\ Stalled(r) /\ ForceRetire(r)
       /\ RetireFences(r, Len(fences[r]))
    \/ /\ ~Stalled(r)
       /\ \E n \in 0..Len(fences[r]) :
              SignaledPrefix(fences[r], timeline_seqnos[r], n) /\ RetireFences(r, n)

\* The lowest ring left of the busy mask
SyncScan ==
    /\ tpc = "scan"
    /\ \E r \in todo :
           /\ \A q \in todo : r <= q
           /\ todo' = todo \ {r}
           /\ RetireTimeline(r)
    /\ UNCHANGED <<next_seqno, busy_mask, stop, submit, tpc, shared, worker, failed>>

SyncUnlock ==
    /\ tpc = "scan" /\ todo = {}
    /\ busy_mask' = new_mask
    /\ tpc' = "top"
    /\ UNCHANGED <<fences, next_seqno, cur_seqno, stall_count, stop, submit, todo,
                   new_mask, shared, worker, told>>

-----------------------------------------------------------------------------
(***************************************************************************)
(* proxy_context_destroy, called by the VMM's thread between submissions   *)
(***************************************************************************)
DestroyStop ==
    /\ spc = "idle"
    /\ stop' = TRUE
    /\ spc' = "wake"
    /\ UNCHANGED <<fences, next_seqno, cur_seqno, stall_count, busy_mask, sring,
                   sfence, smask, sync, shared, worker, told>>

\* Mutant: the sync thread is joined without being woken up.
DestroyWake_None ==
    /\ spc = "wake"
    /\ spc' = "join"
    /\ UNCHANGED <<proxy, sring, sfence, smask, sync, shared, worker, told>>

DestroyWake ==
    /\ spc = "wake"
    /\ eventfd' = TRUE
    /\ spc' = "join"
    /\ UNCHANGED <<proxy, sring, sfence, smask, sync, timeline_seqnos, alive,
                   requests, worker, told>>

\* The join returns; what is still pending is freed and never retires.
DestroyJoin ==
    /\ spc = "join" /\ tpc = "exit"
    /\ fences' = [r \in Rings |-> <<>>]
    /\ spc' = "gone"
    /\ UNCHANGED <<next_seqno, cur_seqno, stall_count, busy_mask, stop, sring,
                   sfence, smask, sync, shared, worker, told>>

-----------------------------------------------------------------------------
(***************************************************************************)
(* The worker: render_context_dispatch_submit_fence passes the fence on to *)
(* the renderer, whose fence callback is render_context_update_timeline.   *)
(***************************************************************************)
WorkerAccept ==
    /\ alive /\ requests # <<>>
    /\ requests' = Tail(requests)
    /\ accepted' = [accepted EXCEPT ![Head(requests).ring] =
                        Append(@, Head(requests).fence)]
    /\ UNCHANGED <<proxy, submit, sync, timeline_seqnos, eventfd, alive, to_notify,
                   told>>

UpdateTimeline(r) ==
    /\ alive /\ accepted[r] # <<>> /\ r \notin to_notify
    /\ timeline_seqnos' = [timeline_seqnos EXCEPT ![r] = Head(accepted[r]) % M]
    /\ accepted' = [accepted EXCEPT ![r] = Tail(@)]
    /\ to_notify' = to_notify \cup {r}
    /\ UNCHANGED <<proxy, submit, sync, eventfd, alive, requests, told>>

NotifyTimeline(r) ==
    /\ alive /\ r \in to_notify
    /\ eventfd' = TRUE
    /\ to_notify' = to_notify \ {r}
    /\ UNCHANGED <<proxy, submit, sync, timeline_seqnos, alive, requests, accepted,
                   told>>

\* The worker crashes, or the server kills it for proxy_context_destroy.
WorkerDies ==
    /\ alive
    /\ alive' = FALSE
    /\ requests' = <<>>
    /\ accepted' = [r \in Rings |-> <<>>]
    /\ to_notify' = {}
    /\ UNCHANGED <<proxy, submit, sync, timeline_seqnos, eventfd, told>>

-----------------------------------------------------------------------------
SyncThread == SyncTop \/ SyncPoll \/ SyncFlush \/ SyncLock \/ SyncScan \/ SyncUnlock

SubmitThread == SubmitAdd \/ SubmitSend \/ SubmitRecover \/ DestroyWake \/ DestroyJoin

Worker ==
    \/ WorkerAccept
    \/ \E r \in Rings : UpdateTimeline(r) \/ NotifyTimeline(r)

Done == spc = "gone" /\ UNCHANGED vars

Next ==
    \/ SyncThread
    \/ SubmitThread
    \/ \E r \in Rings : SubmitFence(r)
    \/ DestroyStop
    \/ Worker
    \/ WorkerDies
    \/ Done

\* Both threads run, and a live worker finishes what it accepted.
Fairness ==
    /\ WF_vars(SyncThread)
    /\ WF_vars(SubmitThread)
    /\ WF_vars(WorkerAccept)
    /\ \A r \in Rings : WF_vars(UpdateTimeline(r)) /\ WF_vars(NotifyTimeline(r))

Spec == Init /\ [][Next]_vars

FairSpec == Spec /\ Fairness

-----------------------------------------------------------------------------
(***************************************************************************)
(* Properties                                                              *)
(***************************************************************************)

\* A ring with pending fences is in the busy mask, or about to be put back
\* into it by the scan in progress: no fence is forgotten by the sync thread,
\* whatever the recovery of a failed submission writes into the mask.
BusyCovers ==
    \A r \in Rings : fences[r] # <<>> =>
        IF tpc = "scan" THEN r \in todo \cup new_mask ELSE r \in busy_mask

\* The state is well-formed and the mask covers what is pending.
BusyConsistent == TypeOK /\ BusyCovers

\* The fences of a ring that are on their way to the worker or unfinished there
Unfinished(r) ==
    {accepted[r][i] : i \in DOMAIN accepted[r]}
    \cup {requests[i].fence : i \in {j \in DOMAIN requests : requests[j].ring = r}}
    \cup (IF spc \in {"send", "recover"} /\ sring = r THEN {sfence} ELSE {})

\* While the worker lives, a fence retires only after the worker has finished
\* it and everything submitted to its ring before it, also when seqnos wrap.
RetiresSignaled ==
    [][\A r \in Rings : (alive /\ retired'[r] # retired[r]) =>
           \A f \in Unfinished(r) : retired'[r] < f]_vars

\* The fence put last on the list of each ring
newest ==
    [r \in Rings |-> IF spc = "add" /\ r = sring THEN next_seqno[r] - 2
                     ELSE next_seqno[r] - 1]

\* The timelines of struct virgl_context.
Fences == INSTANCE FenceTimeline WITH pending <- fences

\* The lists, the masks and the seqnos implement fences that retire in order,
\* each at most once.
ImplementsFenceTimeline == Fences!Spec

\* The fences pending on a ring retire, whether the worker lives or dies,
\* unless the context is destroyed (fences retire in order and their number
\* is bounded, so each one retires if the list empties again and again).
PendingFencesRetire == \A r \in Rings : []<>(fences[r] = <<>> \/ stop)

\* proxy_context_destroy returns: the sync thread does not sleep through it.
DestroyReturns == (spc = "wake") ~> (spc = "gone")
=============================================================================
