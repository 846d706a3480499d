---------------------------- MODULE DrmTimeline ----------------------------
(***************************************************************************)
(* One fence timeline of a native context: struct drm_timeline and its     *)
(* sync thread (src/drm/drm_fence.c), fed by the command thread of the     *)
(* drm2kgsl renderer.  Several submitqueues (KGSL draw contexts, each with *)
(* timestamps of its own) may feed one timeline.                           *)
(*                                                                         *)
(* A context waits for its fences either by timestamp or by polling a      *)
(* sync_file fd (use_wait_timestamp, chosen at creation).  A section under *)
(* fence_mutex is one step; the fence a wait is about is (queue, ts).      *)
(***************************************************************************)
EXTENDS Integers, Sequences

CONSTANTS
    Queues,     \* the submitqueues of the ring
    MaxSubmits, \* bound on the submissions of a queue
    MaxFences   \* bound on the fences submitted to the ring

ASSUME DrmConstants ==
    /\ MaxSubmits \in Nat /\ MaxFences \in Nat

VARIABLES
    use_wait_timestamp,
    issued,     \* submissions the kernel accepted, per queue
    done,       \* the last timestamp the GPU has passed, per queue
    open,       \* sq_to_ring_idx_table
    last,       \* last_fence_fd or last_ctx_id and last_timestamp, or None
    pending_fences, stop_sync_thread,
    mpc,        \* the command thread: "idle", "join", "gone"
    tpc,        \* the sync thread: "loop", "cond", "wait", "relock", "exit"
    cur, ret,   \* its fence, and what its wait returned
    signalled,  \* a cnd_signal has reached the waiting sync thread
    fence_id,   \* fences submitted to the ring
    queued,     \* how many of them were put on the timeline
    retired,    \* the last fence the sync thread retired, counting the queued
    told      \* the fences told to the VMM, in the order of the telling

command == <<use_wait_timestamp, issued, open, last, mpc, fence_id, queued>>
thread  == <<tpc, cur, ret>>
vars    == <<command, thread, done, pending_fences, stop_sync_thread, signalled,
             retired, told>>

None == <<>>

Fence == [id : 1..MaxFences, nr : 1..MaxFences, queue : Queues, ts : 1..MaxSubmits,
          issued : 0..MaxSubmits]

TypeOK ==
    /\ use_wait_timestamp \in BOOLEAN
    /\ issued \in [Queues -> 0..MaxSubmits]
    /\ done \in [Queues -> 0..MaxSubmits]
    /\ open \subseteq Queues
    /\ last \in {None} \cup (Queues \X (1..MaxSubmits))
    /\ pending_fences \in Seq(Fence)
    /\ stop_sync_thread \in BOOLEAN
    /\ mpc \in {"idle", "join", "gone"}
    /\ tpc \in {"loop", "cond", "wait", "relock", "exit"}
    /\ cur \in Fence \cup {None}
    /\ ret \in {"retired", "timeout", "error"}
    /\ signalled \in BOOLEAN
    /\ fence_id \in 0..MaxFences /\ queued \in 0..MaxFences
    /\ retired \in 0..MaxFences
    /\ told \in Seq(1..MaxFences)

\* kgsl_renderer_create and drm_timeline_init
Init ==
    /\ use_wait_timestamp \in BOOLEAN
    /\ issued = [q \in Queues |-> 0] /\ done = [q \in Queues |-> 0]
    /\ open = Queues /\ last = None
    /\ pending_fences = <<>> /\ stop_sync_thread = FALSE
    /\ mpc = "idle" /\ tpc = "loop" /\ cur = None /\ ret = "retired"
    /\ signalled = FALSE
    /\ fence_id = 0 /\ queued = 0 /\ retired = 0 /\ told = <<>>

\* cnd_signal: lost when nobody waits.
CndSignal == signalled' = (signalled \/ tpc = "cond")

-----------------------------------------------------------------------------
(***************************************************************************)
(* The command thread                                                      *)
(***************************************************************************)
KGSL_GUEST_TS(seqno) == seqno + 1

\* kgsl_ccmd_gem_submit that the kernel accepts: drm_timeline_set_last_timestamp,
\* or drm_timeline_set_last_fence_fd if TIMESTAMP_EVENT yields a fence.  What
\* was left from an earlier submission is replaced.  A submission without
\* commands and a failing GPU_COMMAND leave the timeline alone.
GemSubmit(q) ==
    /\ mpc = "idle" /\ q \in open /\ issued[q] < MaxSubmits
    /\ issued' = [issued EXCEPT ![q] = @ + 1]
    /\ \/ last' = <<q, KGSL_GUEST_TS(issued[q])>>
       \/ ~use_wait_timestamp /\ UNCHANGED last
    /\ UNCHANGED <<use_wait_timestamp, open, mpc, fence_id, queued, thread,
                   done, pending_fences, stop_sync_thread, signalled, retired,
                   told>>

\* DRM_MSM_SUBMITQUEUE_CLOSE: waits for a destroyed draw context return at once.
SubmitqueueClose(q) ==
    /\ mpc = "idle" /\ q \in open
    /\ open' = open \ {q}
    /\ done' = [done EXCEPT ![q] = issued[q]]
    /\ UNCHANGED <<use_wait_timestamp, issued, last, mpc, fence_id, queued,
                   thread, pending_fences, stop_sync_thread, signalled, retired,
                   told>>

\* The fence that drm_timeline_submit_fence makes of what was stashed
NewFence ==
    [id |-> fence_id + 1, nr |-> queued + 1, queue |-> last[1], ts |-> last[2],
     issued |-> issued[last[1]]]

\* Mutant: no signal.
SubmitFenceQueued_NoSignal ==
    /\ mpc = "idle" /\ fence_id < MaxFences /\ last # None
    /\ pending_fences' = Append(pending_fences, NewFence)
    /\ last' = None
    /\ fence_id' = fence_id + 1 /\ queued' = queued + 1
    /\ UNCHANGED <<use_wait_timestamp, issued, open, mpc, thread, done,
                   stop_sync_thread, signalled, retired, told>>

\* kgsl_renderer_submit_fence and drm_timeline_submit_fence
SubmitFenceQueued ==
    /\ mpc = "idle" /\ fence_id < MaxFences /\ last # None
    /\ pending_fences' = Append(pending_fences, NewFence)
    /\ last' = None
    /\ fence_id' = fence_id + 1 /\ queued' = queued + 1
    /\ CndSignal
    /\ UNCHANGED <<use_wait_timestamp, issued, open, mpc, thread, done,
                   stop_sync_thread, retired, told>>

\* kgsl_renderer_submit_fence with nothing stashed: signal immediately.
SubmitFenceNow ==
    /\ mpc = "idle" /\ fence_id < MaxFences /\ last = None
    /\ fence_id' = fence_id + 1
    /\ told' = Append(told, fence_id + 1)
    /\ UNCHANGED <<use_wait_timestamp, issued, open, last, mpc, queued, thread,
                   done, pending_fences, stop_sync_thread, signalled, retired>>

\* drm_timeline_submit_fence has no memory for the fence: the VMM is told so,
\* and what is stashed stays for the next fence.
SubmitFenceFails ==
    /\ mpc = "idle" /\ fence_id < MaxFences /\ last # None
    /\ fence_id' = fence_id + 1
    /\ UNCHANGED <<use_wait_timestamp, issued, open, last, mpc, queued, thread,
                   done, pending_fences, stop_sync_thread, signalled, retired,
                   told>>

\* Mutant: the pending fences are destroyed before the thread is joined.
FiniStop_FreesFirst ==
    /\ mpc = "idle"
    /\ stop_sync_thread' = TRUE
    /\ pending_fences' = <<>>
    /\ CndSignal
    /\ mpc' = "join"
    /\ UNCHANGED <<use_wait_timestamp, issued, open, last, fence_id, queued,
                   thread, done, retired, told>>

\* drm_timeline_fini
FiniStop ==
    /\ mpc = "idle"
    /\ stop_sync_thread' = TRUE
    /\ CndSignal
    /\ mpc' = "join"
    /\ UNCHANGED <<use_wait_timestamp, issued, open, last, fence_id, queued,
                   thread, done, pending_fences, retired, told>>

\* The join returns; what is pending is destroyed and never retires.
FiniJoin ==
    /\ mpc = "join" /\ tpc = "exit"
    /\ mpc' = "gone"
    /\ last' = None
    /\ pending_fences' = <<>>
    /\ UNCHANGED <<use_wait_timestamp, issued, open, fence_id, queued, thread,
                   done, stop_sync_thread, signalled, retired, told>>

-----------------------------------------------------------------------------
(***************************************************************************)
(* thread_sync                                                             *)
(***************************************************************************)
\* The loop's condition, cnd_wait on an empty list, or unlock and wait for the
\* first fence.
ThreadLoop ==
    /\ tpc = "loop"
    /\ \/ /\ stop_sync_thread
          /\ tpc' = "exit" /\ UNCHANGED cur
       \/ /\ ~stop_sync_thread /\ pending_fences = <<>>
          /\ tpc' = "cond" /\ UNCHANGED cur
       \/ /\ ~stop_sync_thread /\ pending_fences # <<>>
          /\ tpc' = "wait" /\ cur' = Head(pending_fences)
    /\ UNCHANGED <<command, ret, done, pending_fences, stop_sync_thread,
                   signalled, retired, told>>

ThreadWake ==
    /\ tpc = "cond" /\ signalled
    /\ signalled' = FALSE
    /\ tpc' = "loop"
    /\ UNCHANGED <<command, cur, ret, done, pending_fences, stop_sync_thread,
                   retired, told>>

GpuPassed(f) == f.ts <= done[f.queue]

\* The unlocked wait of thread_sync ends with a result.
WaitEnds(result) ==
    /\ tpc = "wait"
    /\ ret' = result
    /\ tpc' = "relock"
    /\ UNCHANGED <<command, cur, done, pending_fences, stop_sync_thread,
                   signalled, retired, told>>

\* The ioctl returns 0, or poll returns 1.
ThreadWaitPassed == WaitEnds("retired") /\ GpuPassed(cur)

\* Mutant: WAITTIMESTAMP without a timeout.
ThreadWaitTimeout_Never == FALSE

\* kgsl_timeline_wait_timestamp waits in chunks; poll waits forever.
ThreadWaitTimeout == WaitEnds("timeout") /\ use_wait_timestamp /\ ~GpuPassed(cur)

\* The ioctl fails with anything but ETIMEDOUT (the GPU faulted and the kernel
\* recovers it), or poll fails.
ThreadWaitError == WaitEnds("error")

\* Mutant: a timeout counts as retired.
ReWait_Never == ~use_wait_timestamp /\ ret # "retired"

\* A timestamp is waited for again after a chunk that timed out, any other
\* error retires the fence; an fd is polled until it is readable.
ReWait ==
    IF use_wait_timestamp THEN ret = "timeout" /\ ~stop_sync_thread
                          ELSE ret # "retired"

\* list_del of a fence
ListDel(list, f) ==
    IF \E i \in DOMAIN list : list[i] = f
      THEN LET i == CHOOSE i \in DOMAIN list : list[i] = f
           IN  SubSeq(list, 1, i - 1) \o SubSeq(list, i + 1, Len(list))
      ELSE list

\* Mutant: the last fence of the list is the one destroyed.
ThreadRelock_Last ==
    /\ tpc = "relock"
    /\ IF ReWait
         THEN UNCHANGED <<pending_fences, retired, told>>
         ELSE /\ retired' = cur.nr
              /\ told' = Append(told, cur.id)
              /\ pending_fences' = SubSeq(pending_fences, 1, Len(pending_fences) - 1)
    /\ tpc' = "loop"
    /\ UNCHANGED <<command, cur, ret, done, stop_sync_thread, signalled>>

\* Relock; re-wait, or retire and destroy the fence.
ThreadRelock ==
    /\ tpc = "relock"
    /\ IF ReWait
         THEN UNCHANGED <<pending_fences, retired, told>>
         ELSE /\ retired' = cur.nr
              /\ told' = Append(told, cur.id)
              /\ pending_fences' = ListDel(pending_fences, cur)
    /\ tpc' = "loop"
    /\ UNCHANGED <<command, cur, ret, done, stop_sync_thread, signalled>>

-----------------------------------------------------------------------------
\* The GPU passes the next timestamp of a queue.
GpuRetire(q) ==
    /\ done[q] < issued[q]
    /\ done' = [done EXCEPT ![q] = @ + 1]
    /\ UNCHANGED <<command, thread, pending_fences, stop_sync_thread, signalled,
                   retired, told>>

ThreadWait == ThreadWaitPassed \/ ThreadWaitTimeout \/ ThreadWaitError

SyncThread == ThreadLoop \/ ThreadWake \/ ThreadWait \/ ThreadRelock

Done == mpc = "gone" /\ UNCHANGED vars

Next ==
    \/ \E q \in Queues : GemSubmit(q) \/ SubmitqueueClose(q) \/ GpuRetire(q)
    \/ SubmitFenceQueued \/ SubmitFenceNow \/ SubmitFenceFails
    \/ FiniStop \/ FiniJoin
    \/ SyncThread
    \/ Done

Spec == Init /\ [][Next]_vars

\* Both threads run, and a wait that could report the fence as passed does not
\* fail for ever instead (poll on a valid fd fails when it is interrupted);
\* nothing is assumed of the GPU.
FairSpec ==
    /\ Spec
    /\ WF_vars(ThreadLoop \/ ThreadWake \/ ThreadRelock)
    /\ WF_vars(ThreadWaitPassed \/ ThreadWaitTimeout)
    /\ SF_vars(ThreadWaitPassed)
    /\ WF_vars(FiniJoin)

-----------------------------------------------------------------------------
(***************************************************************************)
(* Properties                                                              *)
(***************************************************************************)

\* The fence thread_sync holds a pointer to while the mutex is released is
\* still the first of the list when it comes back to destroy it.
WaitedFenceIsFirst ==
    tpc \in {"wait", "relock"} => pending_fences # <<>> /\ Head(pending_fences) = cur

\* The state is well-formed and thread_sync's pointer is good.
WaitConsistent == TypeOK /\ WaitedFenceIsFirst

\* A fence the sync thread retires is past, with three exceptions the code
\* makes.  In timestamp mode the GPU is done with everything that the fence's
\* queue had submitted when the fence was; in fd mode, where TIMESTAMP_EVENT may
\* have failed for the last submission, with the submission whose fence fd was
\* stashed.  A timeline that is stopping gives up on the one fence it waits for,
\* and in timestamp mode a wait that fails with an error ("any other value to
\* retire (GPU fault/recovery)", drm_fence.h) retires the fence it was for: a
\* chunk that times out and a poll that fails never do.
RetiresPassed ==
    [][(retired' # retired /\ ~stop_sync_thread) =>
           \/ use_wait_timestamp /\ ret = "error"
           \/ (IF use_wait_timestamp THEN cur.issued ELSE cur.ts) <= done[cur.queue]]_vars

TheRing == {1}

Fences == INSTANCE FenceTimeline WITH
    Rings   <- TheRing,
    newest  <- [r \in TheRing |-> queued],
    pending <- [r \in TheRing |-> [i \in DOMAIN pending_fences |-> pending_fences[i].nr]],
    retired <- [r \in TheRing |-> retired]

\* The fences put on a timeline retire in the order of their submission, once.
QueuedInOrder == Fences!Spec

\* If the GPU finishes what it was given (the kernel recovers it from hangs),
\* a fence put on the timeline retires unless the timeline is finished first.
QueuedFenceRetires ==
    []<>(done = issued) =>
        \A n \in 1..MaxFences : (queued >= n) ~> (retired >= n \/ stop_sync_thread)

\* "Chunked timeout keeps drm_timeline_fini responsive": in timestamp mode
\* drm_timeline_fini returns even if the GPU hangs for ever.
FiniReturns == (stop_sync_thread /\ use_wait_timestamp) ~> (mpc = "gone")

\* drm_fence.h: "Fences on a timeline are signaled in FIFO order."
SignaledInFifoOrder ==
    \A i, j \in DOMAIN told : i < j => told[i] < told[j]
=============================================================================
