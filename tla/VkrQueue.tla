------------------------------ MODULE VkrQueue ------------------------------
(***************************************************************************)
(* The queues of a Venus device and their fences: src/venus/vkr_queue.c,   *)
(* vkr_context_submit_fence and the destruction of the device.             *)
(*                                                                         *)
(* The context's thread submits fences.  A dispatching thread, which may   *)
(* be a ring's, binds queues to rings and destroys the device: no lock     *)
(* keeps a submission and the destruction apart, so they interleave.       *)
(* Every queue has a sync thread that waits for its fences and retires     *)
(* them.  A vkr_queue_sync is recycled with its VkFence through the        *)
(* device's free_syncs.  A section under a mutex is one step.              *)
(*                                                                         *)
(* A submission that uses its queue once it is destroyed is undefined      *)
(* behaviour: the model stops there, and says nothing of what follows.     *)
(***************************************************************************)
EXTENDS Integers, Sequences

CONSTANTS
    Rings,             \* the ring_idx values above 0
    Queues,            \* the queues of the device
    on_worker_thread,  \* the build's ENABLE_RENDER_SERVER_WORKER_THREAD
    MaxSyncs,          \* bound on the syncs allocated
    MaxFences          \* bound on the fences submitted to a ring

None == <<>>

ASSUME QueueConstants ==
    /\ Rings \subseteq Nat \ {0} /\ None \notin Queues
    /\ on_worker_thread \in BOOLEAN
    /\ MaxSyncs \in Nat /\ MaxFences \in Nat

VARIABLES
    \* the context and the device
    sync_queues, ring_idx, free_syncs, allocated,
    \* struct vkr_queue, per queue
    syncs, join, signalled,
    \* the sync threads
    tpc, cur, timeout,
    \* the context's thread, in vkr_context_submit_fence
    spc, squeue, ssync,
    \* the thread in vkr_device_destroy, and the queues it has left
    dpc, dqueue, todo,
    \* the Vulkan driver: fences in flight per queue, signaled fences
    in_flight, signaled, lost,
    \* what the client was told
    newest, retired,
    \* history: a fence was submitted to a device that is being destroyed, or a
    \* wait for the device or for a fence was left out or failed
    unwaited

context == <<sync_queues, ring_idx, allocated>>
queue   == <<syncs, join, signalled>>
thread  == <<tpc, cur, timeout>>
submit  == <<spc, squeue, ssync>>
disp    == <<dpc, dqueue, todo>>
driver  == <<in_flight, signaled, lost>>
client  == <<newest, retired>>
vars    == <<context, free_syncs, queue, thread, submit, disp, driver, client, unwaited>>

Syncs == 1..MaxSyncs

\* A vkr_queue_sync on a list: its fence number on its ring and device_lost
Entry == [sync : Syncs, fence : 1..MaxFences, lost : BOOLEAN]

TypeOK ==
    /\ sync_queues \in [Rings -> Queues \cup {None}]
    /\ ring_idx \in [Queues -> Rings \cup {0}]
    /\ free_syncs \in Seq(Syncs) /\ allocated \in 0..MaxSyncs
    /\ syncs \in [Queues -> Seq(Entry)]
    /\ join \in [Queues -> BOOLEAN] /\ signalled \in [Queues -> BOOLEAN]
    /\ tpc \in [Queues -> {"loop", "cond", "wait", "relock", "exit"}]
    /\ cur \in [Queues -> Entry \cup {None}]
    /\ timeout \in [Queues -> BOOLEAN]
    /\ spc \in {"idle", "alloc", "submit", "append", "undefined"}
    /\ squeue \in Queues \cup {None} /\ ssync \in Entry \cup {None}
    /\ dpc \in {"idle", "waitidle", "fini", "join", "left", "gone"}
    /\ dqueue \in Queues \cup {None}
    /\ todo \subseteq Queues
    /\ in_flight \in [Queues -> Seq(Syncs)] /\ signaled \subseteq Syncs
    /\ lost \in BOOLEAN
    /\ newest \in [Rings -> 0..MaxFences] /\ retired \in [Rings -> 0..MaxFences]
    /\ unwaited \in BOOLEAN

\* vkr_queue_create for every queue of the device
Init ==
    /\ sync_queues = [r \in Rings |-> None]
    /\ ring_idx = [q \in Queues |-> 0]
    /\ free_syncs = <<>> /\ allocated = 0
    /\ syncs = [q \in Queues |-> <<>>]
    /\ join = [q \in Queues |-> FALSE] /\ signalled = [q \in Queues |-> FALSE]
    /\ tpc = [q \in Queues |-> "loop"] /\ cur = [q \in Queues |-> None]
    /\ timeout = [q \in Queues |-> FALSE]
    /\ spc = "idle" /\ squeue = None /\ ssync = None
    /\ dpc = "idle" /\ dqueue = None /\ todo = Queues
    /\ in_flight = [q \in Queues |-> <<>>] /\ signaled = {} /\ lost = FALSE
    /\ newest = [r \in Rings |-> 0] /\ retired = [r \in Rings |-> 0]
    /\ unwaited = FALSE

\* cnd_signal on a queue's condition: lost when its thread does not wait.
CndSignal(q) == signalled' = [signalled EXCEPT ![q] = @ \/ tpc[q] = "cond"]

-----------------------------------------------------------------------------
(***************************************************************************)
(* vkGetDeviceQueue2                                                       *)
(***************************************************************************)
\* Mutant: a ring that is taken is given away again.
RingFree_Unchecked(r) == TRUE

\* "sync_queue is already bound to ring_idx"
RingFree(r) == sync_queues[r] = None

\* A queue is initialized once, on a ring of its own (anything else makes the
\* context fatal and leaves the tables alone).
GetDeviceQueue2(q, r) ==
    /\ dpc = "idle" /\ ring_idx[q] = 0 /\ RingFree(r)
    /\ ring_idx' = [ring_idx EXCEPT ![q] = r]
    /\ sync_queues' = [sync_queues EXCEPT ![r] = q]
    /\ UNCHANGED <<allocated, free_syncs, queue, thread, submit, disp, driver, client, unwaited>>

-----------------------------------------------------------------------------
(***************************************************************************)
(* vkr_context_submit_fence, on the context's thread                       *)
(***************************************************************************)
\* The ring has a queue: vkr_queue_sync_submit.
SubmitFence(r) ==
    /\ spc = "idle" /\ sync_queues[r] # None /\ newest[r] < MaxFences
    /\ squeue' = sync_queues[r]
    /\ spc' = "alloc"
    /\ UNCHANGED <<context, free_syncs, queue, thread, ssync, disp, driver, client, unwaited>>

\* Every step of the submission uses the queue, which is still there; the last
\* one uses its list, which vkr_queue_sync_thread_fini walks without a lock.
QueueThere ==
    /\ squeue \in todo
    /\ ~(spc = "append" /\ dpc = "left" /\ dqueue = squeue)

\* vkr_device_alloc_queue_sync: recycle the first free sync or make one.
AllocSync(s) ==
    \/ /\ free_syncs = <<>> /\ allocated < MaxSyncs
       /\ s = allocated + 1
       /\ allocated' = s
       /\ UNCHANGED free_syncs
    \/ /\ free_syncs # <<>>
       /\ s = Head(free_syncs)
       /\ free_syncs' = Tail(free_syncs)
       /\ UNCHANGED allocated

SubmitAlloc ==
    /\ spc = "alloc" /\ QueueThere
    /\ \E s \in Syncs :
         /\ AllocSync(s)
         /\ ssync' = [sync |-> s, fence |-> newest[ring_idx[squeue]] + 1, lost |-> FALSE]
         /\ signaled' = signaled \ {s}
    /\ spc' = "submit"
    /\ UNCHANGED <<sync_queues, ring_idx, queue, thread, squeue, disp, in_flight, lost,
                   client, unwaited>>

\* No sync is free and none can be made: the submission is reported as failed.
SubmitAllocFails ==
    /\ spc = "alloc" /\ QueueThere /\ free_syncs = <<>>
    /\ spc' = "idle" /\ squeue' = None
    /\ UNCHANGED <<context, free_syncs, queue, thread, ssync, disp, driver, client, unwaited>>

\* QueueSubmit: the fence goes in flight, unless the device is lost.
SubmitQueue ==
    /\ spc = "submit" /\ QueueThere
    /\ ssync' = [ssync EXCEPT !.lost = lost]
    /\ in_flight' = IF lost THEN in_flight
                    ELSE [in_flight EXCEPT ![squeue] = Append(@, ssync.sync)]
    /\ unwaited' = (unwaited \/ (~lost /\ dpc \notin {"idle", "waitidle"}))
    /\ spc' = "append"
    /\ UNCHANGED <<context, free_syncs, queue, thread, squeue, disp, signaled, lost, client>>

\* vkr_device_free_queue_sync
FreeSync(s) == free_syncs' = Append(free_syncs, s)

\* QueueSubmit fails for a lack of memory: the sync goes back, the submission
\* is reported as failed.
SubmitQueueFails ==
    /\ spc = "submit" /\ QueueThere /\ ~lost
    /\ FreeSync(ssync.sync)
    /\ spc' = "idle" /\ squeue' = None /\ ssync' = None
    /\ UNCHANGED <<context, queue, thread, disp, driver, client, unwaited>>

\* Mutant: list_add for list_addtail.
SubmitAppend_AtHead ==
    /\ spc = "append" /\ QueueThere
    /\ syncs' = [syncs EXCEPT ![squeue] = <<ssync>> \o @]
    /\ newest' = [newest EXCEPT ![ring_idx[squeue]] = @ + 1]
    /\ CndSignal(squeue)
    /\ spc' = "idle" /\ squeue' = None /\ ssync' = None
    /\ UNCHANGED <<context, free_syncs, join, thread, disp, driver, retired, unwaited>>

\* The sync goes on the queue's list: the fence is accepted.
SubmitAppend ==
    /\ spc = "append" /\ QueueThere
    /\ syncs' = [syncs EXCEPT ![squeue] = Append(@, ssync)]
    /\ newest' = [newest EXCEPT ![ring_idx[squeue]] = @ + 1]
    /\ CndSignal(squeue)
    /\ spc' = "idle" /\ squeue' = None /\ ssync' = None
    /\ UNCHANGED <<context, free_syncs, join, thread, disp, driver, retired, unwaited>>

\* The queue was destroyed, or is being walked, under the submission.
UseDestroyed ==
    /\ spc \in {"alloc", "submit", "append"} /\ ~QueueThere
    /\ spc' = "undefined"
    /\ UNCHANGED <<context, free_syncs, queue, thread, squeue, ssync, disp, driver, client,
                   unwaited>>

-----------------------------------------------------------------------------
(***************************************************************************)
(* vkr_device_destroy                                                      *)
(***************************************************************************)
\* vkDeviceWaitIdle on a worker thread only
DestroyDevice ==
    /\ dpc = "idle"
    /\ dpc' = IF on_worker_thread THEN "waitidle" ELSE "fini"
    /\ unwaited' = (unwaited \/ ~on_worker_thread)
    /\ UNCHANGED <<context, free_syncs, queue, thread, submit, dqueue, todo, driver, client>>

DeviceIdle == lost \/ \A q \in Queues : in_flight[q] = <<>>

DeviceWaitIdle ==
    /\ dpc = "waitidle" /\ DeviceIdle
    /\ dpc' = "fini"
    /\ UNCHANGED <<context, free_syncs, queue, thread, submit, dqueue, todo, driver, client,
                   unwaited>>

\* vkDeviceWaitIdle fails for a lack of memory: the error is logged.
DeviceWaitIdleFails ==
    /\ dpc = "waitidle"
    /\ dpc' = "fini"
    /\ unwaited' = TRUE
    /\ UNCHANGED <<context, free_syncs, queue, thread, submit, dqueue, todo, driver, client>>

\* vkr_queue_sync_thread_fini of the next queue
ThreadFini(q) ==
    /\ dpc = "fini" /\ q \in todo
    /\ join' = [join EXCEPT ![q] = TRUE]
    /\ CndSignal(q)
    /\ dqueue' = q
    /\ dpc' = "join"
    /\ UNCHANGED <<context, free_syncs, syncs, thread, submit, todo, driver, client, unwaited>>

\* thrd_join returns.
ThreadJoined ==
    /\ dpc = "join" /\ tpc[dqueue] = "exit"
    /\ dpc' = "left"
    /\ UNCHANGED <<context, free_syncs, queue, thread, submit, dqueue, todo, driver, client,
                   unwaited>>

\* The syncs and the fences of the entries of a list
SyncsOf(list) == [i \in 1..Len(list) |-> list[i].sync]
FencesOf(list) == [i \in 1..Len(list) |-> list[i].fence]

\* What is left on the list when the thread is gone retires.
RetireLeft(q) ==
    /\ retired' = IF syncs[q] = <<>> THEN retired
                  ELSE [retired EXCEPT ![ring_idx[q]] = syncs[q][Len(syncs[q])].fence]
    /\ free_syncs' = free_syncs \o SyncsOf(syncs[q])
    /\ syncs' = [syncs EXCEPT ![q] = <<>>]

\* The rest of vkr_queue_destroy
QueueDestroy ==
    /\ dpc = "left"
    /\ RetireLeft(dqueue)
    /\ sync_queues' = IF ring_idx[dqueue] = 0 THEN sync_queues
                      ELSE [sync_queues EXCEPT ![ring_idx[dqueue]] = None]
    /\ todo' = todo \ {dqueue}
    /\ dqueue' = None
    /\ dpc' = IF todo' = {} THEN "gone" ELSE "fini"
    /\ UNCHANGED <<ring_idx, allocated, join, signalled, thread, submit, driver, newest,
                   unwaited>>

-----------------------------------------------------------------------------
(***************************************************************************)
(* vkr_queue_thread                                                        *)
(***************************************************************************)
ThreadLoop(q) ==
    /\ tpc[q] = "loop"
    /\ \/ /\ join[q]
          /\ tpc' = [tpc EXCEPT ![q] = "exit"] /\ UNCHANGED cur
       \/ /\ ~join[q] /\ syncs[q] = <<>>
          /\ tpc' = [tpc EXCEPT ![q] = "cond"] /\ UNCHANGED cur
       \/ /\ ~join[q] /\ syncs[q] # <<>>
          /\ tpc' = [tpc EXCEPT ![q] = "wait"]
          /\ cur' = [cur EXCEPT ![q] = Head(syncs[q])]
    /\ UNCHANGED <<context, free_syncs, queue, timeout, submit, disp, driver, client,
                   unwaited>>

ThreadWake(q) ==
    /\ tpc[q] = "cond" /\ signalled[q]
    /\ signalled' = [signalled EXCEPT ![q] = FALSE]
    /\ tpc' = [tpc EXCEPT ![q] = "loop"]
    /\ UNCHANGED <<context, free_syncs, syncs, join, cur, timeout, submit, disp, driver, client,
                   unwaited>>

\* Mutant: device_lost is ignored, and WaitForFences waits for a fence that
\* was never submitted.
WaitOver_IgnoresLost(q) == cur[q].sync \in signaled

\* device_lost, or WaitForFences returns VK_SUCCESS or VK_ERROR_DEVICE_LOST
WaitOver(q) == cur[q].lost \/ lost \/ cur[q].sync \in signaled

ThreadWait(q) ==
    /\ tpc[q] = "wait"
    /\ timeout' = [timeout EXCEPT ![q] = ~WaitOver(q)]
    /\ tpc' = [tpc EXCEPT ![q] = "relock"]
    /\ UNCHANGED <<context, free_syncs, queue, cur, submit, disp, driver, client, unwaited>>

\* WaitForFences fails for a lack of memory: nothing tells it from success.
ThreadWaitFails(q) ==
    /\ tpc[q] = "wait" /\ ~WaitOver(q)
    /\ timeout' = [timeout EXCEPT ![q] = FALSE]
    /\ tpc' = [tpc EXCEPT ![q] = "relock"]
    /\ unwaited' = TRUE
    /\ UNCHANGED <<context, free_syncs, queue, cur, submit, disp, driver, client>>

\* Mutant: a timeout counts as signaled.
MustReWait_Never(q) == FALSE

MustReWait(q) == timeout[q]

\* list_del of the thread's sync from its queue's list
ListDel(list, e) ==
    IF \E i \in DOMAIN list : list[i] = e
    THEN LET k == CHOOSE i \in DOMAIN list : list[i] = e
         IN  SubSeq(list, 1, k - 1) \o SubSeq(list, k + 1, Len(list))
    ELSE list

ThreadRelock(q) ==
    /\ tpc[q] = "relock"
    /\ IF MustReWait(q)
         THEN UNCHANGED <<syncs, retired, free_syncs>>
         ELSE /\ syncs' = [syncs EXCEPT ![q] = ListDel(@, cur[q])]
              /\ retired' = [retired EXCEPT ![ring_idx[q]] = cur[q].fence]
              /\ FreeSync(cur[q].sync)
    /\ tpc' = [tpc EXCEPT ![q] = "loop"]
    /\ cur' = [cur EXCEPT ![q] = None] /\ timeout' = [timeout EXCEPT ![q] = FALSE]
    /\ UNCHANGED <<context, join, signalled, submit, disp, driver, newest, unwaited>>

-----------------------------------------------------------------------------
(***************************************************************************)
(* The Vulkan driver                                                       *)
(***************************************************************************)
GpuSignal(q) ==
    /\ in_flight[q] # <<>> /\ ~lost
    /\ signaled' = signaled \cup {Head(in_flight[q])}
    /\ in_flight' = [in_flight EXCEPT ![q] = Tail(@)]
    /\ UNCHANGED <<context, free_syncs, queue, thread, submit, disp, lost, client, unwaited>>

DeviceLost ==
    /\ ~lost
    /\ lost' = TRUE
    /\ in_flight' = [q \in Queues |-> <<>>]
    /\ UNCHANGED <<context, free_syncs, queue, thread, submit, disp, signaled, client, unwaited>>

-----------------------------------------------------------------------------
SyncThread(q) == ThreadLoop(q) \/ ThreadWake(q) \/ ThreadWait(q) \/ ThreadRelock(q)

Submit ==
    \/ SubmitAlloc \/ SubmitAllocFails
    \/ SubmitQueue \/ SubmitQueueFails
    \/ SubmitAppend \/ UseDestroyed

Destroy == DeviceWaitIdle \/ (\E q \in Queues : ThreadFini(q)) \/ ThreadJoined \/ QueueDestroy

\* Nothing undefined has happened.
Defined == spc # "undefined"

Done == (Defined => dpc = "gone" /\ spc = "idle") /\ UNCHANGED vars

Next ==
    \/ /\ Defined
       /\ \/ \E q \in Queues, r \in Rings : GetDeviceQueue2(q, r)
          \/ \E r \in Rings : SubmitFence(r)
          \/ Submit
          \/ DestroyDevice \/ DeviceWaitIdleFails
          \/ Destroy
          \/ \E q \in Queues : SyncThread(q) \/ ThreadWaitFails(q) \/ GpuSignal(q)
          \/ DeviceLost
    \/ Done

Spec == Init /\ [][Next]_vars

\* The threads run, and the GPU finishes its work or the device is lost.
FairSpec ==
    /\ Spec
    /\ WF_vars(Defined /\ Destroy)
    /\ \A q \in Queues : WF_vars(Defined /\ SyncThread(q)) /\ WF_vars(Defined /\ GpuSignal(q))

-----------------------------------------------------------------------------
(***************************************************************************)
(* Properties                                                              *)
(***************************************************************************)

\* What occurs on a list, and that nothing occurs on it twice
Elems(list) == {list[i] : i \in DOMAIN list}
Distinct(list) == \A i, j \in DOMAIN list : list[i] = list[j] => i = j

\* The syncs that are free, on the list of a queue, being submitted by the
\* context's thread, in flight on a queue
Free == Elems(free_syncs)
Listed(q) == Elems(SyncsOf(syncs[q]))
AllListed == UNION {Listed(q) : q \in Queues}
InHand == IF ssync = None THEN {} ELSE {ssync.sync}
InFlight(q) == Elems(in_flight[q])

\* A sync, with its VkFence, is in one place at a time, however it is recycled,
\* and none is lost.
SyncInOnePlace ==
    /\ Distinct(free_syncs)
    /\ \A q \in Queues : Distinct(SyncsOf(syncs[q]))
    /\ \A q, p \in Queues : q # p => Listed(q) \cap Listed(p) = {}
    /\ \A q \in Queues : Listed(q) \cap (Free \cup InHand) = {}
    /\ Free \cap InHand = {}
    /\ Free \cup InHand \cup AllListed = 1..allocated

\* A sync that may be recycled (ResetFences) or destroyed (DestroyFence) is
\* not in flight on a queue, as long as the waits for the device and the fences
\* were made, succeeded and saw the submissions.
FreeSyncsIdle == ~unwaited => \A q \in Queues : Free \cap InFlight(q) = {}

\* The state is well-formed, and syncs are neither shared nor recycled in use
\* (vkr_device_alloc_queue_sync, vkr_device_free_queue_sync).
SyncsConsistent == TypeOK /\ SyncInOnePlace /\ FreeSyncsIdle

\* A ring and its queue name each other until the queue is destroyed.
RingsBound ==
    \A q \in todo : ring_idx[q] # 0 => sync_queues[ring_idx[q]] = q

\* The fences of the rings that are on their queues' lists
pending == [r \in Rings |-> IF sync_queues[r] = None THEN <<>>
                            ELSE FencesOf(syncs[sync_queues[r]])]

Fences == INSTANCE FenceTimeline

\* "retires signaled fences in order" (vkr_queue.h): the queues implement
\* fences that retire in submission order, once.
ImplementsFenceTimeline == Fences!Spec

\* Accepted fences retire, also when the device is lost or is destroyed while
\* they are submitted, up to a use of a destroyed queue (their number is
\* bounded, so each one retires if a ring catches up again and again).
AcceptedFencesRetire == \A r \in Rings : []<>(retired[r] = newest[r] \/ ~Defined)

\* Comment in vkr_queue_sync_thread_fini: "vkDeviceWaitIdle has been called".
IdleAtThreadFini == dpc \in {"fini", "join", "left"} => DeviceIdle
=============================================================================
