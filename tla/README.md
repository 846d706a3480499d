# A formal model of virglrenderer

virglrenderer turns the commands a guest's graphics driver puts on a virtio-gpu
device into work for the host's GPU. This directory holds TLA+ models of its
concurrent and stateful parts, TLC configurations that check them on small
instances, and TLAPS proofs of the results that hold for every instance.

Paths below are relative to the repository (`src/venus/...` is the library,
`server/...` the render server).

## 1. Inventory

### 1.1 The core: `src/virglrenderer.c`, `virgl_context.c`, `virgl_resource.c`

State: a table of contexts, a table of resources (a pipe resource, an fd of type
DMABUF, OPAQUE or SHM, an opaque handle owned by a context, or guest iovecs; an
optional mapping), and the set of initialised back ends. Operations: create and
destroy contexts, create, import, attach, detach, map, unmap, export and unref
resources and blobs, submit commands and fences, poll, reset. It forwards to a
context's table of functions. Hard: lifetimes across tables (a resource that
contexts still refer to, a mapping that outlives its resource), asymmetric
operations (map and unmap disagree on which fd types they accept). Correct when a
resource is freed once and after every context let go of it, and every mapping
that was made can be undone.

### 1.2 Fences: `virgl_fence.c`, the per-context fence callbacks

A table from fence id to sync fd, used for exporting fences. At most 64 signalled
fences are retired per call. Correct when the last signalled id is monotonic and
no fd is lost or closed twice.

### 1.3 Venus: `src/venus/`

Vulkan for the guest. `vkr_ring.c` is a command ring in shared memory, drained by
a thread per ring; `vkr_transport.c` and `vkr_context.c` dispatch commands of the
virtqueue on the context's thread, among them those that create, notify, wait for
and destroy rings; `vkr_queue.c` has a thread per queue that waits for VkFences
and retires the guest's fences; `vkr_cs.c` decodes and encodes command streams;
`vkr_context.c` also keeps the tables of objects and resources, a pool of host
shared memory (first fit, coalescing), and a monitor thread that tells drivers
that rings are alive. Hard: the idle protocol between ring thread and driver, two
threads that wait for each other (a ring for a virtqueue seqno, the virtqueue for
a ring seqno), sequence numbers that wrap, teardown while threads run. Correct
when every published command is dispatched once and in order, no wakeup is lost,
every wait returns or turns the context fatal, fences retire in order, and
teardown leaves neither a thread nor an unretired fence.

### 1.4 The in-process venus adapter: `src/venus/vkr_virgl_adapter.c`

Runs venus inside the VMM's process. State: a table of contexts under a mutex,
per-context known resources, one parked guest fd. Hard: fences retire on queue
threads while the main thread destroys the context; the parked fd is handed over
in one call and consumed in another.

### 1.5 The proxy and the render server: `src/proxy/`, `server/`

The proxy context of the VMM talks to a worker process over a socket and shares a
page of timeline sequence numbers with it. State: per-timeline lists of pending
fences, current and next seqno, a busy mask, a free list; the worker stores a
seqno and signals an eventfd. The server process forks workers, reaps them and
kills those it destroys. Hard: a worker that dies with fences pending, a fence
submission that fails half way, seqnos that wrap, replies that never come.
Correct when fences of a timeline retire in order and once, and all of them
eventually do, also when the worker dies.

### 1.6 DRM native contexts: `src/drm/`

`drm_context.c` dispatches requests and publishes responses in a page shared with
the guest; `drm_fence.c` has a thread per timeline that waits for sync fds or
timestamps and retires fences in order. The back end of this fork,
`src/drm/drm2kgsl/drm2kgsl_renderer.c`, implements the msm guest protocol on a
KGSL kernel driver: address-space slices of one shared VBO, an arena of host
memory shared with the guest (first fit, reference counts, coalescing), objects
for guest-allocated buffers, parked guest fds, GPU power constraints counted over
all contexts. `msm`, `amdgpu`, `asahi`, `panfrost` and `i915` are siblings of the
same shape. Hard: two owners of an arena extent, error paths between removing an
object from one table and adding it to another, a slice reused by the next
context, counters shared by contexts. Correct when live extents never overlap and
are freed with their last reference, a slice is clean before it is reused, no
object leaves all tables while it is allocated, and the constraint is on exactly
when some context asked for it.

### 1.7 The OpenGL back end: `vrend_*.c`, `src/gallium`, `src/mesa`

Decodes a Gallium command stream and issues OpenGL. Most of it is a translation of
GL state and shaders. Its synchronisation thread (fences polled from a list under
a mutex) is a small concurrent component.

### 1.8 The test server: `vtest/`

A socket front end used for testing without a VM.

## 2. Plan

In order of importance. Items 1 to 4 are checked, and their safety is proved.

| # | Modules | Composes / implements | Checked | Proved |
|---|---------|-----------------------|---------|--------|
| 1 | `VkrRing` | ring thread, context thread, driver | safety through a seqno wrap; progress | types, the idle protocol, the head, the order of dispatch, ring waits |
| 2 | `FenceTimeline` (abstract); `ProxyTimeline`, `DrmTimeline`, `VkrQueue` | each detailed module implements `FenceTimeline` | invariants, refinement, progress with a dying worker, a hanging GPU, a lost device | the order of the abstract timeline, the three refinements, the busy mask, no early retirement, the wait without the mutex, where syncs are |
| 3 | `KgslArena`, `KgslObjects`, `VkrShmPool` | arena with its owners; objects, slices and VBO; the free list of the venus pool | exactness of the free lists and the counts; isolation and binding | the arena and its counts; isolation, no stale range, live ranges, own pages; the pool |
| 4 | `RenderServer` (proxy, server, workers), `VkrContext` (adapter, resources, rings, monitor, teardown) | `RenderServer` over the workers `ProxyTimeline` lets die; `VkrContext` over the life of the rings `VkrRing` models and the sync threads of `VkrQueue` | tables and processes agree; calls return and processes end whoever dies; threads end before what they use | the safety of both |
| 5 | open: a module of the core's map, unmap and export | over the resources of 3 and 4 | every mapping that was made can be undone | |

Both allocators are held against the gaps between what is in use: `KgslArena` by
its invariant, `VkrShmPool` operation by operation (`Gaps`).

## 3. Modules and the code

A section of the code under one mutex is one step where nobody reads the
protected state without it; an access to memory that threads or processes share
without a lock is a step of its own. A `cnd_wait` is a value of the thread's
program counter, a `cnd_signal` a flag that only a thread at that value consumes.
`X_Something` before an operator `X` is a mutant of it: a plausible mistake in
that code that a property named in `PROJECT.json` is able to see.

### 3.1 VkrRing

`vkr_ring_thread` is split at every shared access: `RingTop`, `RingArm` (clear
`pending_notify`), `RingSetIdle`, `RingCheckTail`, `RingIdleWait`, `RingUnlock`,
`RingLoad` (copy a batch), `RingDispatch`, `RingStoreHead`, `RingSignal`, and the
wait for a virtqueue seqno with its check for invalid waits. The context thread
takes the commands `vkNotifyRingMESA`, `vkSubmitVirtqueueSeqnoMESA`,
`vkWaitRingSeqnoMESA` and the stop of `vkDestroyRingMESA` from the queue `vq`. The
driver is external: it stores the tail, loads the status and notifies if it sees
IDLE. A command occupies one unit of the buffer and is its ordinal; sequence
numbers are taken modulo `M`. Any command, of the ring or of the virtqueue, may
make the context fatal (`RingDispatch`, `MainFail`). Assumed: `cnd_wait` on a valid
condition does not fail. Its failure while the ring idles (`vkr_ring.c:286`) would
leave `ring->mutex` locked, and a later stop would not get it.

### 3.2 FenceTimeline, ProxyTimeline, DrmTimeline, VkrQueue

`FenceTimeline` numbers the fences of a ring and lets them retire in order, be
withdrawn (a submission that fails) or dropped (destruction).

`ProxyTimeline`: `SubmitFence`, `SubmitAdd`, `SubmitSend`, `SubmitRecover` are
`proxy_context_submit_fence`; the sync thread polls, scans the busy rings one by
one under the mutex and writes the mask back; the worker accepts requests, stores
seqnos and writes the eventfd as two steps, and dies at any moment. A stall of
`StallLimit` looks stands for the 100 of the code.

`DrmTimeline`: submissions of several queues stash what the next fence waits for
in `last`; `thread_sync` waits for the first fence without the mutex, in chunks
(timestamps) or for as long as it takes (fds), and `drm_timeline_fini` joins it. A
wait has three outcomes, passed, timed out and failed: a failed wait by timestamp
retires the fence, a failed poll is repeated. A fence has the timestamp stashed
for it and, for the properties, what its queue had submitted when it was made
(`issued`): the two differ when `TIMESTAMP_EVENT` fails in fd mode and an older
stash stays.

`VkrQueue`: the context's thread submits fences (`spc`), another thread destroys the
device (`dpc`), since `vkDestroyDevice` may come from a ring and no lock is held
across either; a thread per queue waits for VkFences. Every step of a submission
uses the queue it took from the table. If the queue is gone by then, or
`vkr_queue_sync_thread_fini` walks its list at that moment, the code's behaviour is
undefined: the model notes it (`UseDestroyed`) and ends there. That this does not
happen is the driver's obligation, not to destroy a device it still submits fences
for; everything before that point is covered, fences submitted between
`vkDeviceWaitIdle` and the end of the queue included. A lost device, a
`vkDeviceWaitIdle` or `WaitForFences` that fails for want of memory and a failing
`QueueSubmit` are actions; `unwaited` records that a wait was left out or failed.
The Vulkan driver is external: fences of a queue signal in order, and the loss of a
device ends what is in flight. One simplification: the test for a free ring and the
binding (`vkr_queue.c:279`) are one step, though no lock joins them; two threads
that bind queues to one ring at the same moment are not modelled.

### 3.3 KgslArena

`free_list` is the sorted list of extents, `allocations` the referenced ranges.
`ArenaAlloc` is first fit with page alignment, `ArenaFree` drops a reference and,
with the last, inserts the extent and merges it with both neighbours. The users of
a range (`Users`) are a context's control buffer (`GetArenaShmemBlob`), and the
objects made by attaching a resource whose mapping lies in the arena. A context is destroyed in
steps: its control buffer, its objects one by one, the end. The code that takes
several runs of extents for one buffer cannot be reached in this tree (`nr_runs`
stays 0) and is left out.

### 3.4 KgslObjects

`blobs` and `objs` are the two tables of `drm_context.c` (by blob id, by resource
id), `vbo` the GPU address space of the process, page by page, `ctx` the slice a
context holds. `get_blob` has one action per exit: refused, wrong size, import
fails, bind fails, success, and the `dup` that fails after the object is already
filed under its resource id. `Import` makes the KGSL memory of an fd's pages.
The VMM parks an fd right before the `get_blob` it is for, and retries or gives up
on that blob before others (`vmm`); it may also ask for a blob it parked nothing for
(`CreateWithoutFd`), which then takes the fd that a refused `get_blob` left, if
there is one (`refused`). Pairing the calls is the VMM's obligation, as the comment
at `drm2kgsl_renderer.c:418` says. Assumed of the environment: `UNBIND`, whose
result the code ignores, succeeds; the guest's
address allocator hands out ranges disjoint from its live buffers
(`GuestVaFree`). `unbind_freed` is the negation of `NCTX_KEEP_FREED_RANGES`, fixed
for the life of the process. `NCTX_RELAX_SLICE`, a diagnostic that turns the slice
check off, is not modelled.

### 3.5 RenderServer

The VMM's thread (`Proxy...`, `Vmm...`), the server process (`Server...`) and a
worker process per context (`Child...`, `Worker...`), in the builds that fork.
`requests` and `replies` are the two directions of the client socket, `input` and
`output` those of a context's socket. A blocking receive is a value of `ppc`. The
server is one thread, so a handler of `render_client_dispatch` is one step, as is
`render_worker_jail_reap_workers`; the child of a fork goes through
`render_client_detach_all_records` and `render_server_fini` in steps of its own,
because until then it holds copies of the server's socket and of `remote_fd`,
which keep both from reading as closed (`ServerOpen`, `RemoteOpen`). A process has
a pid that the system may give to another once it was reaped (`OtherStarts`).
The records and the jail, lists of the code, are sets: a worker is its ordinal and
is listed at the head when it is made, so the first entry a search by pid meets is
the latest (`Found`). What a worker `WillHold` is what it holds once it has read its
socket.
Faults: the VMM, the server or a worker dies, a worker hangs, memory runs out.
A command that a worker has no memory for is dropped without reply, and its rest,
which comes in a second message, is read as a request of any kind: one with a
reply, one without, or none at all, which ends the worker.
Fences are in `ProxyTimeline`; the two share only the worker that may die. Sends to
a peer that lives are taken to succeed, among them the second message of a large
command (`proxy_context.c:287`).

### 3.6 VkrContext and VkrShmPool

The in-process back end. `adapters`, `known` and `table` are the table of
`vkr_virgl_adapter.c`, its `known_res` and the `resource_table` of the
`vkr_context`; `rings` is `ctx->rings`, each with its resource, the stream of its
encoder and whether it is being written (`reply`, `busy`), the stream its decoder
is in (`exec`) and its thread; `monitor` is `ring_monitor`. The VMM's thread is
`cmd`, a call cut where it joins a thread. The context's threads are cut down to what they use of the
context: a ring thread its memory, which it changes when it sets a reply stream or
enters and leaves a nested stream (its commands are in `VkrRing`), the monitor the
list of rings, a sync thread the adapter it calls back (its waits are in
`VkrQueue`). `CreateRing...` has one action per exit of `vkCreateRingMESA`.
Assertions are off, as in the default build (`b_ndebug=if-release`), so a failed
one has the outcome of the code behind it; the join of a thread that was never
made is undefined, so the process may go on or be gone (`Crashed`).
`DestroyResource` is one walk over the rings (`vkr_context.c:590`): a ring that lies
in the resource, decodes from it or is writing to it (`Uses`) is stopped, joined and
freed and the walk goes on; an encoder that is not being written loses the
stream (`Unset`). The walk looks at the rings in one step, so it does not see a
thread enter a stream behind it: `vkr_cs_encoder_check_stream` holds a lock, but a
ring that names the resource after the walk has passed it would find it in the
table until the end. That it does not is the driver's obligation, which destroys a
resource only when no command that names it is left.
Abstracted: where a blob's fd comes from (the hand-over of the parked guest fd is
the contract that `KgslObjects` checks), the decoder and encoder of the context
itself, which are idle between the VMM's calls, the monitor's period, and what is
mapped: a slice of the pool that is attached a second time is mapped by
`import_from_shm` from the start of the pool's fd, which the model, having no
contents, does not show. A ring whose resource is replaced under its id keeps a
pointer to memory of no id (0) and is followed no further.

`VkrShmPool` has `vkr_shm_pool_alloc` and `vkr_shm_pool_free` as operators on the
list of holes, in pages; `PoolExact`, in `MCVkrContext`, which has both modules,
compares them with the gaps between the pages in use, for every set of such pages:
the pool starts as its one gap, and each operation turns the list of the gaps
between the pages in use (`GapLists`) into that of the gaps there are afterwards.
It is a statement about the two operators for all arguments, so it is the same in
every state; the pool is not part of the state of `VkrContext`.

## 4. Runs

| Run | Instance | Shows |
|-----|----------|-------|
| `ring` | buffer of 2, seqnos modulo 4, 4 commands, 1 virtqueue seqno, 1 ring wait, a driver that may overrun | no lost wakeup, dispatch in order and once, an honest head and sound ring waits, through a wrap; published commands are dispatched, waits return, a fatal ring releases its waiter, a stop is joined |
| `ring_invalid_wait` | a wait one past the tail | *violated*, finding 1 |
| `proxy_timeline` | 2 rings, seqnos modulo 6, stall limit 2 | the busy mask covers every pending fence; order; progress though the worker dies; refinement |
| `drm_timeline` | 2 queues, 2 submissions each, 3 fences, both ways of waiting | the fence waited for stays first; no early retirement, though waits time out and fail; progress; `fini` returns |
| `drm_fifo` | 1 queue | *violated*, finding 2 |
| `queue_fences` | 2 queues, 2 rings, 2 syncs, 2 fences a ring, worker-thread build | syncs are never shared nor reset in flight; every accepted fence retires, in order, though the device is lost or destroyed while fences are submitted |
| `queue_idle` | 1 queue, process build | *violated*, finding 3 |
| `kgsl_arena` | 3 contexts, 2 resources, five pages after a guard page, sizes of 1, 4 and 5 bytes with 2-byte pages | ranges disjoint, free list exactly the maximal gaps, counts exact |
| `kgsl_objects` | 2 contexts, 2 resources, 2 page sets, 2 slices of 2 pages, 3 imports | isolation, live buffers bound, no stale range, own pages |
| `kgsl_import` | the same with 2 imports | *violated*, finding 4 |
| `render_server` | 1 context id, 3 workers one after another or at once, 2 slots, 2 pids, 1 resource, 2 messages in a socket | records, jail and processes agree; nobody else is killed; the proxy's table matches the worker's; every reply is awaited; calls return, slots come back and all processes end whoever dies |
| `venus_context` | 1 context, 2 resources, 2 rings, 1 stream at a time, a pool of 8 pages | the free list is exact; tables agree; rings and the streams they decode from and reply to lie in mapped memory; no thread outlives what it uses; a join of no thread only after a failed start; every call returns |

**Bounds.** The ring needs a full buffer, a wrap and a command after it: two units
and four commands modulo four have all three (five, without liveness, were checked
too). The proxy needs two rings because
the recovery of one submission rewrites the mask bit of another, and a modulus
above twice the fences pending because the code compares signed differences. The
arena's five pages allow a gap between two allocations and a merge on both sides,
and a size that is not page-aligned; three contexts allow a maker and two
importers. In `kgsl_objects` a slice holds two pages, so that buffers can be moved
to overlap where another was; both slices can be reused by either context. Only
one context makes buffers there, the other imports: the tables are per context and
a second maker adds no new interaction through the VBO. One context id
is enough in `render_server` for several workers at once, because the record and
the worker of a destroyed context linger until it is reaped, and one is leaked by a
failed set-up; two pids are enough for a pid to be reused. Two ids with two workers
were checked outside the run. In `venus_context` two resources allow a ring in one
with its stream in the other, or both in the same; one stream at a time, of either
ring and either kind, is every way in which a walk meets a stream, and
`RingMemorySafe` is proved for any number. Contexts share only the VMM's thread and the
core's table, and two contexts with one resource were checked outside the run. Two
slices on either side of a third, with a gap beyond, fit in eight pages. The largest
runs are `kgsl_objects` with 4.0 million distinct states, `venus_context` with 1.8
and `queue_fences` with 1.0, each two to four minutes on two cores.

**Symmetry** is used in the two kgsl modules, which check no liveness.

**Deadlock** is not checked for the ring, where all threads rest once the driver
has published its commands, nor for `render_server` and `venus_context`, where the
death of the processes or a crash ends everything. In the other runs a component that was destroyed
either stutters in an explicit final action or can be created again.

**Fairness.** Weak fairness of each thread: a thread that can take its next step
does. The driver is only assumed to load the status after it stored a tail, and
the worker to handle what it received while it lives. In `DrmTimeline` nothing is
assumed of the GPU; `QueuedFenceRetires` is stated for a GPU that progresses and
`FiniReturns` for timestamp mode, where the wait is cut into chunks. A wait that can
report its fence as passed again and again does (strong fairness of
`ThreadWaitPassed`): `poll` on a valid fd fails when a signal interrupts it, and not
for ever. In `VkrQueue`
the GPU finishes its work or the device is lost, which Vulkan promises; neither
thread is made to submit, to destroy or to fail. In
`RenderServer` some process that can go on does (so the result needs no fair
choice between processes), and the server, whose poll returns both its fds, also
reaps; a hung worker and the steps the VMM chooses to take are under no fairness.
In `VkrContext` the call goes on and the monitor, the callback and a ring told to
stop each reach their next step, whatever it was writing or executing: the commands
left in its batch are finitely many. That a ring thread ends is `StopReturns` of
`VkrRing`, that a timed wait ends is what `cnd_timedwait` promises.

## 5. Findings

1. **A ring wait past the tail can hang** (`ring_invalid_wait`).
   `vkWaitRingSeqnoMESA` notifies the ring "to properly error out invalid ring
   wait" (`src/venus/vkr_transport.c:391`) before it registers the wait. The ring
   thread may consume the notification, find nothing to do and sleep; the context
   thread then waits for ever. A valid driver does not see this.
2. **Fences can be signaled out of order** (`drm_fifo`). `drm_fence.h:24` says
   "Fences on a timeline are signaled in FIFO order"; a fence that finds nothing
   stashed is retired at once, before the pending ones.
3. **Queue threads end with work in flight** (`queue_idle`). `vkr_queue.c:117`
   says "vkDeviceWaitIdle has been called"; without `on_worker_thread` nobody
   calls it.
4. **Ranges of imported buffers stay** (`kgsl_import`). The comment at
   `drm2kgsl_renderer.c:425` gives the reason for unbinding guest-allocated
   buffers; a context that imported one does not unbind it.

Observations that the models contain and properties name, without a document to
disagree with:

- `render_client.c:190` returns before the failure reply below it and the server
  goes on; a command a worker has no memory for (`render_context.c:200`) gets no
  reply either, and what is left of it is read as the next request. `CallsReturn`
  exempts both, `AttachedIsHeld` a worker that has read such a rest and not answered
  it. `RepliesAwaited` exempts nothing: if the rest is answered, it is to the
  `submit_cmd` that still waits.
- A proxy context whose set-up fails sends DESTROY with its id still 0
  (`proxy_context.c:677`): the record, the worker's slot and the process stay until
  reset. A blob whose fd the proxy refuses (`proxy_context.c:394`) stays in the
  worker, and importing another resource of that id ends the worker.
- A ring is listed before its thread exists, and `ring_monitor.started` stays set
  when the monitor's thread cannot be made; destruction joins what is not there
  (`CrashOnlyAfterFailure` shows that nothing else leads to such a join).
- `create_blob` that fails in the core after `get_blob` leaves the entry in the
  context; the next resource of that id replaces or reuses it.
- A wait by timestamp that fails retires its fence, which `drm_fence.h` asks for
  ("any other value to retire"); `RetiresPassed` names it, and the fence given up at
  shutdown, as the only exceptions. In fd mode it speaks of the submission whose fd
  was stashed: after a `TIMESTAMP_EVENT` that failed a fence stands for an older
  submission than the guest's last.
- `vkr_adapter_destroy` leaves the table before the sync threads end: fences that
  retire during teardown are dropped.

Seen while reading and not modelled: the comment at `vkr_transport.c:235` says the
monitor is woken to report at the faster rate, but after a signal the loop waits
again for the old time; a pool slice goes back to the free list with the context
while the core resource still has a pointer into it; `virgl_renderer_resource_map`
accepts SHM resources and unmap asserts that it did not.

## 6. Proofs

Each module of proofs extends the module it is about; the assumptions are the
`ASSUME`s there, which every run evaluates.

- `VkrRing_proofs`. `TypeCorrect`: `TypeOK` needs that the ring thread has commands
  left in its batch wherever it takes one (`BatchLeft`). `IdleProtocol`:
  `NoLostWakeup` for every `M`, buffer size, driver bound and kind of driver. It is
  inductive only together with `IdleAdvertised` (IDLE is set from before the last
  look at the tail until the thread wakes, so a driver that moves the tail later
  sees it) and `WakeupSignalled` (a sleeping thread with a pending notification
  has been signalled). `HeadNeverAhead` and `DispatchesInOrder` follow from
  `OffsetInv`, which ties the wrapped offsets to counts that do not wrap: `cur` is
  what was copied, `tail` what was published, the head lags behind what was
  dispatched by at most the store that is due, and the slots not copied yet hold
  the commands published unless the driver overran the buffer. `WaitRingIsSound`
  adds that no wait is further ahead than the driver could ask for, and assumes
  `BufSize + WaitBeyond <= M \div 2`: the code compares signed differences, and TLC
  finds a wait that returns too early with `M = 6`, `BufSize = 3`,
  `WaitBeyond = 1`. For a driver that never waits past its tail the assumption
  follows from the sizes the code accepts (`ValidDriver`).
- `ProxyTimeline_proofs`. First the abstract timeline: `PendingInOrder` and
  `RetirementInOrder`, for any set of rings, from what appending, retiring a prefix
  and withdrawing the last do to one ring. `MaskCoversPending` (`BusyConsistent`):
  the submitter saves the mask, releases the mutex and may write the saved mask
  back, so the invariant says what that mask still covers (`MaskKept`: everything
  but the fence in flight), that this fence is the newest of its ring (`InFlight`)
  and that a scan works on rings of the mask only (`ScanInMask`). With these every step is one of `FenceTimeline` or a stutter
  (`ProxyImplementsTimeline`), and its promise holds of the detailed module
  (`ProxyRetiresInOrder`). `OnlyFinishedFencesRetire` (`RetiresSignaled`): for each
  ring there is a last fence the worker has finished, its seqno is the one in shared
  memory, and what is accepted, in the socket or being sent comes after it in order
  (`FinishedUpTo`); since the list has every fence from the one retired last on
  (`Contiguous`) and at most `MaxPending <= INT_MAX` of them, the signed comparison
  of wrapped seqnos is the comparison of the fences.
- `DrmTimeline_proofs`. `WaitStaysConsistent` (`WaitConsistent`): nobody but the
  sync thread takes a fence off the list, so the one it waits for without the mutex
  is still first. `RetiresOnlyPassed` (`RetiresPassed`) needs what a wait that
  succeeded learned and that it stays true (`Passed`), and, in timestamp mode, that
  what is stashed is the last submission of its queue (`Stamped`), so that a fence
  stands for all its queue had submitted. The two ways in which the code retires a
  fence that is not past are in the property.
  `TimelineInOrder` (`QueuedInOrder`), the refinement of `FenceTimeline`, needs that
  the pending fences are the last ones numbered (`Numbered`). The fences that never
  reach the list, finding 2, are outside its mapping.
- `VkrQueue_proofs`. `RingsStayBound`, `SyncsStayInOnePlace` and
  `QueueImplementsTimeline`, the last for both builds and whatever the driver does,
  from `Tables`: the table of rings and the queues' own indices agree (`RingTable`),
  a sync in the dispatcher's hand has the next number of its ring (`Submission`),
  a sync thread works on the first of its list (`Lists`), and a sync is on the free
  list, on one queue's list or in hand (`SyncInOnePlace`). `SyncsNotRecycledInUse`
  (`SyncsConsistent`) adds `DriverInv` (what is in flight is listed or about to be,
  once and not signaled) and `WaitInv` (what a sync thread retires is not in flight),
  which hold as long as `unwaited` does not: a build that does not wait for the
  device, finding 3, a wait that failed, or a submission the wait did not see puts a
  sync in flight on the free list, and the theorem says that nothing else does.
- `KgslArena_proofs`. `FreeListStaysExact` (`ArenaConsistent`) and `RefsStayExact`
  (`RefsCountHolders`), for any arena, guard, page size, sizes and number of users.
  Their conjunction is inductive. `SpliceIs` says what replacing a stretch of a list
  does, `AllocGaps` and `InsertGaps` that carving and the insertion that merges
  keep a list of separated extents and change the bytes on it by exactly the range,
  `AlignIs` that an aligned size stays as it is, which is why a range is found
  again by its size. Counts of users are cardinalities, by the library's theorems
  on finite sets.
- `KgslObjects_proofs`. `TypeCorrect` needs `ObjectsOwned`: an object is filed in
  the table of the context that imported it, and only a context that holds a slice
  has objects. `Isolation` (`SlicesIsolated`) adds that every range lies in its
  context's slice: `kgsl_iova_in_slice` is what binding checks, and destruction
  clears exactly the slice. `NoStaleRanges` (`NoStaleOwnRange`) rests on it: the
  unbind of a freed buffer covers only the slice, which is enough because no range
  of the buffer is elsewhere. `BackedByOwnPages` (`CompletedFromOwnPages`): in the
  middle of a creation the parked fd is the one the VMM has just passed, whatever an
  earlier failure left behind, and an fd that is parked outside of one was left by a
  `get_blob` that was refused (`ParkedIsOfBlob`).
  `LiveRangesStayBound` (`LiveRangesBound`) needs `LiveInv`: imports have ids of
  their own, so an unbind spares other objects (`MemsDistinct`); a buffer the guest
  knows has a resource (`KnownHasResource`), so its id is not reused; and ranges of
  buffers and of blobs yet to be bound are apart (`RangesApart`), so that binding
  one does not cover another.
- `RenderServer_proofs`. For any number of contexts, workers, slots, pids and
  resources. `JailStaysConsistent` and `KillsStayOwn` rest on `JailInv`: besides the
  property, what is reaped or destroyed is in the jail and never both (`Lists`),
  workers are made in order (`Numbered`), and children have pids of their own
  (`PidsApart`). The jail may hold a reaped worker whose pid the system has given
  to a later one; the invariant says that the living one is the later, which is why
  the search by pid finds the right worker and a kill by pid hits no other. The
  bound on slots is a count of a set that grows by one worker, and only when there
  was room (`JailShrinks`). `AttachedStaysHeld` and `RepliesStayAwaited` rest on
  `TalkInv`: a worker's socket belongs to one context or to the reply that carries
  it (`SocketsApart`); a worker that is gone reads nothing, and one whose fd is
  under way was sent nothing (`Silent`); and the messages between a context and its
  worker are a `Conversation`: posts without an answer, then at most one request,
  the one the thread waits on, its one answer, or the rest of a command that got none
  (`Talk`), while every attached resource is held or will be, once those are read
  (`Attached`). Neither half is
  inductive alone: that an answer to a blob is about a held resource is what the
  attach after it needs.
- `VkrContext_proofs`. All the safety properties of `VkrContext`, for any number of
  contexts, resources and rings. `ThreadsSafe` and `CrashesExplained` follow from
  `LifeInv`, which adds to the types where a call is and what that says of its
  context (`Stages`: listed, being torn down or freed), that the ring a call joins
  is in the list (`Joining`), that `started` tells whether there is a monitor to
  join (`MonitorKnown`), that a sync thread is gone before the tables are
  (`SyncKnown`), and that rings go before resources (`Emptied`). None of these is
  inductive alone: that a freed context has no monitor needs the stage of the call
  that frees it. `TablesSafe` and `RingMemorySafe` rest on it: a new context knows
  nothing because what was freed is empty, and the table may go entry by entry
  because no rings are left. The one measure of a ring is what it has pointers to
  (`InUse`): taking streams away, stopping and replacing a resource only make it
  smaller (`Loosened`), a ring thread adds what it found as shared memory in the table
  (`RingMoves`), and after a walk in which no ring `Uses` the resource it is in no
  ring (`UnsetEffect`). The actions are grouped by what they do to this state
  (`StepKinds`), and each group has its lemma. What list operations do to the rings
  of a context is stated once, before them. `PoolStaysExact` (`PoolExact`) is about
  the operators of `VkrShmPool`, for a pool of any size. `GapListCovers` and
  `CoversGapList` show that the lists of gaps are the lists of separated holes that
  cover what nobody uses; `CarveApart` and `ReturnApart` are about those. That the
  first fit exists and is the lowest place follows from the maximality of the holes
  (`FitsInHole`), that a freed slice is merged exactly when a page beside it is
  unused from `Beside`.

Type correctness is proved in every module, as a theorem of its own or as a
conjunct of the invariant a theorem is about. `WakeupSignalled` is part of the proof
of `NoLostWakeup` and not a property of a run.

Only model-checked: every liveness property, since neither fairness nor `ENABLED`
is within the prover's reach: `PublishedIsDispatched`, `WaitRingReturns` and
`StopReturns` of the ring; `PendingFencesRetire`, `QueuedFenceRetires`,
`AcceptedFencesRetire`, `FiniReturns` and `DestroyReturns` of the timelines;
`CallsReturn`, `SlotsReturn` and `WorkersEnd` of the server, and `CallsReturn` of a
venus context. Every invariant and every action property of a passing run is
proved.

## 7. Not modelled

- What commands compute: the Vulkan, Gallium and GL translations, shaders,
  formats, the contents of command streams. Their handlers are sequential and
  forward to a driver.
- Kernel and driver internals: KGSL, dma-buf, VkQueue are external and have the
  outcomes the code distinguishes.
- Memory allocation failures, except where a handler's exit is an action.
- Weak memory: shared accesses are sequentially consistent. The proxy's seqnos and
  the ring's status are seq_cst atomics; head and tail are acquire and release, and
  the look at the tail follows a seq_cst read-modify-write of the status.
  `pending_notify` and `started` are plain booleans; every interleaving of their
  accesses is explored, compiler reordering is not.
- The core's map, unmap and export, the fence table, the response sequence of
  `drm_context.c`, the sibling DRM back ends, video and vtest; the decoding and
  encoding of `vkr_cs.c`; worker threads in place of worker processes.
- Most of the lines of the repository are generated (the venus protocol headers),
  imported (mesa, gallium) or the OpenGL translation. They have no state machine of
  their own, so the models cover a small share of the lines and most of the code in
  which threads and processes meet.
