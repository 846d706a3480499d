------------------------------- MODULE VkrRing -------------------------------
(***************************************************************************)
(* One venus ring (src/venus/vkr_ring.c): the ring thread that drains the  *)
(* command buffer a guest driver fills, the context thread that dispatches *)
(* virtqueue commands about the ring (src/venus/vkr_transport.c), and the  *)
(* driver itself, which is not in the repository and is modelled from what *)
(* the ring expects of it.                                                 *)
(*                                                                         *)
(* Every access to memory that two of the three share is a step of its     *)
(* own: the head, the tail, the status bits, started and pending_notify.   *)
(* A section under ring->mutex or wait_ring.mutex is one step, except      *)
(* where it touches memory the driver reads without the mutex ("unlock").  *)
(* cnd_wait is a program counter value, cnd_signal sets a flag that only a *)
(* thread at that value consumes.  A spurious wakeup re-evaluates a        *)
(* condition that only changes together with a signal, so it is a          *)
(* stuttering step.  cnd_wait on a valid condition does not fail.          *)
(*                                                                         *)
(* A command occupies one unit of the buffer.  Sequence numbers are the    *)
(* free-running uint32_t offsets of the code, taken modulo M.              *)
(***************************************************************************)
EXTENDS Integers, Sequences

CONSTANTS
    M,           \* 2^32 in the code: the modulus of head, tail, cur and seqnos
    BufSize,     \* ring->buffer.size
    MaxCmds,     \* bound on the commands the driver publishes
    MaxVq,       \* bound on the virtqueue seqnos the driver submits
    MaxWaits,    \* bound on the vkWaitRingSeqnoMESA commands
    WaitBeyond,  \* how far past the tail a ring wait may ask (0: a valid driver)
    Overrun      \* TRUE: the driver may store a tail further than the buffer

\* vkr_ring_layout_init: a power of two of at most 2^24 bytes, so at most M / 2
ASSUME RingConstants ==
    /\ M \in Nat /\ BufSize \in Nat \ {0}
    /\ M > 2 /\ 2 * BufSize <= M /\ M % 2 = 0 /\ M % BufSize = 0
    /\ MaxCmds \in Nat /\ MaxVq \in Nat /\ MaxWaits \in Nat
    /\ WaitBeyond \in Nat
    /\ Overrun \in BOOLEAN

VARIABLES
    \* memory shared with the driver
    head, tail, buf, idle, fatal_bit,
    \* struct vkr_ring
    cur, started, pending_notify, virtqueue_seqno, signalled,
    \* struct vkr_context
    cs_fatal_error, wait_ring, wait_signalled,
    \* the ring thread
    rpc, batch, seen_seqno, executed,
    \* the context thread, and its last wait
    mpc, mcmd,
    \* the driver
    vq, published, vq_submitted, waits, dpc

shared == <<head, tail, buf, idle, fatal_bit>>
ring   == <<cur, started, pending_notify, virtqueue_seqno, signalled>>
ctx    == <<cs_fatal_error, wait_ring, wait_signalled>>
thread == <<rpc, batch, seen_seqno, executed>>
main   == <<mpc, mcmd>>
driver == <<vq, published, vq_submitted, waits, dpc>>
vars   == <<shared, ring, ctx, thread, main, driver>>

\* A command in the ring: its ordinal, and the virtqueue seqno that
\* vkWaitVirtqueueSeqnoMESA waits for (0 for every other command).
Cmd == [ord : Nat, vq : Nat]

\* A command on the virtqueue.  arg is the ordinal waited for, or the seqno.
VqMsg == [op : {"notify", "wait", "submit", "destroy"}, arg : Nat]

Msg(op, arg) == [op |-> op, arg |-> arg]

RingPC == {"top", "arm", "setIdle", "checkTail", "clearIdle", "lock", "sleep",
           "unlock", "load", "dispatch", "vqLock", "vqSleep", "storeHead",
           "signal", "waitCheck", "waitTail", "fatal", "fatalSignal", "exit"}

MainPC == {"idle", "register", "waiting", "join", "gone"}

TypeOK ==
    /\ head \in 0..M-1 /\ tail \in 0..M-1 /\ cur \in 0..M-1
    /\ buf \in [0..BufSize-1 -> Cmd]
    /\ idle \in BOOLEAN /\ fatal_bit \in BOOLEAN
    /\ started \in BOOLEAN /\ pending_notify \in BOOLEAN
    /\ virtqueue_seqno \in Nat
    /\ signalled \in BOOLEAN /\ wait_signalled \in BOOLEAN
    /\ cs_fatal_error \in BOOLEAN
    /\ wait_ring \in [active : BOOLEAN, seqno : 0..M-1]
    /\ rpc \in RingPC /\ batch \in Seq(Cmd)
    /\ seen_seqno \in 0..M-1 /\ executed \in Nat
    /\ mpc \in MainPC /\ mcmd \in VqMsg
    /\ vq \in Seq(VqMsg)
    /\ published \in Nat /\ vq_submitted \in Nat /\ waits \in Nat
    /\ dpc \in {"run", "checkStatus", "done"}

-----------------------------------------------------------------------------
\* vkr_seqno_ge: (a - b) <= INT32_MAX in uint32_t arithmetic
seqno_ge(a, b) == (a - b) % M < M \div 2

\* cnd_signal(&ring->cond): only the ring thread ever waits on it
SignalRing == signalled' = (signalled \/ rpc \in {"sleep", "vqSleep"})

\* cnd_signal(&ctx->wait_ring.cond): only the context thread waits on it
SignalWaiter == wait_signalled' = (wait_signalled \/ mpc = "waiting")

\* The ring thread holds ring->mutex only between waking up and clearing IDLE.
RingMutexFree == rpc # "unlock"

NoCmd == [ord |-> 0, vq |-> 0]

\* vkr_ring_create requires a zero head and status; the driver starts at tail 0.
Init ==
    /\ head = 0 /\ tail = 0 /\ idle = FALSE /\ fatal_bit = FALSE
    /\ buf = [i \in 0..BufSize-1 |-> NoCmd]
    /\ cur = 0 /\ started = TRUE /\ pending_notify = FALSE
    /\ virtqueue_seqno = 0 /\ signalled = FALSE
    /\ cs_fatal_error = FALSE /\ wait_signalled = FALSE
    /\ wait_ring = [active |-> FALSE, seqno |-> 0]
    /\ rpc = "top" /\ batch = <<>> /\ seen_seqno = 0 /\ executed = 0
    /\ mpc = "idle" /\ mcmd = Msg("notify", 0)
    /\ vq = <<>> /\ published = 0 /\ vq_submitted = 0 /\ waits = 0
    /\ dpc = "run"

-----------------------------------------------------------------------------
(***************************************************************************)
(* The ring thread, vkr_ring_thread.                                       *)
(***************************************************************************)
Goto(l) == rpc' = l

\* while (ring->started), and whether idle_timeout has passed since the last
\* submission, which the model leaves open.
RingTop ==
    /\ rpc = "top"
    /\ IF started THEN Goto("arm") \/ Goto("load") ELSE Goto("exit")
    /\ UNCHANGED <<shared, ring, ctx, batch, seen_seqno, executed, main, driver>>

\* ring->pending_notify = false, without the mutex
RingArm ==
    /\ rpc = "arm"
    /\ pending_notify' = FALSE
    /\ Goto("setIdle")
    /\ UNCHANGED <<shared, cur, started, virtqueue_seqno, signalled, ctx,
                   batch, seen_seqno, executed, main, driver>>

RingSetIdle ==
    /\ rpc = "setIdle"
    /\ idle' = TRUE
    /\ Goto("checkTail")
    /\ UNCHANGED <<head, tail, buf, fatal_bit, ring, ctx, batch, seen_seqno,
                   executed, main, driver>>

\* Mutant: sleep without looking at the tail again after setting IDLE.
RingCheckTail_NoRecheck ==
    /\ rpc = "checkTail"
    /\ Goto("lock")
    /\ UNCHANGED <<shared, ring, ctx, batch, seen_seqno, executed, main, driver>>

\* wait = ring->buffer.cur == vkr_ring_load_tail(ring)
RingCheckTail ==
    /\ rpc = "checkTail"
    /\ Goto(IF cur = tail THEN "lock" ELSE "clearIdle")
    /\ UNCHANGED <<shared, ring, ctx, batch, seen_seqno, executed, main, driver>>

RingClearIdle ==
    /\ rpc = "clearIdle"
    /\ idle' = FALSE
    /\ Goto("load")
    /\ UNCHANGED <<head, tail, buf, fatal_bit, ring, ctx, batch, seen_seqno,
                   executed, main, driver>>

\* mtx_lock, then while (started && !pending_notify) cnd_wait: the condition is
\* evaluated on entry and after every signal.
RingIdleWait ==
    /\ rpc = "lock" \/ (rpc = "sleep" /\ signalled)
    /\ Goto(IF started /\ ~pending_notify THEN "sleep" ELSE "unlock")
    /\ signalled' = FALSE
    /\ UNCHANGED <<shared, cur, started, pending_notify, virtqueue_seqno, ctx,
                   batch, seen_seqno, executed, main, driver>>

\* Clear IDLE and release the mutex; leave the loop if stopped meanwhile.
RingUnlock ==
    /\ rpc = "unlock"
    /\ idle' = FALSE
    /\ Goto(IF started THEN "load" ELSE "exit")
    /\ UNCHANGED <<head, tail, buf, fatal_bit, ring, ctx, batch, seen_seqno,
                   executed, main, driver>>

\* Mutant: the copy does not wrap but stops at the last slot.
read_buffer_NoWrap(size) ==
    [i \in 1..size |->
        IF (cur % BufSize) + i <= BufSize
          THEN buf[(cur % BufSize) + i - 1] ELSE buf[BufSize - 1]]

\* vkr_ring_read_buffer: copy [cur, cur + size), wrapping at the buffer's end
read_buffer(size) == [i \in 1..size |-> buf[(cur + i - 1) % BufSize]]

\* cmd_size = tail - cur, the size check, the copy into ring->cmd, and the
\* fatal check on entry to vkr_ring_submit_cmd
RingLoad ==
    LET cmd_size == (tail - cur) % M IN
    /\ rpc = "load"
    /\ IF cmd_size \in 1..BufSize
         THEN /\ batch' = read_buffer(cmd_size)
              /\ cur' = (cur + cmd_size) % M
              /\ Goto(IF cs_fatal_error THEN "fatal" ELSE "dispatch")
         ELSE /\ Goto(IF cmd_size = 0 THEN "waitCheck" ELSE "fatal")
              /\ UNCHANGED <<batch, cur>>
    /\ UNCHANGED <<shared, started, pending_notify, virtqueue_seqno, signalled,
                   ctx, seen_seqno, executed, main, driver>>

\* vkr_ring_wait_virtqueue_seqno: the condition of its wait loop
VqBlocked == started /\ virtqueue_seqno < Head(batch).vq

\* vn_dispatch_command and the fatal check after it.  vkWaitVirtqueueSeqnoMESA
\* blocks on ring->cond, and is also let through by vkr_ring_stop.  Whatever the
\* command is, its decoding or its handler may make the context fatal.
RingDispatch ==
    /\ rpc = "dispatch" \/ (rpc = "vqSleep" /\ signalled)
    /\ signalled' = FALSE
    /\ IF VqBlocked
         THEN Goto("vqSleep") /\ UNCHANGED <<batch, executed, cs_fatal_error>>
         ELSE /\ executed' = Head(batch).ord
              /\ batch' = Tail(batch)
              /\ cs_fatal_error' \in {cs_fatal_error, TRUE}
              /\ Goto(IF cs_fatal_error' THEN "fatal" ELSE "storeHead")
    /\ UNCHANGED <<shared, cur, started, pending_notify, virtqueue_seqno,
                   wait_ring, wait_signalled, seen_seqno, main, driver>>

\* Mutant: the head is stored as if the whole batch was dispatched.
RingStoreHead_WholeBatch ==
    /\ rpc = "storeHead"
    /\ head' = cur
    /\ Goto("signal")
    /\ UNCHANGED <<tail, buf, idle, fatal_bit, ring, ctx, batch, seen_seqno,
                   executed, main, driver>>

\* vkr_ring_store_head(ring_head + consumed), which is cur minus what is left
RingStoreHead ==
    /\ rpc = "storeHead"
    /\ head' = (cur - Len(batch)) % M
    /\ Goto("signal")
    /\ UNCHANGED <<tail, buf, idle, fatal_bit, ring, ctx, batch, seen_seqno,
                   executed, main, driver>>

\* Mutant: the head is stored and the waiter is not signalled.
RingSignal_NoSignal ==
    /\ rpc = "signal"
    /\ Goto(IF batch = <<>> THEN "top" ELSE "dispatch")
    /\ UNCHANGED <<shared, ring, ctx, batch, seen_seqno, executed, main, driver>>

\* vkr_context_on_ring_seqno_update
RingSignal ==
    /\ rpc = "signal"
    /\ IF wait_ring.active /\ seqno_ge(head, wait_ring.seqno)
         THEN SignalWaiter
         ELSE UNCHANGED wait_signalled
    /\ Goto(IF batch = <<>> THEN "top" ELSE "dispatch")
    /\ UNCHANGED <<shared, ring, cs_fatal_error, wait_ring, batch, seen_seqno,
                   executed, main, driver>>

\* vkr_context_get_wait_ring_seqno
RingWaitCheck ==
    /\ rpc = "waitCheck"
    /\ IF wait_ring.active
         THEN seen_seqno' = wait_ring.seqno /\ Goto("waitTail")
         ELSE UNCHANGED seen_seqno /\ Goto("top")
    /\ UNCHANGED <<shared, ring, ctx, batch, executed, main, driver>>

\* The wait cannot be satisfied by anything in the ring: an error
RingWaitTail ==
    /\ rpc = "waitTail"
    /\ Goto(IF seqno_ge(tail, seen_seqno) THEN "top" ELSE "fatal")
    /\ UNCHANGED <<shared, ring, ctx, batch, seen_seqno, executed, main, driver>>

\* out: with ret < 0, then vkr_context_on_ring_fatal
RingFatal ==
    /\ rpc = "fatal"
    /\ fatal_bit' = TRUE /\ cs_fatal_error' = TRUE
    /\ Goto("fatalSignal")
    /\ UNCHANGED <<head, tail, buf, idle, ring, wait_ring, wait_signalled, batch,
                   seen_seqno, executed, main, driver>>

\* Mutant: the flag is set and the waiter is not signalled.
RingFatalSignal_NoSignal ==
    /\ rpc = "fatalSignal"
    /\ Goto("exit")
    /\ UNCHANGED <<shared, ring, ctx, batch, seen_seqno, executed, main, driver>>

RingFatalSignal ==
    /\ rpc = "fatalSignal"
    /\ SignalWaiter
    /\ Goto("exit")
    /\ UNCHANGED <<shared, ring, cs_fatal_error, wait_ring, batch, seen_seqno,
                   executed, main, driver>>

RingThread ==
    \/ RingTop \/ RingArm \/ RingSetIdle \/ RingCheckTail \/ RingClearIdle
    \/ RingIdleWait \/ RingUnlock \/ RingLoad \/ RingDispatch \/ RingStoreHead
    \/ RingSignal \/ RingWaitCheck \/ RingWaitTail \/ RingFatal \/ RingFatalSignal

-----------------------------------------------------------------------------
(***************************************************************************)
(* The context thread: vkr_context_submit_cmd dispatching the commands of  *)
(* the virtqueue.  Every message is a submission of its own.               *)
(***************************************************************************)
\* The next command is dispatched only while the context is not fatal; mcmd
\* keeps the last wait.
Dispatch(op) ==
    /\ mpc = "idle"
    /\ vq # <<>> /\ Head(vq).op = op
    /\ ~cs_fatal_error
    /\ vq' = Tail(vq)
    /\ mcmd' = IF op = "wait" THEN Head(vq) ELSE mcmd
    /\ UNCHANGED <<published, vq_submitted, waits, dpc>>

\* early bail due to fatal decoder state
MainDrop ==
    /\ mpc = "idle" /\ vq # <<>> /\ cs_fatal_error
    /\ vq' = Tail(vq)
    /\ UNCHANGED <<shared, ring, ctx, thread, main, published, vq_submitted,
                   waits, dpc>>

\* Whatever the command is, its decoding or its handler may make the context
\* fatal, and then it has no other effect here.
MainFail ==
    /\ \E op \in {"notify", "wait", "submit", "destroy"} : Dispatch(op)
    /\ cs_fatal_error' = TRUE
    /\ UNCHANGED <<shared, ring, wait_ring, wait_signalled, thread, mpc>>

\* vkr_ring_notify
Notify ==
    /\ RingMutexFree
    /\ pending_notify' = TRUE
    /\ SignalRing

\* vkr_dispatch_vkNotifyRingMESA
MainNotify ==
    /\ Dispatch("notify")
    /\ Notify
    /\ mpc' = "idle"
    /\ UNCHANGED <<shared, cur, started, virtqueue_seqno, ctx, thread>>

\* vkr_dispatch_vkSubmitVirtqueueSeqnoMESA
MainSubmitVq ==
    /\ Dispatch("submit")
    /\ RingMutexFree
    /\ virtqueue_seqno' = Head(vq).arg
    /\ SignalRing
    /\ mpc' = "idle"
    /\ UNCHANGED <<shared, cur, started, pending_notify, ctx, thread>>

\* vkr_dispatch_vkWaitRingSeqnoMESA notifies the ring before it registers.
MainWaitRing ==
    /\ Dispatch("wait")
    /\ Notify
    /\ mpc' = "register"
    /\ UNCHANGED <<shared, cur, started, virtqueue_seqno, ctx, thread>>

\* Mutant: the loop condition is evaluated against the tail.
WaitSatisfied_Tail == cs_fatal_error \/ seqno_ge(tail, mcmd.arg % M)

\* vkr_context_wait_ring_seqno: wait_ring is set, and the loop condition is
\* evaluated on entry and after every signal.
WaitSatisfied == cs_fatal_error \/ seqno_ge(head, mcmd.arg % M)

MainWait ==
    /\ mpc = "register" \/ (mpc = "waiting" /\ wait_signalled)
    /\ wait_signalled' = FALSE
    /\ wait_ring' = [active |-> ~WaitSatisfied, seqno |-> mcmd.arg % M]
    /\ mpc' = IF WaitSatisfied THEN "idle" ELSE "waiting"
    /\ UNCHANGED <<shared, ring, cs_fatal_error, thread, mcmd, driver>>

\* Mutant: started is cleared and the sleeping ring thread is not signalled.
Stop_NoSignal ==
    /\ RingMutexFree
    /\ started' = FALSE
    /\ mpc' = "join"
    /\ UNCHANGED <<shared, cur, pending_notify, virtqueue_seqno, signalled, ctx,
                   thread>>

\* vkr_ring_stop on the context thread, up to thrd_join
Stop ==
    /\ RingMutexFree
    /\ started' = FALSE
    /\ SignalRing
    /\ mpc' = "join"
    /\ UNCHANGED <<shared, cur, pending_notify, virtqueue_seqno, ctx, thread>>

\* vkr_dispatch_vkDestroyRingMESA
MainDestroyRing == Dispatch("destroy") /\ Stop

\* vkr_context_destroy, called by the host whatever the context's state
HostDestroyContext ==
    /\ mpc = "idle"
    /\ Stop
    /\ UNCHANGED <<mcmd, driver>>

\* thrd_join returned; vkr_ring_destroy frees the ring.
MainJoin ==
    /\ mpc = "join" /\ rpc = "exit"
    /\ mpc' = "gone"
    /\ UNCHANGED <<shared, ring, ctx, thread, mcmd, driver>>

ContextThread ==
    \/ MainDrop \/ MainFail \/ MainNotify \/ MainSubmitVq \/ MainWaitRing \/ MainWait
    \/ MainDestroyRing \/ MainJoin

-----------------------------------------------------------------------------
(***************************************************************************)
(* The driver.  It fills a slot, stores the tail, loads the status, and    *)
(* sends vkNotifyRingMESA if IDLE is set.                                  *)
(***************************************************************************)
\* A wait is still recent when it is handled: in the code it would take 2^31
\* bytes of later commands for vkr_seqno_ge to misjudge it.
PendingWaits ==
    {vq[i].arg : i \in {j \in DOMAIN vq : vq[j].op = "wait"}}
        \cup (IF mpc \in {"register", "waiting"} THEN {mcmd.arg} ELSE {})

Publish(v) ==
    /\ dpc = "run"
    /\ published < MaxCmds
    /\ (tail - head) % M < BufSize
    /\ \A w \in PendingWaits : published + 1 - w < M \div 2
    /\ published' = published + 1
    /\ buf' = [buf EXCEPT ![tail % BufSize] = [ord |-> published + 1, vq |-> v]]
    /\ tail' = (tail + 1) % M
    /\ dpc' = "checkStatus"
    /\ UNCHANGED <<head, idle, fatal_bit, ring, ctx, thread, main, vq,
                   vq_submitted, waits>>

\* An invalid driver stores a tail further than the buffer holds.  It does so on
\* a drained ring, and asks for nothing after it.
PublishTooMuch ==
    /\ Overrun
    /\ dpc = "run"
    /\ tail = head
    /\ published' = published + BufSize + 1
    /\ tail' = (tail + BufSize + 1) % M
    /\ dpc' = "checkStatus"
    /\ UNCHANGED <<head, buf, idle, fatal_bit, ring, ctx, thread, main, vq,
                   vq_submitted, waits>>

DriverCheckStatus ==
    /\ dpc = "checkStatus"
    /\ vq' = IF idle THEN Append(vq, Msg("notify", 0)) ELSE vq
    /\ dpc' = "run"
    /\ UNCHANGED <<shared, ring, ctx, thread, main, published, vq_submitted,
                   waits>>

DriverSubmitVq ==
    /\ dpc = "run"
    /\ vq_submitted < MaxVq
    /\ vq_submitted' = vq_submitted + 1
    /\ vq' = Append(vq, Msg("submit", vq_submitted + 1))
    /\ UNCHANGED <<shared, ring, ctx, thread, main, published, waits, dpc>>

DriverWaitRing(ord) ==
    /\ dpc = "run"
    /\ waits < MaxWaits
    /\ (tail - head) % M <= BufSize
    /\ waits' = waits + 1
    /\ vq' = Append(vq, Msg("wait", ord))
    /\ UNCHANGED <<shared, ring, ctx, thread, main, published, vq_submitted, dpc>>

DriverDestroyRing ==
    /\ dpc = "run"
    /\ vq' = Append(vq, Msg("destroy", 0))
    /\ dpc' = "done"
    /\ UNCHANGED <<shared, ring, ctx, thread, main, published, vq_submitted,
                   waits>>

\* A valid driver waits only for virtqueue seqnos it has submitted and for ring
\* seqnos it has published.
Driver ==
    \/ \E v \in 0..vq_submitted : Publish(v)
    \/ PublishTooMuch
    \/ DriverCheckStatus
    \/ DriverSubmitVq
    \/ \E ord \in published..published + WaitBeyond : DriverWaitRing(ord)
    \/ DriverDestroyRing

-----------------------------------------------------------------------------
Next == RingThread \/ ContextThread \/ HostDestroyContext \/ Driver

\* Both threads keep running, and a driver that stored a tail goes on to load
\* the status.  Nothing obliges the driver or the host to start anything.
Fairness ==
    /\ WF_vars(RingThread)
    /\ WF_vars(ContextThread)
    /\ WF_vars(DriverCheckStatus)

Spec == Init /\ [][Next]_vars /\ Fairness

-----------------------------------------------------------------------------
(***************************************************************************)
(* Properties                                                              *)
(***************************************************************************)
\* Somebody still has to tell the ring about what was published: the driver
\* before it loads the status, or a notification on its way.  A fatal context
\* dispatches nothing more, and a stopped ring need not run.
NotifyOwed ==
    \/ dpc = "checkStatus"
    \/ \E i \in DOMAIN vq : vq[i].op = "notify"
    \/ cs_fatal_error
    \/ ~started

\* The idle protocol of vkr_ring_thread loses no wakeup: while the ring thread
\* sleeps in cnd_wait, or is about to, on a buffer with unread commands, it has
\* been signalled or a notification is still owed to it.
NoLostWakeup ==
    rpc \in {"lock", "sleep"} /\ cur # tail => pending_notify \/ NotifyOwed

\* A sleeping ring whose wait condition has become false has been signalled:
\* vkr_ring_notify and vkr_ring_stop never leave it asleep.
WakeupSignalled ==
    rpc = "sleep" /\ (pending_notify \/ ~started) => signalled

\* The head the driver and vkr_context_wait_ring_seqno read never runs ahead of
\* the commands that were dispatched (and is behind by at most the command
\* whose head store is due).
HeadIsExecuted ==
    \/ head = executed % M
    \/ rpc \in {"storeHead", "fatal", "fatalSignal", "exit"}
           /\ head = (executed - 1) % M

\* Commands are dispatched in the order they were published, each once, across
\* the wrap of the buffer and of the sequence numbers: no slot is overwritten
\* before it was read and none is read twice.
DispatchInOrder == [][executed' \in {executed, executed + 1}]_vars

\* vkWaitRingSeqnoMESA returns only when the command it names was dispatched,
\* unless the context is fatal.
WaitRingSound ==
    [][(mpc \in {"register", "waiting"} /\ mpc' = "idle" /\ ~cs_fatal_error)
           => (executed >= mcmd.arg)]_vars

\* The ring catches up with the driver again and again: what was published is
\* dispatched unless the ring is stopped or fatal.
PublishedIsDispatched ==
    []<>(executed = published \/ cs_fatal_error \/ ~started)

\* vkWaitRingSeqnoMESA returns, also when the ring dies meanwhile, of a command
\* that fails or of an overrun: vkr_context_on_ring_fatal sets the flag before it
\* signals.  vkr_transport.c:391 claims it for invalid waits too: "ensure to wake
\* ring up to properly error out invalid ring wait".
WaitRingReturns == mpc = "waiting" ~> mpc # "waiting"

\* vkr_ring_stop returns: the ring thread leaves cnd_wait, a virtqueue wait or
\* the buffer it is draining, and is joined.
StopReturns == mpc = "join" ~> mpc = "gone"
=============================================================================
