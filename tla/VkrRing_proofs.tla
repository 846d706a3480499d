---------------------------- MODULE VkrRing_proofs ----------------------------
(***************************************************************************)
(* For every buffer size, modulus and bound, and for every driver the      *)
(* constants allow: type correctness of VkrRing, that its idle protocol    *)
(* loses no wakeup, and that what it dispatches, the head it stores and    *)
(* the ring waits it answers are what the driver published.                *)
(***************************************************************************)
EXTENDS VkrRing, SequenceTheorems, TLAPS

\* A batch is being dispatched only while something of it is left.
BatchLeft == rpc \in {"dispatch", "vqSleep"} => batch # <<>>

\* The ring thread advertises IDLE from before it compares cur with the tail
\* until after it has left cnd_wait.
IdleAdvertised == rpc \in {"checkTail", "lock", "sleep"} => idle

TypeInv == TypeOK /\ BatchLeft

\* NoLostWakeup is not inductive by itself: that the driver which published
\* sees IDLE, and so owes a notification, is IdleAdvertised.
WakeInv == IdleAdvertised /\ NoLostWakeup /\ WakeupSignalled

-----------------------------------------------------------------------------
\* The free-running offsets of vkr_ring.c stay below the modulus, and a masked
\* offset is an index of the buffer.
LEMMA ModRange ==
    /\ \A x \in Int : x % M \in 0..M-1
    /\ \A x \in Int : x % BufSize \in 0..BufSize-1
  <1>1. M \in Nat \ {0} /\ BufSize \in Nat \ {0}
    BY RingConstants
  <1>. QED BY <1>1

\* vkr_ring_read_buffer returns commands, and as many as it was asked for.
LEMMA ReadBufferType ==
    ASSUME TypeOK, NEW size \in 1..BufSize
    PROVE  read_buffer(size) \in Seq(Cmd) /\ read_buffer(size) # <<>>
  <1>1. size \in Nat /\ size # 0
    BY RingConstants
  <1>2. \A i \in 1..size : buf[(cur + i - 1) % BufSize] \in Cmd
    <2>1. \A i \in 1..size : cur + i - 1 \in Int
      BY RingConstants DEF TypeOK
    <2>. QED BY <2>1, ModRange, Zenon DEF TypeOK
  <1>3. read_buffer(size) \in Seq(Cmd)
    BY <1>1, <1>2, IsASeq DEF read_buffer
  <1>4. Len(read_buffer(size)) = size
    BY <1>1 DEF read_buffer
  <1>. QED BY <1>1, <1>3, <1>4, Zenon

\* Consuming what was loaded keeps cur a uint32_t value.
LEMMA CurInRange ==
    ASSUME TypeOK
    PROVE  \A k \in 1..BufSize : (cur + k) % M \in 0..M-1
  <1>1. \A k \in 1..BufSize : cur + k \in Int
    BY DEF TypeOK
  <1>. QED BY <1>1, ModRange, Zenon

\* What handling the first command of the virtqueue leaves behind.
LEMMA VqTail ==
    ASSUME TypeOK, vq # <<>>
    PROVE  /\ Head(vq) \in VqMsg
           /\ Tail(vq) \in Seq(VqMsg)
           /\ \A i \in DOMAIN vq : i = 1 \/ (i - 1 \in DOMAIN Tail(vq) /\ Tail(vq)[i-1] = vq[i])
  BY HeadTailProperties, LenProperties DEF TypeOK

\* What sending a command leaves in the virtqueue.
LEMMA VqAppend ==
    ASSUME TypeOK, NEW m \in VqMsg
    PROVE  /\ Append(vq, m) \in Seq(VqMsg)
           /\ \A i \in DOMAIN vq : i \in DOMAIN Append(vq, m) /\ Append(vq, m)[i] = vq[i]
           /\ \E i \in DOMAIN Append(vq, m) : Append(vq, m)[i] = m
  BY AppendProperties, LenProperties, SMTT(30) DEF TypeOK
-----------------------------------------------------------------------------
LEMMA TypeInit == Init => TypeInv
  <1>. SUFFICES ASSUME Init PROVE TypeInv
    OBVIOUS
  <1>1. 0 \in 0..M-1
    BY RingConstants
  <1>2. head \in 0..M-1 /\ tail \in 0..M-1 /\ cur \in 0..M-1 /\ seen_seqno \in 0..M-1
    BY <1>1, Zenon DEF Init
  <1>3. buf \in [0..BufSize-1 -> Cmd] /\ mcmd \in VqMsg
    BY Zenon DEF Init, Cmd, NoCmd, VqMsg, Msg
  <1>4. wait_ring \in [active : BOOLEAN, seqno : 0..M-1]
    BY <1>1, Zenon DEF Init
  <1>5. batch \in Seq(Cmd) /\ vq \in Seq(VqMsg)
    BY EmptySeq, Zenon DEF Init
  <1>6. /\ idle \in BOOLEAN /\ fatal_bit \in BOOLEAN /\ started \in BOOLEAN
        /\ pending_notify \in BOOLEAN /\ signalled \in BOOLEAN
        /\ wait_signalled \in BOOLEAN /\ cs_fatal_error \in BOOLEAN
    BY Zenon DEF Init
  <1>7. /\ virtqueue_seqno \in Nat /\ executed \in Nat /\ published \in Nat
        /\ vq_submitted \in Nat /\ waits \in Nat
    BY Zenon DEF Init
  <1>8. rpc \in RingPC /\ mpc \in MainPC /\ dpc \in {"run", "checkStatus", "done"} /\ BatchLeft
    BY Zenon DEF Init, RingPC, MainPC, BatchLeft
  <1>. QED BY <1>2, <1>3, <1>4, <1>5, <1>6, <1>7, <1>8, Zenon DEF TypeInv, TypeOK

LEMMA TypeNext == TypeInv /\ [Next]_vars => TypeInv'
  <1>. SUFFICES ASSUME TypeInv, [Next]_vars PROVE TypeInv'
    OBVIOUS
  <1>. USE DEF TypeInv, TypeOK, BatchLeft, RingPC, MainPC, shared, ring,
           ctx, thread, main, driver, Goto, SignalRing, SignalWaiter
  <1>1. CASE RingTop
    BY <1>1 DEF RingTop
  <1>2. CASE RingArm
    <2>1. pending_notify' \in BOOLEAN
      BY <1>2, Zenon DEF RingArm
    <2>. QED BY <1>2, <2>1 DEF RingArm
  <1>3. CASE RingSetIdle
    BY <1>3 DEF RingSetIdle
  <1>4. CASE RingCheckTail
    BY <1>4 DEF RingCheckTail
  <1>5. CASE RingClearIdle
    <2>1. idle' \in BOOLEAN
      BY <1>5, Zenon DEF RingClearIdle
    <2>. QED BY <1>5, <2>1 DEF RingClearIdle
  <1>6. CASE RingIdleWait
    <2>1. signalled' \in BOOLEAN
      BY <1>6, Zenon DEF RingIdleWait
    <2>. QED BY <1>6, <2>1 DEF RingIdleWait
  <1>7. CASE RingUnlock
    <2>1. idle' \in BOOLEAN
      BY <1>7, Zenon DEF RingUnlock
    <2>. QED BY <1>7, <2>1 DEF RingUnlock
  <1>8. CASE RingLoad
    <2>1. CASE (tail - cur) % M \in 1..BufSize
      <3>3. cur' \in 0..M-1
        BY <1>8, <2>1, CurInRange, Zenon DEF RingLoad
      <3>4. batch' \in Seq(Cmd) /\ batch' # <<>>
        BY <1>8, <2>1, ReadBufferType, Zenon DEF RingLoad
      <3>. QED BY <1>8, <2>1, <3>3, <3>4, SMTT(30) DEF RingLoad
    <2>2. CASE (tail - cur) % M \notin 1..BufSize
      BY <1>8, <2>2 DEF RingLoad
    <2>. QED BY <2>1, <2>2, Zenon
  <1>9. CASE RingDispatch
    <2>1. batch # <<>>
      BY <1>9, Zenon DEF RingDispatch
    <2>2. Head(batch) \in Cmd /\ Tail(batch) \in Seq(Cmd)
      BY <2>1, HeadTailProperties, Zenon
    <2>3. Head(batch).ord \in Nat
      BY <2>2, Zenon DEF Cmd
    <2>4. signalled' \in BOOLEAN
      BY <1>9, Zenon DEF RingDispatch
    <2>5. CASE VqBlocked
      BY <1>9, <2>1, <2>4, <2>5 DEF RingDispatch
    <2>6. CASE ~VqBlocked
      <3>1. executed' \in Nat /\ batch' \in Seq(Cmd)
        BY <1>9, <2>2, <2>3, <2>6, Zenon DEF RingDispatch
      <3>2. rpc' \in {"fatal", "storeHead"}
        BY <1>9, <2>6, Zenon DEF RingDispatch
      <3>3. cs_fatal_error' \in BOOLEAN
        BY <1>9, <2>6, Zenon DEF RingDispatch
      <3>. QED BY <1>9, <2>4, <2>6, <3>1, <3>2, <3>3 DEF RingDispatch
    <2>. QED BY <2>5, <2>6, Zenon
  <1>10. CASE RingStoreHead
    <2>1. cur - Len(batch) \in Int
      BY LenProperties
    <2>2. head' \in 0..M-1
      BY <1>10, <2>1, ModRange, Zenon DEF RingStoreHead
    <2>. QED BY <1>10, <2>2 DEF RingStoreHead
  <1>11. CASE RingSignal
    BY <1>11 DEF RingSignal
  <1>12. CASE RingWaitCheck
    BY <1>12 DEF RingWaitCheck
  <1>13. CASE RingWaitTail
    BY <1>13 DEF RingWaitTail
  <1>14. CASE RingFatal
    BY <1>14 DEF RingFatal
  <1>15. CASE RingFatalSignal
    BY <1>15 DEF RingFatalSignal
  <1>16. CASE MainDrop
    BY <1>16, VqTail DEF MainDrop
  <1>16a. CASE MainFail
    <2>1. cs_fatal_error' \in BOOLEAN
      BY <1>16a, Zenon DEF MainFail
    <2>. QED BY <1>16a, <2>1, VqTail DEF MainFail, Dispatch
  <1>17. CASE MainNotify
    BY <1>17, VqTail DEF MainNotify, Dispatch, Notify
  <1>18. CASE MainSubmitVq
    BY <1>18, VqTail, SMTT(30) DEF MainSubmitVq, Dispatch, VqMsg
  <1>19. CASE MainWaitRing
    BY <1>19, VqTail DEF MainWaitRing, Dispatch, Notify
  <1>20. CASE MainDestroyRing
    <2>1. started' \in BOOLEAN
      BY <1>20, Zenon DEF MainDestroyRing, Stop
    <2>. QED BY <1>20, <2>1, VqTail DEF MainDestroyRing, Dispatch, Stop
  <1>21. CASE MainWait
    <2>1. mcmd.arg \in Nat
      BY Zenon DEF VqMsg
    <2>2. wait_signalled' \in BOOLEAN
      BY <1>21, Zenon DEF MainWait
    <2>3. mcmd.arg % M \in 0..M-1
      <3>1. mcmd.arg \in Int
        BY <2>1
      <3>. QED BY <3>1, ModRange, Zenon
    <2>4. wait_ring' \in [active : BOOLEAN, seqno : 0..M-1]
      BY <1>21, <2>3, Zenon DEF MainWait
    <2>. QED BY <1>21, <2>2, <2>4 DEF MainWait
  <1>22. CASE MainJoin
    BY <1>22 DEF MainJoin
  <1>23. CASE HostDestroyContext
    <2>1. started' \in BOOLEAN
      BY <1>23, Zenon DEF HostDestroyContext, Stop
    <2>. QED BY <1>23, <2>1 DEF HostDestroyContext, Stop
  <1>24. CASE \E v \in 0..vq_submitted : Publish(v)
    <2>. PICK v \in 0..vq_submitted : Publish(v)
      BY <1>24, Zenon
    <2>1. [ord |-> published + 1, vq |-> v] \in Cmd
      BY DEF Cmd
    <2>2. tail' \in 0..M-1
      BY ModRange DEF Publish
    <2>3. buf' \in [0..BufSize-1 -> Cmd]
      BY <2>1, Zenon DEF Publish
    <2>. QED BY <2>2, <2>3 DEF Publish
  <1>25. CASE PublishTooMuch
    <2>1. tail' \in 0..M-1
      <3>1. tail + BufSize + 1 \in Int
        BY RingConstants
      <3>. QED BY <1>25, <3>1, ModRange, Zenon DEF PublishTooMuch
    <2>. QED BY <1>25, <2>1, RingConstants DEF PublishTooMuch
  <1>26. CASE DriverCheckStatus
    <2>1. Msg("notify", 0) \in VqMsg
      BY Zenon DEF Msg, VqMsg
    <2>. QED BY <1>26, <2>1, VqAppend DEF DriverCheckStatus
  <1>27. CASE DriverSubmitVq
    <2>1. Msg("submit", vq_submitted + 1) \in VqMsg
      BY DEF Msg, VqMsg
    <2>. QED BY <1>27, <2>1, VqAppend DEF DriverSubmitVq
  <1>28. CASE \E ord \in published..published + WaitBeyond : DriverWaitRing(ord)
    <2>. PICK ord \in published..published + WaitBeyond : DriverWaitRing(ord)
      BY <1>28, Zenon
    <2>1. Msg("wait", ord) \in VqMsg
      BY DEF Msg, VqMsg
    <2>. QED BY <2>1, VqAppend DEF DriverWaitRing
  <1>29. CASE DriverDestroyRing
    <2>1. Msg("destroy", 0) \in VqMsg
      BY Zenon DEF Msg, VqMsg
    <2>. QED BY <1>29, <2>1, VqAppend DEF DriverDestroyRing
  <1>30. CASE UNCHANGED vars
    BY <1>30 DEF vars
  <1>. QED
    BY <1>1, <1>2, <1>3, <1>4, <1>5, <1>6, <1>7, <1>8, <1>9, <1>10, <1>11, <1>12, <1>13, <1>14,
       <1>15, <1>16, <1>16a, <1>17, <1>18, <1>19, <1>20, <1>21, <1>22, <1>23, <1>24, <1>25, <1>26,
       <1>27, <1>28, <1>29, <1>30, Zenon DEF Next, RingThread, ContextThread, Driver

\* Every state of a venus ring is well typed: the offsets stay uint32_t values,
\* the virtqueue and the batch hold commands, and vkr_ring_submit_cmd never
\* decodes past the end of a batch.
THEOREM TypeCorrect == Spec => []TypeOK
  <1>1. Init => TypeInv
    BY TypeInit, Zenon
  <1>2. TypeInv /\ [Next]_vars => TypeInv'
    BY TypeNext, Zenon
  <1>3. TypeInv => TypeOK
    BY Zenon DEF TypeInv
  <1>. QED BY <1>1, <1>2, <1>3, PTL DEF Spec
-----------------------------------------------------------------------------
\* The notification a driver owes survives every step that is not its delivery.
LEMMA WakeNext == TypeInv /\ WakeInv /\ [Next]_vars => WakeInv'
  <1>. SUFFICES ASSUME TypeInv, WakeInv, [Next]_vars PROVE WakeInv'
    OBVIOUS
  <1>. USE DEF WakeInv, IdleAdvertised, NoLostWakeup, WakeupSignalled, NotifyOwed,
           shared, ring, ctx, thread, main, driver, Goto
  <1>0. TypeOK
    BY Zenon DEF TypeInv
  <1>1. CASE RingTop
    BY <1>1, Zenon DEF RingTop
  <1>2. CASE RingArm
    BY <1>2, Zenon DEF RingArm
  <1>3. CASE RingSetIdle
    BY <1>3, Zenon DEF RingSetIdle
  <1>4. CASE RingCheckTail
    BY <1>4, Zenon DEF RingCheckTail
  <1>5. CASE RingClearIdle
    BY <1>5, Zenon DEF RingClearIdle
  <1>6. CASE RingIdleWait
    BY <1>6, Zenon DEF RingIdleWait
  <1>7. CASE RingUnlock
    BY <1>7, Zenon DEF RingUnlock
  <1>8. CASE RingLoad
    BY <1>8, Zenon DEF RingLoad
  <1>9. CASE RingDispatch
    BY <1>9, Zenon DEF RingDispatch
  <1>10. CASE RingStoreHead
    BY <1>10, Zenon DEF RingStoreHead
  <1>11. CASE RingSignal
    BY <1>11, Zenon DEF RingSignal
  <1>12. CASE RingWaitCheck
    BY <1>12, Zenon DEF RingWaitCheck
  <1>13. CASE RingWaitTail
    BY <1>13, Zenon DEF RingWaitTail
  <1>14. CASE RingFatal
    BY <1>14, Zenon DEF RingFatal
  <1>15. CASE RingFatalSignal
    BY <1>15, Zenon DEF RingFatalSignal
  <1>16. CASE MainDrop
    BY <1>16, Zenon DEF MainDrop
  <1>16a. CASE MainFail
    BY <1>16a, Zenon DEF MainFail, Dispatch
  <1>17. CASE MainNotify
    BY <1>17, <1>0, VqTail, Zenon DEF MainNotify, Dispatch, Notify, SignalRing
  <1>18. CASE MainSubmitVq
    <2>1. (\E i \in DOMAIN vq : vq[i].op = "notify")
            => (\E i \in DOMAIN vq' : vq'[i].op = "notify")
      <3>1. Head(vq) = vq[1] /\ Head(vq).op = "submit" /\ vq # <<>> /\ vq' = Tail(vq)
        BY <1>18, <1>0, HeadTailProperties DEF MainSubmitVq, Dispatch, TypeOK
      <3>. QED BY <3>1, <1>0, VqTail, Zenon
    <2>. QED BY <1>18, <2>1, Zenon DEF MainSubmitVq, Dispatch, SignalRing
  <1>19. CASE MainWaitRing
    BY <1>19, <1>0, VqTail, Zenon DEF MainWaitRing, Dispatch, Notify, SignalRing
  <1>20. CASE MainDestroyRing
    BY <1>20, <1>0, VqTail, Zenon DEF MainDestroyRing, Dispatch, Stop, SignalRing
  <1>21. CASE MainWait
    BY <1>21, Zenon DEF MainWait
  <1>22. CASE MainJoin
    BY <1>22, Zenon DEF MainJoin
  <1>23. CASE HostDestroyContext
    BY <1>23, Zenon DEF HostDestroyContext, Stop, SignalRing
  <1>24. CASE \E v \in 0..vq_submitted : Publish(v)
    BY <1>24 DEF Publish
  <1>25. CASE PublishTooMuch
    BY <1>25, Zenon DEF PublishTooMuch
  <1>26. CASE DriverCheckStatus
    <2>1. Msg("notify", 0) \in VqMsg
      BY <1>0, Zenon DEF TypeOK, Msg, VqMsg
    <2>. QED BY <1>26, <1>0, <2>1, VqAppend DEF DriverCheckStatus, Msg
  <1>27. CASE DriverSubmitVq
    <2>1. Msg("submit", vq_submitted + 1) \in VqMsg
      BY <1>0 DEF TypeOK, Msg, VqMsg
    <2>. QED BY <1>27, <1>0, <2>1, VqAppend, Zenon DEF DriverSubmitVq, Msg
  <1>28. CASE \E ord \in published..published + WaitBeyond : DriverWaitRing(ord)
    <2>. PICK ord \in published..published + WaitBeyond : DriverWaitRing(ord)
      BY <1>28, Zenon
    <2>1. Msg("wait", ord) \in VqMsg
      BY <1>0 DEF TypeOK, Msg, VqMsg
    <2>. QED BY <1>0, <2>1, VqAppend, Zenon DEF DriverWaitRing
  <1>29. CASE DriverDestroyRing
    <2>1. Msg("destroy", 0) \in VqMsg
      BY Zenon DEF Msg, VqMsg
    <2>. QED BY <1>29, <1>0, <2>1, VqAppend, Zenon DEF DriverDestroyRing
  <1>30. CASE UNCHANGED vars
    BY <1>30, Zenon DEF vars
  <1>. QED
    BY <1>1, <1>2, <1>3, <1>4, <1>5, <1>6, <1>7, <1>8, <1>9, <1>10, <1>11, <1>12, <1>13, <1>14,
       <1>15, <1>16, <1>16a, <1>17, <1>18, <1>19, <1>20, <1>21, <1>22, <1>23, <1>24, <1>25, <1>26,
       <1>27, <1>28, <1>29, <1>30, Zenon DEF Next, RingThread, ContextThread, Driver

\* The ring thread never sleeps through published commands: while it is in
\* cnd_wait with unread commands it has been signalled, or the driver has still
\* to look at the IDLE bit, or a vkNotifyRingMESA is on the virtqueue.
THEOREM IdleProtocol == Spec => [](NoLostWakeup /\ WakeupSignalled)
  <1>1. Init => TypeInv /\ WakeInv
    BY TypeInit, Zenon DEF Init, WakeInv, IdleAdvertised, NoLostWakeup, WakeupSignalled
  <1>2. TypeInv /\ WakeInv /\ [Next]_vars => (TypeInv /\ WakeInv)'
    BY TypeNext, WakeNext, Zenon
  <1>3. WakeInv => NoLostWakeup /\ WakeupSignalled
    BY Zenon DEF WakeInv
  <1>. QED BY <1>1, <1>2, <1>3, PTL DEF Spec

-----------------------------------------------------------------------------
(***************************************************************************)
(* Offsets.  head, tail and cur are the numbers of commands dispatched,    *)
(* published and copied out of the buffer, modulo M.                       *)
(***************************************************************************)
\* What was copied out of the buffer: the commands dispatched and the batch.
Consumed == executed + Len(batch)

\* Where the ring thread may be with commands of a batch still to dispatch.
Draining == {"dispatch", "vqSleep", "storeHead", "signal", "fatal", "fatalSignal", "exit"}

\* Where the store of the head may be due, or may never come.
HeadDue == {"storeHead", "fatal", "fatalSignal", "exit"}

Offsets ==
    /\ cur = Consumed % M /\ tail = published % M /\ Consumed <= published
    /\ \A i \in 1..Len(batch) : batch[i].ord = executed + i
    /\ rpc \notin Draining => batch = <<>>

\* h commands are dispatched according to the head.
HeadAt(h) ==
    /\ head = h % M
    /\ h = executed \/ (h = executed - 1 /\ rpc \in HeadDue)

\* The slots not copied yet hold the commands published, unless the driver has
\* stored a tail further than the buffer holds.
Unread(h) ==
    \/ /\ published - h <= BufSize
       /\ \A k \in Consumed + 1 .. published : buf[(k - 1) % BufSize].ord = k
    \/ published - h = BufSize + 1 /\ executed = h /\ batch = <<>>

\* No wait names a command further ahead than the driver could ask for.
WaitsNear(h) == \A w \in PendingWaits : w <= h + BufSize + WaitBeyond

\* Neither HeadIsExecuted nor DispatchInOrder is inductive: what is dispatched
\* next depends on the batch, on the slots and on how far the tail may be.
OffsetInv ==
    /\ Offsets
    /\ \E h \in executed - 1 .. executed : HeadAt(h) /\ Unread(h) /\ WaitsNear(h)

LEMMA DivMod ==
    ASSUME NEW m \in Nat \ {0}, NEW x \in Int
    PROVE  /\ x \div m \in Int /\ x % m \in 0 .. m - 1
           /\ x = m * (x \div m) + (x % m)
  <1>. QED OBVIOUS

LEMMA SmallMultiple ==
    ASSUME NEW m \in Nat \ {0}, NEW k \in Int, NEW a \in 0 .. m - 1, NEW b \in 0 .. m - 1,
           m * k = a - b
    PROVE  k = 0
  <1>1. k >= 1 => m * k >= m
    OBVIOUS
  <1>2. k <= -1 => m * k <= -m
    OBVIOUS
  <1>. QED BY <1>1, <1>2

LEMMA ModUnique ==
    ASSUME NEW m \in Nat \ {0}, NEW x \in Int, NEW k \in Int, NEW b \in 0 .. m - 1,
           x = m * k + b
    PROVE  x % m = b
  <1>1. x \div m \in Int /\ x % m \in 0 .. m - 1 /\ x = m * (x \div m) + (x % m)
    BY DivMod, Zenon
  <1>2. m * (k - (x \div m)) = (x % m) - b
    BY <1>1
  <1>3. k - (x \div m) = 0
    BY <1>1, <1>2, SmallMultiple
  <1>. QED BY <1>1, <1>3

\* Values of one residue differ by a multiple.
LEMMA ModShift ==
    ASSUME NEW m \in Nat \ {0}, NEW x \in Int, NEW y \in Int, NEW k \in Int, x = m * k + y
    PROVE  x % m = y % m
  <1> DEFINE q == y \div m
             r == y % m
  <1>1. q \in Int /\ r \in 0 .. m - 1 /\ y = m * q + r
    BY DivMod, Zenon
  <1> HIDE DEF q, r
  <1>2. m * (k + q) = m * k + m * q
    BY <1>1
  <1>3. x = m * (k + q) + r /\ k + q \in Int
    BY <1>1, <1>2
  <1>4. x % m = r
    BY <1>1, <1>3, ModUnique, Zenon
  <1>. QED BY <1>4, Zenon DEF r

\* Offsets may be reduced before they are added or subtracted, as uint32_t
\* arithmetic does.
LEMMA ModAdd ==
    ASSUME NEW m \in Nat \ {0}, NEW x \in Int, NEW y \in Int
    PROVE  ((x % m) + y) % m = (x + y) % m
  <1> DEFINE q == x \div m
             r == x % m
  <1>1. q \in Int /\ r \in Int /\ x = m * q + r
    BY DivMod
  <1> HIDE DEF q, r
  <1>2. x + y = m * q + (r + y) /\ r + y \in Int /\ x + y \in Int
    BY <1>1
  <1>3. (x + y) % m = (r + y) % m
    BY <1>1, <1>2, ModShift, Zenon
  <1>. QED BY <1>3, Zenon DEF r

LEMMA ModSub ==
    ASSUME NEW m \in Nat \ {0}, NEW x \in Int, NEW y \in Int
    PROVE  ((x % m) - (y % m)) % m = (x - y) % m
  <1> DEFINE p == x \div m
             q == y \div m
             r == x % m
             t == y % m
  <1>1. p \in Int /\ r \in Int /\ x = m * p + r
    BY DivMod
  <1>2. q \in Int /\ t \in Int /\ y = m * q + t
    BY DivMod
  <1> HIDE DEF p, q, r, t
  <1>3. m * (p - q) = m * p - m * q
    BY <1>1, <1>2
  <1>4. x - y = m * (p - q) + (r - t) /\ p - q \in Int /\ r - t \in Int /\ x - y \in Int
    BY <1>1, <1>2, <1>3
  <1>5. (x - y) % m = (r - t) % m
    BY <1>4, ModShift, Zenon
  <1>. QED BY <1>5, Zenon DEF r, t

LEMMA ModSmall ==
    ASSUME NEW m \in Nat \ {0}, NEW x \in 0 .. m - 1
    PROVE  x % m = x
  BY ModUnique

\* The buffer's size divides the modulus, so a reduced offset names the slot of
\* the offset itself.
LEMMA SlotOf ==
    ASSUME NEW x \in Int, NEW y \in Int
    PROVE  ((x % M) + y) % BufSize = (x + y) % BufSize
  <1>1. M \in Nat \ {0} /\ BufSize \in Nat \ {0} /\ M % BufSize = 0
    BY RingConstants
  <1> DEFINE d == M \div BufSize
             q == x \div M
             r == x % M
  <1>2. d \in Int /\ M = BufSize * d
    BY <1>1, DivMod
  <1>3. q \in Int /\ r \in Int /\ x = M * q + r
    BY <1>1, DivMod
  <1> DEFINE e == d * q
  <1> HIDE DEF d, q, r
  <1>4. M * q = BufSize * e /\ e \in Int
    BY <1>1, <1>2, <1>3
  <1> HIDE DEF e
  <1>5. x + y = BufSize * e + (r + y) /\ x + y \in Int /\ r + y \in Int
    BY <1>1, <1>3, <1>4
  <1>6. (x + y) % BufSize = (r + y) % BufSize
    BY <1>1, <1>4, <1>5, ModShift, ZenonT(40)
  <1>. QED BY <1>6, Zenon DEF r

\* Commands less than a buffer apart are in different slots.
LEMMA SlotsDiffer ==
    ASSUME NEW x \in Int, NEW y \in Int, x - y \in 1 .. BufSize - 1
    PROVE  x % BufSize # y % BufSize
  <1>1. BufSize \in Nat \ {0}
    BY RingConstants, Zenon
  <1> DEFINE p == x \div BufSize
             q == y \div BufSize
             r == x % BufSize
             t == y % BufSize
  <1>2. p \in Int /\ r \in Int /\ x = BufSize * p + r
    BY <1>1, DivMod
  <1>3. q \in Int /\ t \in Int /\ y = BufSize * q + t
    BY <1>1, DivMod
  <1> HIDE DEF p, q, r, t
  <1>4. BufSize * (p - q) = BufSize * p - BufSize * q /\ p - q \in Int
    BY <1>1, <1>2, <1>3
  <1>5. ASSUME r = t PROVE FALSE
    <2>1. BufSize * (p - q) = (x - y) - 0
      BY <1>1, <1>2, <1>3, <1>4, <1>5
    <2>2. x - y \in 0 .. BufSize - 1 /\ 0 \in 0 .. BufSize - 1
      BY <1>1
    <2>3. p - q = 0
      BY <1>1, <1>4, <2>1, <2>2, SmallMultiple, Zenon
    <2>. QED BY <1>1, <2>1, <2>3
  <1>. QED BY <1>5, Zenon DEF r, t

-----------------------------------------------------------------------------
\* The constants the proofs below use, in one place.
LEMMA Sizes ==
    /\ M \in Nat \ {0} /\ BufSize \in Nat \ {0} /\ BufSize + 1 <= M - 1
    /\ WaitBeyond \in Nat
  BY RingConstants

LEMMA Counts ==
    ASSUME TypeOK, Offsets
    PROVE  /\ executed \in Nat /\ published \in Nat /\ Len(batch) \in Nat
           /\ Consumed \in Nat /\ executed <= Consumed /\ Consumed <= published
  <1>1. executed \in Nat /\ published \in Nat /\ Len(batch) \in Nat
    BY LenProperties, Zenon DEF TypeOK
  <1>. QED BY <1>1 DEF Offsets, Consumed

\* How far the tail is ahead of the head: the uint32_t difference is exact.
LEMMA Gap ==
    ASSUME TypeOK, Offsets, NEW h \in executed - 1 .. executed, HeadAt(h), Unread(h)
    PROVE  /\ published - h \in 0 .. BufSize + 1
           /\ (tail - head) % M = published - h
           /\ h \in Int
  <1>1. h \in Int /\ published \in Int /\ h <= published
    BY Counts
  <1>2. published - h \in 0 .. BufSize + 1
    BY <1>1, Sizes DEF Unread
  <1>3. published - h \in 0 .. M - 1
    BY <1>1, <1>2, Sizes
  <1>4. (tail - head) % M = (published - h) % M
    BY <1>1, Sizes, ModSub, Zenon DEF Offsets, HeadAt
  <1>. QED BY <1>1, <1>2, <1>3, <1>4, Sizes, ModSmall, Zenon

\* A step that moves no offset, and lets the ring thread go where it may with
\* what is left of the batch, keeps everything.
LEMMA OffsetFrame ==
    ASSUME OffsetInv, UNCHANGED <<head, tail, buf, cur, batch, executed, published>>,
           rpc' \notin Draining => batch = <<>>,
           rpc \in HeadDue => rpc' \in HeadDue,
           \A w \in PendingWaits' : w \in PendingWaits
    PROVE  OffsetInv'
  <1>1. PICK h \in executed - 1 .. executed : HeadAt(h) /\ Unread(h) /\ WaitsNear(h)
    BY Zenon DEF OffsetInv
  <1>2. Offsets'
    BY Zenon DEF OffsetInv, Offsets, Consumed
  <1>3. HeadAt(h)'
    BY <1>1, Zenon DEF HeadAt
  <1>4. Unread(h)'
    BY <1>1, Zenon DEF Unread, Consumed
  <1>5. WaitsNear(h)'
    BY <1>1, Zenon DEF WaitsNear
  <1>6. h \in (executed - 1 .. executed)'
    BY <1>1, Zenon
  <1>. QED BY <1>2, <1>3, <1>4, <1>5, <1>6, Zenon DEF OffsetInv

LEMMA WaitsKept ==
    ASSUME UNCHANGED <<vq, mpc, mcmd>>
    PROVE  PendingWaits' = PendingWaits
  BY Zenon DEF PendingWaits

LEMMA WaitsAreNats ==
    ASSUME TypeOK
    PROVE  \A w \in PendingWaits : w \in Nat
  <1>1. \A i \in DOMAIN vq : vq[i] \in VqMsg
    BY LenProperties DEF TypeOK
  <1>2. \A m \in VqMsg : m.arg \in Nat
    BY Zenon DEF VqMsg
  <1>3. mcmd \in VqMsg
    BY Zenon DEF TypeOK
  <1>. QED BY <1>1, <1>2, <1>3, Zenon DEF PendingWaits

\* Handling a message other than a wait, or dropping one, adds no wait.
LEMMA WaitsTaken ==
    ASSUME TypeOK, vq # <<>>, vq' = Tail(vq), mpc = "idle",
           \/ mpc' \notin {"register", "waiting"}
           \/ Head(vq).op = "wait" /\ mcmd' = Head(vq)
    PROVE  \A w \in PendingWaits' : w \in PendingWaits
  <1>1. Head(vq) = vq[1] /\ 1 \in DOMAIN vq
    BY HeadTailProperties, LenProperties DEF TypeOK
  <1>2. ASSUME NEW i \in DOMAIN Tail(vq)
        PROVE  i + 1 \in DOMAIN vq /\ Tail(vq)[i] = vq[i + 1]
    BY HeadTailProperties, LenProperties DEF TypeOK
  <1>. QED BY <1>1, <1>2 DEF PendingWaits

\* Sending a message adds at most its own wait.
LEMMA WaitsSent ==
    ASSUME TypeOK, NEW m \in VqMsg, vq' = Append(vq, m), UNCHANGED <<mpc, mcmd>>
    PROVE  \A w \in PendingWaits' : w \in PendingWaits \/ (m.op = "wait" /\ w = m.arg)
  <1>1. ASSUME NEW i \in DOMAIN Append(vq, m)
        PROVE  (i \in DOMAIN vq /\ Append(vq, m)[i] = vq[i]) \/ Append(vq, m)[i] = m
    BY AppendProperties, LenProperties DEF TypeOK
  <1>. QED BY <1>1, Zenon DEF PendingWaits

-----------------------------------------------------------------------------
\* vkr_ring_read_buffer copies exactly what was published since cur.
LEMMA OffsetLoad ==
    ASSUME TypeInv, OffsetInv, RingLoad
    PROVE  OffsetInv'
  <1>. USE DEF shared, ring, ctx, thread, main, driver, Goto
  <1>0. TypeOK /\ Offsets
    BY Zenon DEF TypeInv, OffsetInv
  <1>1. PICK h \in executed - 1 .. executed : HeadAt(h) /\ Unread(h) /\ WaitsNear(h)
    BY Zenon DEF OffsetInv
  <1>2. rpc = "load" /\ batch = <<>> /\ Consumed = executed /\ h = executed
    <2>1. rpc = "load"
      BY Zenon DEF RingLoad
    <2>2. batch = <<>>
      BY <1>0, <2>1, Zenon DEF Offsets, Draining
    <2>3. Consumed = executed
      BY <1>0, <2>2, Counts DEF Consumed
    <2>. QED BY <1>1, <2>1, <2>2, <2>3, Zenon DEF HeadAt, HeadDue
  <1>3. UNCHANGED <<head, tail, buf, executed, published>> /\ PendingWaits' = PendingWaits
    <2>1. UNCHANGED <<head, tail, buf, executed, published, vq, mpc, mcmd>>
      BY Zenon DEF RingLoad
    <2>. QED BY <2>1, WaitsKept, Zenon
  <1>4. executed \in Nat /\ published \in Nat
    BY <1>0, Counts, Zenon
  <1> DEFINE n == published - executed
  <1>5. (tail - cur) % M = n /\ n \in 0 .. BufSize + 1
    <2>1. cur = head
      BY <1>0, <1>1, <1>2, Zenon DEF Offsets, HeadAt
    <2>. QED BY <1>0, <1>1, <1>2, <2>1, Gap, Zenon
  <1>6. CASE n \in 1..BufSize
    <2>1. batch' = read_buffer(n) /\ cur' = (cur + n) % M /\ rpc' \in {"fatal", "dispatch"}
      BY <1>5, <1>6, Zenon DEF RingLoad
    <2>2. n \in Nat
      BY <1>6, Sizes
    <2>3. Len(batch') = n /\ \A i \in 1..n : batch'[i] = buf[(cur + i - 1) % BufSize]
      BY <2>1, <2>2 DEF read_buffer
    <2>4. ASSUME NEW i \in 1..n PROVE batch'[i].ord = executed + i
      <3>1. i \in Int /\ i - 1 \in Int
        BY <2>2
      <3>2. cur = executed % M /\ executed % M \in Int
        BY <1>0, <1>2, <1>4, ModRange DEF Offsets
      <3>3. (cur + i - 1) % BufSize = (executed + (i - 1)) % BufSize
        <4>1. ((executed % M) + (i - 1)) % BufSize = (executed + (i - 1)) % BufSize
          BY <1>4, <3>1, SlotOf
        <4>2. cur + i - 1 = (executed % M) + (i - 1)
          BY <3>1, <3>2, Zenon
        <4>. QED BY <4>1, <4>2, Zenon
      <3>4. \A k \in executed + 1 .. published : buf[(k - 1) % BufSize].ord = k
        <4>1. published - h # BufSize + 1
          BY <1>2, <1>6, Sizes
        <4>. QED BY <1>1, <1>2, <4>1, Zenon DEF Unread
      <3>5. executed + i \in executed + 1 .. published /\ (executed + i) - 1 = executed + (i - 1)
        BY <1>4, <3>1
      <3>6. buf[((executed + i) - 1) % BufSize].ord = executed + i
        BY <3>4, <3>5, Zenon
      <3>. QED BY <2>3, <3>3, <3>5, <3>6, Zenon
    <2>5. Consumed' = published
      BY <1>3, <1>4, <2>2, <2>3 DEF Consumed
    <2>6. cur' = published % M
      <3>1. ((executed % M) + n) % M = (executed + n) % M
        <4>1. executed \in Int /\ n \in Int /\ M \in Nat \ {0}
          BY <1>4, <2>2, Sizes
        <4> HIDE DEF n
        <4>. QED BY <4>1, ModAdd, Zenon
      <3>2. executed + n = published /\ cur = executed % M
        BY <1>0, <1>2, <1>4 DEF Offsets
      <3>. QED BY <2>1, <3>1, <3>2, Zenon
    <2>7. Offsets'
      BY <1>0, <1>3, <1>4, <2>1, <2>3, <2>4, <2>5, <2>6 DEF Offsets, Draining
    <2>8. HeadAt(h)' /\ WaitsNear(h)'
      BY <1>1, <1>2, <1>3, Zenon DEF HeadAt, WaitsNear
    <2>9. Unread(h)'
      BY <1>2, <1>3, <1>4, <1>6, <2>5, Sizes DEF Unread
    <2>. QED BY <1>1, <1>3, <2>7, <2>8, <2>9, Zenon DEF OffsetInv
  <1>7. CASE n \notin 1..BufSize
    <2>1. UNCHANGED <<batch, cur>>
      BY <1>5, <1>7, Zenon DEF RingLoad
    <2>. QED BY <1>2, <1>3, <2>1, OffsetFrame, Zenon DEF HeadDue
  <1>. QED BY <1>6, <1>7, Zenon

\* vkr_ring_submit_cmd dispatches the next command in order.
LEMMA NextInOrder ==
    ASSUME TypeInv, OffsetInv, rpc \in {"dispatch", "vqSleep"}
    PROVE  /\ Head(batch).ord = executed + 1
           /\ Tail(batch) \in Seq(Cmd) /\ Len(Tail(batch)) = Len(batch) - 1
           /\ Len(batch) \in Nat \ {0}
           /\ \A i \in 1..Len(Tail(batch)) : Tail(batch)[i].ord = (executed + 1) + i
  <1>1. batch \in Seq(Cmd) /\ batch # <<>> /\ executed \in Nat
    BY Zenon DEF TypeInv, TypeOK, BatchLeft
  <1>2. /\ Len(batch) \in Nat \ {0} /\ Head(batch) = batch[1]
        /\ Tail(batch) \in Seq(Cmd) /\ Len(Tail(batch)) = Len(batch) - 1
        /\ \A i \in 1..Len(Tail(batch)) : Tail(batch)[i] = batch[i + 1]
    BY <1>1, HeadTailProperties, LenProperties
  <1>3. \A i \in 1..Len(batch) : batch[i].ord = executed + i
    BY Zenon DEF OffsetInv, Offsets
  <1>4. ASSUME NEW i \in 1..Len(Tail(batch)) PROVE Tail(batch)[i].ord = (executed + 1) + i
    <2>1. i + 1 \in 1..Len(batch) /\ i \in Int
      BY <1>2
    <2>2. batch[i + 1].ord = executed + (i + 1)
      BY <1>3, <2>1, Zenon
    <2>. QED BY <1>1, <1>2, <2>1, <2>2
  <1>. QED BY <1>2, <1>3, <1>4

LEMMA OffsetDispatch ==
    ASSUME TypeInv, OffsetInv, RingDispatch
    PROVE  OffsetInv'
  <1>. USE DEF shared, ring, ctx, thread, main, driver, Goto
  <1>0. TypeOK /\ Offsets /\ rpc \in {"dispatch", "vqSleep"}
    BY Zenon DEF TypeInv, OffsetInv, RingDispatch
  <1>1. PICK h \in executed - 1 .. executed : HeadAt(h) /\ Unread(h) /\ WaitsNear(h)
    BY Zenon DEF OffsetInv
  <1>2. UNCHANGED <<head, tail, buf, cur, published>> /\ PendingWaits' = PendingWaits
    <2>1. UNCHANGED <<head, tail, buf, cur, published, vq, mpc, mcmd>>
      BY Zenon DEF RingDispatch
    <2>. QED BY <2>1, WaitsKept, Zenon
  <1>3. CASE VqBlocked
    <2>1. rpc' = "vqSleep" /\ UNCHANGED <<batch, executed>>
      BY <1>3, Zenon DEF RingDispatch
    <2>. QED BY <1>0, <1>2, <2>1, OffsetFrame, Zenon DEF HeadDue, Draining
  <1>4. CASE ~VqBlocked
    <2>1. /\ executed' = executed + 1 /\ batch' = Tail(batch)
          /\ rpc' \in {"fatal", "storeHead"}
      BY <1>0, <1>4, NextInOrder, Zenon DEF RingDispatch
    <2>2. h = executed /\ executed \in Nat /\ published \in Nat
      BY <1>0, <1>1, Counts, Zenon DEF HeadAt, HeadDue
    <2>3. Len(batch) \in Nat \ {0} /\ Len(batch') = Len(batch) - 1
      BY <1>0, <2>1, NextInOrder, Zenon
    <2>4. Consumed' = Consumed
      BY <2>1, <2>2, <2>3 DEF Consumed
    <2>5. Offsets'
      <3>1. \A i \in 1..Len(batch') : batch'[i].ord = executed' + i
        BY <1>0, <2>1, NextInOrder, Zenon
      <3>. QED BY <1>0, <1>2, <2>1, <2>4, <3>1, Zenon DEF Offsets, Draining
    <2>6. HeadAt(h)' /\ WaitsNear(h)'
      BY <1>1, <1>2, <2>1, <2>2 DEF HeadAt, HeadDue, WaitsNear
    <2>7. Unread(h)'
      <3>1. batch # <<>>
        BY <1>0, Zenon DEF TypeInv, BatchLeft
      <3>. QED BY <1>1, <1>2, <2>4, <3>1, Zenon DEF Unread
    <2>8. h \in (executed - 1 .. executed)'
      BY <2>1, <2>2
    <2>. QED BY <2>5, <2>6, <2>7, <2>8, Zenon DEF OffsetInv
  <1>. QED BY <1>3, <1>4, Zenon

\* vkr_ring_store_head brings the head up to what was dispatched.
LEMMA OffsetStoreHead ==
    ASSUME TypeInv, OffsetInv, RingStoreHead
    PROVE  OffsetInv'
  <1>. USE DEF shared, ring, ctx, thread, main, driver, Goto
  <1>0. TypeOK /\ Offsets
    BY Zenon DEF TypeInv, OffsetInv
  <1>1. PICK h \in executed - 1 .. executed : HeadAt(h) /\ Unread(h) /\ WaitsNear(h)
    BY Zenon DEF OffsetInv
  <1>2. /\ UNCHANGED <<tail, buf, cur, batch, executed, published>>
        /\ PendingWaits' = PendingWaits /\ rpc' = "signal"
        /\ head' = (cur - Len(batch)) % M
    <2>1. UNCHANGED <<vq, mpc, mcmd>>
      BY Zenon DEF RingStoreHead
    <2>. QED BY <2>1, WaitsKept, Zenon DEF RingStoreHead
  <1>3. /\ executed \in Nat /\ published \in Nat /\ Len(batch) \in Nat
        /\ h \in Int /\ h <= executed
    BY <1>0, <1>1, Counts
  <1>4. head' = executed % M
    <2>1. cur = (executed + Len(batch)) % M /\ cur \in Int
      BY <1>0, Sizes DEF Offsets, Consumed, TypeOK
    <2>2. executed + Len(batch) \in Int /\ -Len(batch) \in Int
      BY <1>3
    <2>3. (((executed + Len(batch)) % M) + (-Len(batch))) % M
              = ((executed + Len(batch)) + (-Len(batch))) % M
      BY <2>2, Sizes, ModAdd, Zenon
    <2>4. cur - Len(batch) = cur + (-Len(batch))
      BY <1>3, <2>1, Zenon
    <2>5. (executed + Len(batch)) + (-Len(batch)) = executed
      BY <1>3
    <2>. QED BY <1>2, <2>1, <2>3, <2>4, <2>5, Zenon
  <1>5. Offsets'
    BY <1>0, <1>2, Zenon DEF Offsets, Consumed, Draining
  <1>6. HeadAt(executed)'
    BY <1>2, <1>4, Zenon DEF HeadAt
  <1>7. Unread(executed)'
    <2>1. CASE published - h <= BufSize
                /\ \A k \in Consumed + 1 .. published : buf[(k - 1) % BufSize].ord = k
      BY <1>2, <1>3, <2>1, Sizes DEF Unread, Consumed
    <2>2. CASE published - h = BufSize + 1 /\ executed = h /\ batch = <<>>
      BY <1>2, <2>2, Zenon DEF Unread, Consumed
    <2>. QED BY <1>1, <2>1, <2>2, Zenon DEF Unread
  <1>8. WaitsNear(executed)'
    <2>1. \A w \in PendingWaits : w \in Nat
      BY <1>0, WaitsAreNats, Zenon
    <2>. QED BY <1>1, <1>2, <1>3, <2>1, Sizes DEF WaitsNear
  <1>9. executed' \in (executed - 1 .. executed)'
    BY <1>2, <1>3
  <1>. QED BY <1>2, <1>5, <1>6, <1>7, <1>8, <1>9, Zenon DEF OffsetInv

\* The driver fills a slot the ring thread has copied: it never overwrites a
\* command that is still unread.
LEMMA OffsetPublish ==
    ASSUME TypeInv, OffsetInv, NEW v \in 0..vq_submitted, Publish(v)
    PROVE  OffsetInv'
  <1>. USE DEF shared, ring, ctx, thread, main, driver, Goto
  <1>0. TypeOK /\ Offsets
    BY Zenon DEF TypeInv, OffsetInv
  <1>1. PICK h \in executed - 1 .. executed : HeadAt(h) /\ Unread(h) /\ WaitsNear(h)
    BY Zenon DEF OffsetInv
  <1>2. /\ UNCHANGED <<head, cur, batch, executed, rpc>> /\ PendingWaits' = PendingWaits
        /\ published' = published + 1 /\ tail' = (tail + 1) % M
        /\ (tail - head) % M < BufSize
        /\ buf' = [buf EXCEPT ![tail % BufSize] = [ord |-> published + 1, vq |-> v]]
    <2>1. UNCHANGED <<vq, mpc, mcmd>>
      BY Zenon DEF Publish
    <2>. QED BY <2>1, WaitsKept, Zenon DEF Publish
  <1>3. /\ executed \in Nat /\ published \in Nat /\ Consumed \in Nat
        /\ executed <= Consumed /\ Consumed <= published
        /\ h \in Int /\ h <= executed
    BY <1>0, <1>1, Counts
  <1>4. published - h < BufSize
    BY <1>0, <1>1, <1>2, Gap, Zenon
  <1>5. Consumed' = Consumed
    BY <1>2, Zenon DEF Consumed
  <1>6. tail' = (published + 1) % M
    <2>1. ((published % M) + 1) % M = (published + 1) % M
      <3>1. published \in Int /\ 1 \in Int /\ M \in Nat \ {0}
        BY <1>3, Sizes
      <3>. QED BY <3>1, ModAdd, Zenon
    <2>. QED BY <1>0, <1>2, <2>1, Zenon DEF Offsets
  <1>7. Offsets'
    BY <1>0, <1>2, <1>3, <1>5, <1>6 DEF Offsets
  <1>8. HeadAt(h)' /\ WaitsNear(h)'
    BY <1>1, <1>2, Zenon DEF HeadAt, WaitsNear
  <1>9. Unread(h)'
    <2>1. \A k \in Consumed + 1 .. published : buf[(k - 1) % BufSize].ord = k
      BY <1>1, <1>3, <1>4, Sizes, SMTT(30) DEF Unread
    <2>2. tail % BufSize = published % BufSize
      <3>1. ((published % M) + 0) % BufSize = (published + 0) % BufSize
        BY <1>3, SlotOf
      <3>2. (published % M) + 0 = tail /\ published + 0 = published
        BY <1>0, <1>3 DEF Offsets, TypeOK
      <3>. QED BY <3>1, <3>2, Zenon
    <2>3. published % BufSize \in 0..BufSize-1
      BY <1>3, ModRange
    <2>4. ASSUME NEW k \in Consumed + 1 .. published + 1
          PROVE  buf'[(k - 1) % BufSize].ord = k
      <3>1. k \in Int /\ k - 1 \in Int /\ (k - 1) % BufSize \in 0..BufSize-1
        BY <1>3, ModRange
      <3>2. CASE k = published + 1
        <4>1. k - 1 = published
          BY <1>3, <3>2
        <4>2. buf'[published % BufSize] = [ord |-> published + 1, vq |-> v]
          BY <1>0, <1>2, <2>2, <2>3, Zenon DEF TypeOK
        <4>. QED BY <3>2, <4>1, <4>2
      <3>3. CASE k # published + 1
        <4>1. published - (k - 1) \in 1 .. BufSize - 1 /\ k \in Consumed + 1 .. published
          BY <1>3, <1>4, <3>1, <3>3, Sizes
        <4>2. published % BufSize # (k - 1) % BufSize
          BY <1>3, <3>1, <4>1, SlotsDiffer
        <4>3. buf'[(k - 1) % BufSize] = buf[(k - 1) % BufSize]
          BY <1>0, <1>2, <2>2, <3>1, <4>2, Zenon DEF TypeOK
        <4>. QED BY <2>1, <4>1, <4>3, Zenon
      <3>. QED BY <3>2, <3>3, Zenon
    <2>5. published' - h <= BufSize
      BY <1>2, <1>3, <1>4, Sizes
    <2>. QED BY <1>2, <1>5, <2>4, <2>5, Zenon DEF Unread
  <1>. QED BY <1>1, <1>2, <1>7, <1>8, <1>9, Zenon DEF OffsetInv

LEMMA OffsetPublishTooMuch ==
    ASSUME TypeInv, OffsetInv, PublishTooMuch
    PROVE  OffsetInv'
  <1>. USE DEF shared, ring, ctx, thread, main, driver, Goto
  <1>0. TypeOK /\ Offsets
    BY Zenon DEF TypeInv, OffsetInv
  <1>1. PICK h \in executed - 1 .. executed : HeadAt(h) /\ Unread(h) /\ WaitsNear(h)
    BY Zenon DEF OffsetInv
  <1>2. /\ UNCHANGED <<head, buf, cur, batch, executed, rpc>> /\ PendingWaits' = PendingWaits
        /\ published' = published + BufSize + 1 /\ tail' = (tail + BufSize + 1) % M
        /\ tail = head
    <2>1. UNCHANGED <<vq, mpc, mcmd>>
      BY Zenon DEF PublishTooMuch
    <2>. QED BY <2>1, WaitsKept, Zenon DEF PublishTooMuch
  <1>3. /\ executed \in Nat /\ published \in Nat /\ Len(batch) \in Nat
        /\ executed + Len(batch) <= published /\ h \in Int /\ h <= executed
    BY <1>0, <1>1, Counts DEF Consumed
  <1>4. published = h
    <2>1. tail - head = 0
      BY <1>0, <1>2 DEF TypeOK
    <2>2. 0 % M = 0
      BY Sizes, ModSmall
    <2>3. published - h = 0
      BY <1>0, <1>1, <2>1, <2>2, Gap, Zenon
    <2>. QED BY <1>3, <2>3
  <1>5. executed = h /\ batch = <<>>
    <2>1. executed = h /\ Len(batch) = 0
      BY <1>3, <1>4
    <2>. QED BY <1>0, <2>1, EmptySeq, Zenon DEF TypeOK
  <1>6. tail' = (published + BufSize + 1) % M
    <2>1. ((published % M) + (BufSize + 1)) % M = (published + (BufSize + 1)) % M
      <3>1. published \in Int /\ BufSize + 1 \in Int /\ M \in Nat \ {0}
        BY <1>3, Sizes
      <3>. QED BY <3>1, ModAdd, Zenon
    <2>2. tail \in Int /\ tail = published % M
      BY <1>0, Sizes DEF Offsets, TypeOK
    <2>3. tail + BufSize + 1 = tail + (BufSize + 1) /\ published + BufSize + 1 = published + (BufSize + 1)
      BY <1>3, <2>2, Sizes
    <2>. QED BY <1>2, <2>1, <2>2, <2>3, Zenon
  <1>7. Offsets'
    <2>1. Consumed' = Consumed /\ Consumed \in Nat /\ Consumed <= published
      BY <1>0, <1>2, Counts, Zenon DEF Consumed
    <2>2. Consumed <= published + BufSize + 1
      BY <1>3, <2>1, Sizes
    <2>. QED BY <1>0, <1>2, <1>6, <2>1, <2>2, Zenon DEF Offsets
  <1>8. HeadAt(h)' /\ WaitsNear(h)'
    BY <1>1, <1>2, Zenon DEF HeadAt, WaitsNear
  <1>9. Unread(h)'
    BY <1>2, <1>3, <1>4, <1>5, Sizes DEF Unread
  <1>. QED BY <1>1, <1>2, <1>7, <1>8, <1>9, Zenon DEF OffsetInv

\* The seqno a wait names is at most WaitBeyond past the tail.
LEMMA OffsetWaitRing ==
    ASSUME TypeInv, OffsetInv, NEW ord \in published..published + WaitBeyond,
           DriverWaitRing(ord)
    PROVE  OffsetInv'
  <1>. USE DEF shared, ring, ctx, thread, main, driver
  <1>0. TypeOK /\ Offsets
    BY Zenon DEF TypeInv, OffsetInv
  <1>1. PICK h \in executed - 1 .. executed : HeadAt(h) /\ Unread(h) /\ WaitsNear(h)
    BY Zenon DEF OffsetInv
  <1>2. /\ UNCHANGED <<head, tail, buf, cur, batch, executed, published, rpc, mpc, mcmd>>
        /\ (tail - head) % M <= BufSize /\ vq' = Append(vq, Msg("wait", ord))
    BY Zenon DEF DriverWaitRing
  <1>3. published \in Nat /\ h \in Int /\ published - h <= BufSize
    BY <1>0, <1>1, <1>2, Counts, Gap, Zenon
  <1>4. Msg("wait", ord) \in VqMsg /\ Msg("wait", ord).arg = ord /\ ord \in Nat
    BY <1>3, Sizes DEF Msg, VqMsg
  <1>5. \A w \in PendingWaits' : w \in PendingWaits \/ w = ord
    BY <1>0, <1>2, <1>4, WaitsSent, Zenon
  <1>6. WaitsNear(h)'
    <2>1. ord <= h + BufSize + WaitBeyond
      BY <1>3, <1>4, Sizes
    <2>. QED BY <1>1, <1>5, <2>1, Zenon DEF WaitsNear
  <1>7. Offsets' /\ HeadAt(h)' /\ Unread(h)'
    BY <1>0, <1>1, <1>2, Zenon DEF Offsets, HeadAt, Unread, Consumed
  <1>. QED BY <1>1, <1>2, <1>6, <1>7, Zenon DEF OffsetInv

-----------------------------------------------------------------------------
LEMMA OffsetInit == Init => OffsetInv
  <1>. SUFFICES ASSUME Init PROVE OffsetInv
    OBVIOUS
  <1>1. 0 % M = 0 /\ Len(<< >>) = 0 /\ 0 <= BufSize
    BY Sizes, ModSmall
  <1>2. /\ head = 0 /\ tail = 0 /\ cur = 0 /\ batch = <<>> /\ executed = 0 /\ published = 0
        /\ vq = <<>> /\ mpc = "idle"
    BY Zenon DEF Init
  <1>3. Consumed = 0
    BY <1>1, <1>2 DEF Consumed
  <1>4. Offsets
    BY <1>1, <1>2, <1>3 DEF Offsets
  <1>5. HeadAt(0) /\ Unread(0)
    BY <1>1, <1>2, <1>3 DEF HeadAt, Unread
  <1>6. PendingWaits = {}
    BY <1>2 DEF PendingWaits
  <1>. QED BY <1>2, <1>4, <1>5, <1>6 DEF OffsetInv, WaitsNear

\* Every step of the ring thread, the context thread, the host and the driver
\* keeps the offsets, the batch and the slots in step.
LEMMA OffsetNext == TypeInv /\ OffsetInv /\ [Next]_vars => OffsetInv'
  <1>. SUFFICES ASSUME TypeInv, OffsetInv, [Next]_vars PROVE OffsetInv'
    OBVIOUS
  <1>. USE DEF shared, ring, ctx, thread, main, driver, Goto
  <1> DEFINE Still == UNCHANGED <<head, tail, buf, cur, batch, executed, published>>
  <1>0. TypeOK /\ (rpc \notin Draining => batch = <<>>)
    BY Zenon DEF TypeInv, OffsetInv, Offsets
  <1>1. ASSUME Still, UNCHANGED <<vq, mpc, mcmd>>,
               \/ rpc \notin Draining
               \/ rpc' \in Draining /\ (rpc \in HeadDue => rpc' \in HeadDue)
        PROVE  OffsetInv'
    <2>1. \A w \in PendingWaits' : w \in PendingWaits
      BY <1>1, WaitsKept, Zenon
    <2>. QED BY <1>0, <1>1, <2>1, OffsetFrame, Zenon DEF Draining, HeadDue
  <1>2. ASSUME Still, UNCHANGED rpc, vq # <<>>, vq' = Tail(vq), mpc = "idle",
               \/ mpc' \notin {"register", "waiting"}
               \/ Head(vq).op = "wait" /\ mcmd' = Head(vq)
        PROVE  OffsetInv'
    <2>1. \A w \in PendingWaits' : w \in PendingWaits
      BY <1>0, <1>2, WaitsTaken, Zenon
    <2>. QED BY <1>0, <1>2, <2>1, OffsetFrame, Zenon
  <1>3. ASSUME Still, UNCHANGED <<rpc, mpc, mcmd>>,
               NEW m \in VqMsg, m.op # "wait", vq' = Append(vq, m)
        PROVE  OffsetInv'
    <2>1. \A w \in PendingWaits' : w \in PendingWaits
      BY <1>0, <1>3, WaitsSent, Zenon
    <2>. QED BY <1>0, <1>3, <2>1, OffsetFrame, Zenon
  <1>4. ASSUME Still, UNCHANGED <<rpc, vq, mcmd>>,
               mpc' \in {"register", "waiting"} => mpc \in {"register", "waiting"}
        PROVE  OffsetInv'
    <2>1. \A w \in PendingWaits' : w \in PendingWaits
      BY <1>4, Zenon DEF PendingWaits
    <2>. QED BY <1>0, <1>4, <2>1, OffsetFrame, Zenon
  <1>5. CASE RingTop \/ RingArm \/ RingSetIdle \/ RingCheckTail \/ RingClearIdle
    BY <1>1, <1>5, Zenon DEF RingTop, RingArm, RingSetIdle, RingCheckTail, RingClearIdle, Draining
  <1>6. CASE RingIdleWait \/ RingUnlock \/ RingWaitCheck \/ RingWaitTail
    BY <1>1, <1>6, Zenon DEF RingIdleWait, RingUnlock, RingWaitCheck, RingWaitTail, Draining
  <1>7. CASE RingSignal
    <2>1. CASE batch = <<>>
      <3>1. \A w \in PendingWaits' : w \in PendingWaits
        BY <1>7, WaitsKept, Zenon DEF RingSignal
      <3>. QED BY <1>7, <2>1, <3>1, OffsetFrame, Zenon DEF RingSignal, HeadDue
    <2>2. CASE batch # <<>>
      BY <1>1, <1>7, <2>2, Zenon DEF RingSignal, Draining, HeadDue
    <2>. QED BY <2>1, <2>2, Zenon
  <1>8. CASE RingFatal \/ RingFatalSignal
    BY <1>1, <1>8, Zenon DEF RingFatal, RingFatalSignal, Draining, HeadDue
  <1>9. CASE RingLoad
    BY <1>9, OffsetLoad, Zenon
  <1>10. CASE RingDispatch
    BY <1>10, OffsetDispatch, Zenon
  <1>11. CASE RingStoreHead
    BY <1>11, OffsetStoreHead, Zenon
  <1>12. CASE MainDrop
    BY <1>2, <1>12, Zenon DEF MainDrop
  <1>12a. CASE MainFail
    BY <1>2, <1>12a, Zenon DEF MainFail, Dispatch
  <1>13. CASE MainNotify
    BY <1>2, <1>13, Zenon DEF MainNotify, Dispatch
  <1>14. CASE MainSubmitVq
    BY <1>2, <1>14, Zenon DEF MainSubmitVq, Dispatch
  <1>15. CASE MainWaitRing
    BY <1>2, <1>15, Zenon DEF MainWaitRing, Dispatch
  <1>16. CASE MainDestroyRing
    BY <1>2, <1>16, Zenon DEF MainDestroyRing, Dispatch, Stop
  <1>17. CASE MainWait
    BY <1>4, <1>17, Zenon DEF MainWait
  <1>18. CASE MainJoin
    BY <1>4, <1>18, Zenon DEF MainJoin
  <1>19. CASE HostDestroyContext
    BY <1>4, <1>19, Zenon DEF HostDestroyContext, Stop
  <1>20. CASE \E v \in 0..vq_submitted : Publish(v)
    BY <1>20, OffsetPublish, Zenon
  <1>21. CASE PublishTooMuch
    BY <1>21, OffsetPublishTooMuch, Zenon
  <1>22. CASE DriverCheckStatus
    <2>1. Msg("notify", 0) \in VqMsg /\ Msg("notify", 0).op # "wait"
      BY Zenon DEF Msg, VqMsg
    <2>2. CASE idle
      BY <1>3, <1>22, <2>1, <2>2, Zenon DEF DriverCheckStatus
    <2>3. CASE ~idle
      BY <1>4, <1>22, <2>3, Zenon DEF DriverCheckStatus
    <2>. QED BY <2>2, <2>3, Zenon
  <1>23. CASE DriverSubmitVq
    <2>1. Msg("submit", vq_submitted + 1) \in VqMsg /\ Msg("submit", vq_submitted + 1).op # "wait"
      BY <1>0 DEF Msg, VqMsg, TypeOK
    <2>. QED BY <1>3, <1>23, <2>1, Zenon DEF DriverSubmitVq
  <1>24. CASE \E ord \in published..published + WaitBeyond : DriverWaitRing(ord)
    BY <1>24, OffsetWaitRing, Zenon
  <1>25. CASE DriverDestroyRing
    <2>1. Msg("destroy", 0) \in VqMsg /\ Msg("destroy", 0).op # "wait"
      BY Zenon DEF Msg, VqMsg
    <2>. QED BY <1>3, <1>25, <2>1, Zenon DEF DriverDestroyRing
  <1>26. CASE UNCHANGED vars
    BY <1>4, <1>26, Zenon DEF vars
  <1>. QED
    BY <1>5, <1>6, <1>7, <1>8, <1>9, <1>10, <1>11, <1>12, <1>12a, <1>13, <1>14, <1>15, <1>16,
       <1>17, <1>18, <1>19, <1>20, <1>21, <1>22, <1>23, <1>24, <1>25, <1>26, Zenon
    DEF Next, RingThread, ContextThread, Driver

LEMMA OffsetAlways == Spec => [](TypeInv /\ OffsetInv)
  <1>. QED BY TypeInit, TypeNext, OffsetInit, OffsetNext, PTL DEF Spec

\* The head the driver and the waiting context thread read is the number of
\* commands dispatched, or lacks the one whose vkr_ring_store_head is due: it
\* never runs ahead, for every buffer size and however often offsets wrap.
THEOREM HeadNeverAhead == Spec => []HeadIsExecuted
  <1>1. OffsetInv => HeadIsExecuted
    BY Zenon DEF OffsetInv, HeadAt, HeadDue, HeadIsExecuted
  <1>. QED BY <1>1, OffsetAlways, PTL

LEMMA DispatchStep ==
    ASSUME TypeInv, OffsetInv, [Next]_vars
    PROVE  [executed' \in {executed, executed + 1}]_vars
  <1>. USE DEF shared, ring, ctx, thread, main, driver
  <1>1. CASE RingDispatch
    BY <1>1, NextInOrder, Zenon DEF RingDispatch
  <1>2. CASE RingThread /\ ~RingDispatch
    BY <1>2, Zenon DEF RingThread, RingTop, RingArm, RingSetIdle, RingCheckTail, RingClearIdle,
        RingIdleWait, RingUnlock, RingLoad, RingStoreHead, RingSignal, RingWaitCheck,
        RingWaitTail, RingFatal, RingFatalSignal
  <1>3. CASE ContextThread \/ HostDestroyContext
    BY <1>3, Zenon DEF ContextThread, HostDestroyContext, MainDrop, MainFail, MainNotify,
        MainSubmitVq, Dispatch,
        MainWaitRing, MainWait, MainDestroyRing, MainJoin, Stop
  <1>4. CASE Driver
    BY <1>4, Zenon DEF Driver, Publish, PublishTooMuch, DriverCheckStatus, DriverSubmitVq,
        DriverWaitRing, DriverDestroyRing
  <1>. QED BY <1>1, <1>2, <1>3, <1>4, Zenon DEF Next

\* vkr_ring_thread dispatches every command once and in the order the driver
\* published it: no slot is overwritten before vkr_ring_read_buffer copied it,
\* and none is read twice, also when a driver stores a tail it must not.
THEOREM DispatchesInOrder == Spec => DispatchInOrder
  <1>1. TypeInv /\ OffsetInv /\ [Next]_vars => [executed' \in {executed, executed + 1}]_vars
    BY DispatchStep, Zenon
  <1>. QED BY <1>1, OffsetAlways, PTL DEF Spec, DispatchInOrder

\* vkr_seqno_ge is not fooled by a seqno up to half the range ahead.
LEMMA AheadNotReached ==
    ASSUME NEW h \in Int, NEW w \in Int, w - h \in 1 .. M \div 2
    PROVE  ~seqno_ge(h % M, w % M)
  <1>1. M \in Nat \ {0} /\ M \div 2 \in Int /\ M = 2 * (M \div 2)
    BY RingConstants
  <1> DEFINE b == M - (w - h)
  <1>2. b \in 0 .. M - 1 /\ M \div 2 <= b
    BY <1>1
  <1>3. h - w = M * (-1) + b /\ h - w \in Int
    BY <1>1
  <1> HIDE DEF b
  <1>4. (h - w) % M = b
    BY <1>1, <1>2, <1>3, ModUnique
  <1>5. ((h % M) - (w % M)) % M = b
    BY <1>1, <1>4, ModSub, Zenon
  <1>. QED BY <1>1, <1>2, <1>5 DEF seqno_ge

LEMMA WaitStep ==
    ASSUME BufSize + WaitBeyond <= M \div 2, TypeInv, OffsetInv, [Next]_vars,
           mpc \in {"register", "waiting"}, mpc' = "idle", ~cs_fatal_error
    PROVE  executed >= mcmd.arg
  <1>. USE DEF shared, ring, ctx, thread, main, driver
  <1>1. MainWait
    <2>1. ~RingThread /\ ~UNCHANGED vars
      BY Zenon DEF RingThread, RingTop, RingArm, RingSetIdle, RingCheckTail, RingClearIdle,
          RingIdleWait, RingUnlock, RingLoad, RingDispatch, RingStoreHead, RingSignal,
          RingWaitCheck, RingWaitTail, RingFatal, RingFatalSignal, vars
    <2>2. ~HostDestroyContext /\ ~Driver
      BY Zenon DEF HostDestroyContext, Driver, Publish, PublishTooMuch, DriverCheckStatus,
          DriverSubmitVq, DriverWaitRing, DriverDestroyRing
    <2>. QED BY <2>1, <2>2, Zenon DEF Next, ContextThread, MainDrop, MainFail, MainNotify,
          MainSubmitVq,
          MainWaitRing, MainDestroyRing, MainJoin, Dispatch
  <1>2. seqno_ge(head, mcmd.arg % M)
    BY <1>1, Zenon DEF MainWait, WaitSatisfied
  <1>3. PICK h \in executed - 1 .. executed : HeadAt(h) /\ WaitsNear(h)
    BY Zenon DEF OffsetInv
  <1>4. mcmd.arg \in Nat /\ executed \in Nat /\ h \in Int /\ h <= executed
    BY DEF TypeInv, TypeOK, VqMsg
  <1>5. mcmd.arg <= h + BufSize + WaitBeyond
    BY <1>3, Zenon DEF WaitsNear, PendingWaits
  <1>6. ASSUME mcmd.arg > h PROVE FALSE
    <2>1. mcmd.arg - h \in 1 .. M \div 2
      BY <1>4, <1>5, <1>6, Sizes
    <2>2. ~seqno_ge(h % M, mcmd.arg % M)
      BY <1>4, <2>1, AheadNotReached
    <2>. QED BY <1>2, <1>3, <2>2, Zenon DEF HeadAt
  <1>. QED BY <1>4, <1>6

\* A valid driver meets the assumption of the theorem below.
LEMMA ValidDriver == WaitBeyond = 0 => BufSize + WaitBeyond <= M \div 2
  BY RingConstants

\* vkr_context_wait_ring_seqno returns without an error only when the command
\* it was asked for has been dispatched, whatever happens meanwhile.  A valid
\* driver asks for nothing past its tail (WaitBeyond = 0, where the assumption
\* follows from the size of the buffer); an invalid one is believed as long as
\* what it asks for is less than half of the seqnos ahead.
THEOREM WaitRingIsSound ==
    ASSUME BufSize + WaitBeyond <= M \div 2
    PROVE  Spec => WaitRingSound
  <1>1. TypeInv /\ OffsetInv /\ [Next]_vars
          => [(mpc \in {"register", "waiting"} /\ mpc' = "idle" /\ ~cs_fatal_error)
                  => (executed >= mcmd.arg)]_vars
    BY WaitStep, Zenon
  <1>. QED BY <1>1, OffsetAlways, PTL DEF Spec, WaitRingSound

=============================================================================
