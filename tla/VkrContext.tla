----------------------------- MODULE VkrContext -----------------------------
(***************************************************************************)
(* The in-process venus back end: contexts of the core behind              *)
(* vkr_virgl_adapter.c, the resource table of a vkr_context, the list of   *)
(* rings, the ring monitor, and the threads that meet them.                *)
(*                                                                         *)
(* The VMM calls from one thread; cmd is where it is in a call that waits. *)
(* What a ring thread does with its commands is in VkrRing, and what a     *)
(* sync thread waits for in VkrQueue; here they use memory and callbacks   *)
(* that the VMM's thread takes away.  Where transport memory comes from is *)
(* in VkrShmPool.  Assertions are off, as in the default build.            *)
(*                                                                         *)
(* Commands of a context that come in the VMM's own calls are decoded and  *)
(* answered within them, so ctx->decoder and ctx->encoder are never in use *)
(* when a resource is destroyed; they are left out.                        *)
(***************************************************************************)
EXTENDS Integers, Sequences, FiniteSets

CONSTANTS
    Ctxs,      \* context ids
    Res,       \* resource ids, not 0
    MaxRings,  \* bound on the rings of a context
    MaxStreams \* bound on the streams they have set

ASSUME ContextConstants == 0 \notin Res /\ MaxRings \in Nat /\ MaxStreams \in Nat

VARIABLES
    cmd,       \* the VMM's thread
    core,      \* fd type of the resources of the core, "" for none
    adapters,  \* contexts the core and vkr_adapter_table list
    freed,     \* contexts that are not, or no longer, allocated
    known,     \* known_res
    table,     \* resource_table
    rings,     \* ctx->rings: a ring's memory, the streams of its encoder and of
               \* its decoder, and its thread
    fatal,     \* cs_fatal_error
    monitor,   \* ring_monitor.started and its thread
    sync       \* a queue's sync thread, in vkr_adapter_retire_fence

objects == <<core, adapters, freed, known, table, fatal>>
threads == <<monitor, sync>>
vars    == <<cmd, objects, rings, threads>>

Idle == [op |-> "idle", ctx |-> 0, res |-> 0, ring |-> 0, rest |-> {}]
NoMonitor == [started |-> FALSE, pc |-> "none"]

\* A thread that does not exist was joined, and the process is gone.
Crashed == cmd.op \in {"no_ring", "no_monitor"}

\* The shape of the state.
TypeOK ==
    /\ cmd \in [op : {"idle", "ring_join", "detach", "detach_join", "monitor",
                      "monitor_join", "rings", "rings_join", "instance", "resources",
                      "no_ring", "no_monitor"},
                ctx : Ctxs \cup {0}, res : Res \cup {0}, ring : 0..MaxRings,
                rest : SUBSET Ctxs]
    /\ core \in [Res -> {"", "shm", "dmabuf"}]
    /\ adapters \subseteq Ctxs /\ freed \subseteq Ctxs
    /\ known \in [Ctxs -> SUBSET Res]
    /\ table \in [Ctxs -> [Res -> {"", "shm", "dmabuf"}]]
    /\ rings \in [Ctxs -> Seq([res : Res \cup {0}, reply : Res \cup {0},
                               busy : BOOLEAN, exec : Res \cup {0}, started : BOOLEAN,
                               thread : {"none", "run", "done", "joined"}])]
    /\ fatal \subseteq Ctxs
    /\ monitor \in [Ctxs -> [started : BOOLEAN,
                             pc : {"none", "never", "top", "lock", "wait", "done"}]]
    /\ sync \in [Ctxs -> {"idle", "found"}]

Init ==
    /\ cmd = Idle /\ core = [r \in Res |-> ""]
    /\ adapters = {} /\ freed = Ctxs /\ fatal = {}
    /\ known = [c \in Ctxs |-> {}] /\ table = [c \in Ctxs |-> [r \in Res |-> ""]]
    /\ rings = [c \in Ctxs |-> <<>>] /\ monitor = [c \in Ctxs |-> NoMonitor]
    /\ sync = [c \in Ctxs |-> "idle"]

-----------------------------------------------------------------------------
(***************************************************************************)
(* Contexts and resources                                                  *)
(***************************************************************************)
\* virgl_renderer_context_create_with_flags, down to vkr_context_create
ContextCreate(c) ==
    /\ cmd = Idle /\ c \notin adapters
    /\ adapters' = adapters \cup {c} /\ freed' = freed \ {c}
    /\ UNCHANGED <<cmd, core, known, table, fatal, rings, threads>>

\* The rings of a list whose resource, or a stream's, was r keep memory that no
\* table names.
Orphaned(gs, r) ==
    [i \in DOMAIN gs |-> [gs[i] EXCEPT !.res   = IF @ = r THEN 0 ELSE @,
                                       !.reply = IF @ = r THEN 0 ELSE @,
                                       !.exec  = IF @ = r THEN 0 ELSE @]]

\* vkr_context_add_resource.  An entry that is there already, which an assertion
\* denies, is replaced: nothing frees it, and rings that use it keep it.
AddResource(c, r, e) ==
    /\ table' = [table EXCEPT ![c][r] = e]
    /\ rings' = [rings EXCEPT ![c] = Orphaned(@, r)]

\* Mutant: known_add before the outcome is known.
Refused_Known(c, r) == known' = [known EXCEPT ![c] = @ \cup {r}] /\ UNCHANGED <<table, rings>>

\* get_blob fails and the context has nothing new.
Refused(c, r) == UNCHANGED <<known, table, rings>>

\* vkr_adapter_get_blob has made an entry; the core may have no memory for its
\* own resource, and leaves the context's alone.
Made(c, r, type) ==
    /\ AddResource(c, r, type)
    /\ known' = [known EXCEPT ![c] = @ \cup {r}]
    /\ \/ core' = [core EXCEPT ![r] = type]
       \/ UNCHANGED core

\* virgl_renderer_resource_create_blob: a dmabuf for device memory or the guest's
\* pages, parked before by set_guest_blob_fd, and shm for memory of the transport,
\* a slice of the pool or a memfd.
CreateBlob(c, r, type) ==
    /\ cmd = Idle /\ c \in adapters /\ core[r] = ""
    /\ \/ Made(c, r, type)
       \/ Refused(c, r) /\ UNCHANGED core
    /\ UNCHANGED <<cmd, adapters, freed, fatal, threads>>

\* vkr_adapter_attach_resource, of what get_blob did not file or what was
\* detached; shared memory is mapped anew.
AttachResource(c, r) ==
    /\ cmd = Idle /\ c \in adapters /\ core[r] # "" /\ r \notin known[c]
    /\ AddResource(c, r, core[r])
    /\ known' = [known EXCEPT ![c] = @ \cup {r}]
    /\ UNCHANGED <<cmd, core, adapters, freed, fatal, threads>>

\* virgl_renderer_resource_import_blob, of a buffer made elsewhere.
ImportBlob(r, type) ==
    /\ cmd = Idle /\ core[r] = ""
    /\ core' = [core EXCEPT ![r] = type]
    /\ UNCHANGED <<cmd, adapters, freed, known, table, fatal, rings, threads>>

Detaching(cs, r, op) ==
    \E c \in cs : cmd' = [Idle EXCEPT !.op = op, !.ctx = c, !.res = r, !.rest = cs \ {c}]

\* virgl_renderer_ctx_detach_resource
DetachResource(c, r) ==
    /\ cmd = Idle /\ c \in adapters /\ core[r] # "" /\ r \in known[c]
    /\ Detaching({c}, r, "detach")
    /\ UNCHANGED <<objects, rings, threads>>

\* virgl_renderer_resource_unref, which every context that knows it detaches
ResourceUnref(r) ==
    /\ cmd = Idle /\ core[r] # ""
    /\ core' = [core EXCEPT ![r] = ""]
    /\ LET cs == {c \in adapters : r \in known[c]}
       IN IF cs = {} THEN UNCHANGED cmd ELSE Detaching(cs, r, "detach")
    /\ UNCHANGED <<adapters, freed, known, table, fatal, rings, threads>>

-----------------------------------------------------------------------------
(***************************************************************************)
(* Rings, as the VMM's thread makes and stops them                         *)
(***************************************************************************)
\* vkCreateRingMESA without shared memory of the right layout or without memory,
\* and any other command that fails.
CreateRingRefused(c) ==
    /\ cmd = Idle /\ c \in adapters \ fatal
    /\ fatal' = fatal \cup {c}
    /\ UNCHANGED <<cmd, core, adapters, freed, known, table, rings, threads>>

\* vkCreateRingMESA lists the ring before anything below can fail.
ListRing(c, r, run) ==
    /\ cmd = Idle /\ c \in adapters \ fatal
    /\ table[c][r] = "shm" /\ Len(rings[c]) < MaxRings
    /\ rings' = [rings EXCEPT ![c] = Append(@,
                    [res |-> r, reply |-> 0, busy |-> FALSE, exec |-> 0,
                     started |-> run, thread |-> IF run THEN "run" ELSE "none"])]
    /\ UNCHANGED <<cmd, core, adapters, freed, known, table, sync>>

\* The ring asks to be monitored, or not; the first that does starts the thread.
StartMonitor(c) ==
    \/ UNCHANGED monitor
    \/ /\ ~monitor[c].started
       /\ monitor' = [monitor EXCEPT ![c] = [started |-> TRUE, pc |-> "top"]]

\* vkCreateRingMESA to its end.
CreateRing(c, r) ==
    /\ ListRing(c, r, TRUE)
    /\ StartMonitor(c)
    /\ UNCHANGED fatal

\* vkr_ring_start finds no thread and tells nobody.
CreateRingNoThread(c, r) ==
    /\ ListRing(c, r, FALSE)
    /\ StartMonitor(c)
    /\ UNCHANGED fatal

\* The period is 0, or vkr_context_ring_monitor_init fails: before started is
\* set, or for want of a thread, when it stays set.
CreateRingNoMonitor(c, r) ==
    /\ ListRing(c, r, FALSE)
    /\ \/ UNCHANGED monitor
       \/ /\ ~monitor[c].started
          /\ monitor' = [monitor EXCEPT ![c] = [started |-> TRUE, pc |-> "never"]]
    /\ fatal' = fatal \cup {c}

\* vkr_ring_stop up to the join.
Stop(c, i) == rings' = [rings EXCEPT ![c][i].started = FALSE]

\* Mutant: the ring stays in the list.
Joined_KeepListed(c, i) ==
    /\ rings[c][i].thread # "run"
    /\ rings' = [rings EXCEPT ![c][i].thread = "joined"]

\* list_del
Unlinked(gs, i) == SubSeq(gs, 1, i - 1) \o SubSeq(gs, i + 1, Len(gs))

\* vkr_ring_stop from the join, and vkr_ring_destroy.
Joined(c, i) ==
    /\ rings[c][i].thread # "run"
    /\ rings' = [rings EXCEPT ![c] = Unlinked(@, i)]

\* There is no thread to join: undefined, so the process may be gone.
JoinCrashes(c, i) ==
    /\ rings[c][i].thread \in {"none", "joined"}
    /\ cmd' = [cmd EXCEPT !.op = "no_ring"]
    /\ UNCHANGED rings

\* The two outcomes of a join; the call goes on at next.
Join(c, i, next) == (Joined(c, i) /\ cmd' = next) \/ JoinCrashes(c, i)

\* vkDestroyRingMESA
DestroyRing(c, i) ==
    /\ cmd = Idle /\ c \in adapters \ fatal
    /\ Stop(c, i)
    /\ cmd' = [Idle EXCEPT !.op = "ring_join", !.ctx = c, !.ring = i]
    /\ UNCHANGED <<objects, threads>>

DestroyRingEnd ==
    /\ cmd.op = "ring_join"
    /\ Join(cmd.ctx, cmd.ring, Idle)
    /\ UNCHANGED <<objects, threads>>

\* Mutant: encoders keep their reply stream.
Unset_Keep(gs, r, n) == gs

\* vkr_cs_encoder_check_stream, for the first n rings of a list: a reply stream
\* that is not being written to is taken away.
Unset(gs, r, n) ==
    [i \in DOMAIN gs |->
        [gs[i] EXCEPT !.reply = IF @ = r /\ i <= n /\ ~gs[i].busy THEN 0 ELSE @]]

\* Mutant: only the ring's own memory is looked at.
Uses_OnlyRing(g, r) == g.res = r

\* The ring lies in r, or its thread decodes from it or writes a reply to it.
Uses(g, r) == g.res = r \/ g.exec = r \/ (g.reply = r /\ g.busy)

\* vkr_context_destroy_resource gets to a ring that uses the resource, past those
\* that do not, and stops it.  The driver does not name the resource anew, so the
\* rings may be looked at in one step.
DestroyResourceStop ==
    /\ cmd.op = "detach"
    /\ LET c == cmd.ctx
       IN \E i \in DOMAIN rings[c] :
              /\ Uses(rings[c][i], cmd.res)
              /\ \A j \in 1..i-1 : ~Uses(rings[c][j], cmd.res)
              /\ rings' = [rings EXCEPT ![c] =
                    [Unset(@, cmd.res, i - 1) EXCEPT ![i].started = FALSE]]
              /\ cmd' = [cmd EXCEPT !.op = "detach_join", !.ring = i]
    /\ fatal' = fatal \cup {cmd.ctx}
    /\ UNCHANGED <<core, adapters, freed, known, table, threads>>

DestroyResourceJoin ==
    /\ cmd.op = "detach_join"
    /\ Join(cmd.ctx, cmd.ring, [cmd EXCEPT !.op = "detach", !.ring = 0])
    /\ UNCHANGED <<objects, threads>>

\* No ring uses it any more: the resource goes, and with it what the adapter knows.
DestroyResource ==
    /\ cmd.op = "detach"
    /\ LET c == cmd.ctx
           r == cmd.res
       IN /\ \A i \in DOMAIN rings[c] : ~Uses(rings[c][i], r)
          /\ rings' = [rings EXCEPT ![c] = Unset(@, r, Len(@))]
          /\ table' = [table EXCEPT ![c][r] = ""]
          /\ known' = [known EXCEPT ![c] = @ \ {r}]
          /\ IF cmd.rest = {} THEN cmd' = Idle ELSE Detaching(cmd.rest, r, "detach")
    /\ UNCHANGED <<core, adapters, freed, fatal, threads>>

-----------------------------------------------------------------------------
(***************************************************************************)
(* Destruction of a context                                                *)
(***************************************************************************)
Go(op) == cmd' = [cmd EXCEPT !.op = op, !.ring = 0]

\* virgl_context_remove and the start of vkr_adapter_destroy
ContextDestroy(c) ==
    /\ cmd = Idle /\ c \in adapters
    /\ adapters' = adapters \ {c}
    /\ cmd' = [Idle EXCEPT !.op = "monitor", !.ctx = c]
    /\ UNCHANGED <<core, freed, known, table, fatal, rings, threads>>

\* vkr_context_ring_monitor_fini, if the monitor is started
MonitorFini ==
    /\ cmd.op = "monitor"
    /\ LET m == monitor[cmd.ctx]
       IN \/ ~m.started /\ Go("rings") /\ UNCHANGED monitor
          \/ /\ m.started /\ Go("monitor_join")
             /\ monitor' = [monitor EXCEPT ![cmd.ctx] =
                   [started |-> FALSE, pc |-> IF m.pc = "wait" THEN "top" ELSE m.pc]]
    /\ UNCHANGED <<objects, rings, sync>>

\* Mutant: the monitor is told to stop and not waited for.
MonitorJoin_No ==
    /\ cmd.op = "monitor_join"
    /\ Go("rings")
    /\ UNCHANGED <<objects, rings, threads>>

\* The rest of vkr_context_ring_monitor_fini.
MonitorJoin ==
    /\ cmd.op = "monitor_join"
    /\ \/ /\ monitor[cmd.ctx].pc \in {"done", "none", "never"}
          /\ monitor' = [monitor EXCEPT ![cmd.ctx] = NoMonitor]
          /\ Go("rings")
       \/ /\ monitor[cmd.ctx].pc \in {"none", "never"}
          /\ Go("no_monitor") /\ UNCHANGED monitor
    /\ UNCHANGED <<objects, rings, sync>>

\* Every ring is stopped and destroyed, then ring_mutex.
RingsStop ==
    /\ cmd.op = "rings"
    /\ \/ rings[cmd.ctx] = <<>> /\ Go("instance") /\ UNCHANGED rings
       \/ /\ rings[cmd.ctx] # <<>>
          /\ Stop(cmd.ctx, 1)
          /\ cmd' = [cmd EXCEPT !.op = "rings_join", !.ring = 1]
    /\ UNCHANGED <<objects, threads>>

RingsJoin ==
    /\ cmd.op = "rings_join"
    /\ Join(cmd.ctx, 1, [cmd EXCEPT !.op = "rings", !.ring = 0])
    /\ UNCHANGED <<objects, threads>>

\* vkr_instance_destroy ends the sync threads of its queues.
InstanceDestroy ==
    /\ cmd.op = "instance" /\ sync[cmd.ctx] # "found"
    /\ Go("resources")
    /\ UNCHANGED <<objects, rings, threads>>

\* The resource table goes entry by entry.
TableDestroy(r) ==
    /\ cmd.op = "resources" /\ table[cmd.ctx][r] # ""
    /\ table' = [table EXCEPT ![cmd.ctx][r] = ""]
    /\ UNCHANGED <<cmd, core, adapters, freed, known, fatal, rings, threads>>

\* The end of vkr_context_destroy and vkr_adapter_destroy.
ContextFree ==
    /\ cmd.op = "resources" /\ \A r \in Res : table[cmd.ctx][r] = ""
    /\ freed' = freed \cup {cmd.ctx}
    /\ known' = [known EXCEPT ![cmd.ctx] = {}]
    /\ fatal' = fatal \ {cmd.ctx}
    /\ cmd' = Idle
    /\ UNCHANGED <<core, adapters, table, rings, threads>>

-----------------------------------------------------------------------------
(***************************************************************************)
(* Ring threads, the monitor, and the sync threads of queues               *)
(***************************************************************************)
\* The thread of a ring makes g of it.
RingSteps(c, i, g) ==
    /\ ~Crashed /\ rings[c][i].thread = "run"
    /\ rings' = [rings EXCEPT ![c][i] = g]
    /\ UNCHANGED <<cmd, core, adapters, freed, known, table, threads>>

\* The streams of a list of rings.
Streams(gs) == {i \in DOMAIN gs : gs[i].reply # 0} \X {"reply"}
          \cup {i \in DOMAIN gs : gs[i].exec # 0} \X {"exec"}

\* The thread sets a stream of shared memory.  The driver does not name a resource
\* that it is destroying.
RingSetsStream(c, i, r, g) ==
    /\ ~rings[c][i].busy /\ table[c][r] = "shm" /\ cmd.res # r
    /\ RingSteps(c, i, g)
    /\ Cardinality(Streams(rings'[c])) <= MaxStreams
    /\ UNCHANGED fatal

\* vkSetReplyCommandStreamMESA on a ring.
RingSetReply(c, i, r) == RingSetsStream(c, i, r, [rings[c][i] EXCEPT !.reply = r])

\* vkExecuteCommandStreamsMESA on a ring decodes from its first, or next, stream.
RingExecute(c, i, r) == RingSetsStream(c, i, r, [rings[c][i] EXCEPT !.exec = r])

\* vkr_cs_decoder_restore_state, after the last.
RingExecuteEnd(c, i) ==
    /\ rings[c][i].exec # 0 /\ ~rings[c][i].busy
    /\ RingSteps(c, i, [rings[c][i] EXCEPT !.exec = 0])
    /\ UNCHANGED fatal

\* vkr_cs_encoder_acquire: a reply is written.  Without a stream it is fatal.
RingAcquire(c, i) ==
    /\ rings[c][i].reply # 0 /\ ~rings[c][i].busy
    /\ RingSteps(c, i, [rings[c][i] EXCEPT !.busy = TRUE])
    /\ UNCHANGED fatal

\* vkr_cs_encoder_release, also of a write that failed.
RingRelease(c, i) ==
    /\ rings[c][i].busy
    /\ RingSteps(c, i, [rings[c][i] EXCEPT !.busy = FALSE])
    /\ UNCHANGED fatal

\* The thread ends; before that it finishes the reply and leaves the stream it is
\* in the middle of.
RingLeaves(c, i) ==
    RingSteps(c, i, [rings[c][i] EXCEPT !.thread = "done", !.busy = FALSE, !.exec = 0])

\* A bad command ends the ring and with it the context; so it does when it meets
\* an error of another thread.
RingFatal(c, i) ==
    /\ RingLeaves(c, i)
    /\ fatal' = fatal \cup {c}

\* A ring thread that is told to stop gets to its end: StopReturns of VkrRing.
RingExit(c, i) ==
    /\ ~rings[c][i].started
    /\ RingLeaves(c, i)
    /\ UNCHANGED fatal

MonitorSteps(c, from, to) ==
    /\ ~Crashed /\ monitor[c].pc = from
    /\ monitor' = [monitor EXCEPT ![c].pc = to]
    /\ UNCHANGED <<cmd, objects, rings, sync>>

\* The head of the loop; at a tick every monitored ring is marked alive under
\* ring_mutex, and the clock may fail.
MonitorTop(c)   == MonitorSteps(c, "top", IF monitor[c].started THEN "lock" ELSE "done")
MonitorFails(c) == monitor[c].started /\ MonitorSteps(c, "top", "done")
MonitorWaits(c) == MonitorSteps(c, "lock", "wait")

\* Mutant: cnd_wait for cnd_timedwait.
MonitorTimeout_Never(c) == FALSE /\ MonitorSteps(c, "wait", "top")

\* The wait ends in time, or before it, when a ring with a shorter period is made
\* or for no reason.  Time is not modelled, so this is the end of any wait.
MonitorTimeout(c) == MonitorSteps(c, "wait", "top")

\* vkr_adapter_retire_fence: the adapter is looked up under the table's mutex
\* and used without it.
RetireLookup(c) ==
    /\ ~Crashed /\ sync[c] = "idle" /\ c \in adapters
    /\ sync' = [sync EXCEPT ![c] = "found"]
    /\ UNCHANGED <<cmd, objects, rings, monitor>>

RetireCall(c) ==
    /\ ~Crashed /\ sync[c] = "found"
    /\ sync' = [sync EXCEPT ![c] = "idle"]
    /\ UNCHANGED <<cmd, objects, rings, monitor>>

-----------------------------------------------------------------------------
Calls ==
    \/ \E c \in Ctxs :
           \/ ContextCreate(c) \/ ContextDestroy(c)
           \/ CreateRingRefused(c)
           \/ \E r \in Res :
                  \/ \E type \in {"shm", "dmabuf"} : CreateBlob(c, r, type)
                  \/ AttachResource(c, r) \/ DetachResource(c, r)
                  \/ CreateRing(c, r) \/ CreateRingNoThread(c, r)
                  \/ CreateRingNoMonitor(c, r)
           \/ \E i \in DOMAIN rings[c] : DestroyRing(c, i)
    \/ \E r \in Res :
           \/ \E type \in {"shm", "dmabuf"} : ImportBlob(r, type)
           \/ ResourceUnref(r)

\* What the VMM's thread does in a call.
CallGoesOn ==
    \/ DestroyRingEnd \/ DestroyResourceStop \/ DestroyResourceJoin \/ DestroyResource
    \/ MonitorFini \/ MonitorJoin \/ RingsStop \/ RingsJoin \/ InstanceDestroy
    \/ (\E r \in Res : TableDestroy(r)) \/ ContextFree

MonitorRuns(c) == MonitorTop(c) \/ MonitorWaits(c) \/ MonitorTimeout(c)

RingEnds(c) == \E i \in DOMAIN rings[c] : RingExit(c, i)

Others(c) ==
    \/ MonitorFails(c) \/ RetireLookup(c)
    \/ \E i \in DOMAIN rings[c] :
           \/ RingFatal(c, i) \/ RingExecuteEnd(c, i)
           \/ RingAcquire(c, i) \/ RingRelease(c, i)
           \/ \E r \in Res : RingSetReply(c, i, r) \/ RingExecute(c, i, r)

Next ==
    \/ Calls \/ CallGoesOn
    \/ \E c \in Ctxs : MonitorRuns(c) \/ RetireCall(c) \/ RingEnds(c) \/ Others(c)

\* The commands a ring thread has left when it is told to stop are finitely many.
Fairness ==
    /\ WF_vars(CallGoesOn)
    /\ \A c \in Ctxs :
           /\ WF_vars(RingEnds(c))
           /\ WF_vars(MonitorRuns(c))
           /\ WF_vars(RetireCall(c))

Spec == Init /\ [][Next]_vars /\ Fairness
-----------------------------------------------------------------------------
\* The adapter knows exactly the resources of its vkr context, so that attach
\* does not file one twice and detach does not leave one (vkr_virgl_adapter.c).
KnownIsTable ==
    \A c \in adapters : known[c] = {r \in Res : table[c][r] # ""}

\* The state is well-formed and the two tables agree.
TablesAgree == TypeOK /\ KnownIsTable

\* The memory of the context that a ring has pointers to.
InUse(g) == {g.res, g.reply, g.exec} \ {0}

\* Every listed ring, whether its thread runs or the monitor marks it, lies in
\* memory that is mapped, and so do the stream its thread decodes from and the one
\* it writes replies to, in the middle of a write or not (vkr_context.c:598).
RingMemoryLive ==
    \A c \in Ctxs : \A i \in DOMAIN rings[c] :
        \A r \in InUse(rings[c][i]) : table[c][r] = "shm"

\* The monitor's thread is gone before the rings it walks and their mutex are
\* (vkr_context.c:819).
MonitorWithinContext ==
    \A c \in Ctxs : monitor[c].pc \in {"top", "lock", "wait"} =>
        /\ c \notin freed
        /\ cmd.ctx = c => cmd.op \notin {"rings", "rings_join", "instance", "resources"}

\* A sync thread that has looked up an adapter finds it still there, although
\* it uses it after the mutex is released (vkr_virgl_adapter.c:82).
RetireOnLive == \A c \in Ctxs : sync[c] = "found" => c \notin freed

\* A ring, which is unlinked once its thread was joined, is gone before the objects
\* and the resources its commands are about.
RingsWithinContext ==
    /\ \A c \in freed : rings[c] = <<>>
    /\ cmd.op \in {"instance", "resources"} => rings[cmd.ctx] = <<>>

\* No thread of a context outlives what it uses of it (vkr_context_destroy).
ThreadsWithinContext == MonitorWithinContext /\ RetireOnLive /\ RingsWithinContext

\* A thread that does not exist is joined only where a ring, or the monitor, was
\* left without one when a ring was made.
CrashOnlyAfterFailure ==
    /\ cmd.op = "no_monitor" => monitor[cmd.ctx].pc = "never"
    /\ cmd.op = "no_ring" => rings[cmd.ctx][cmd.ring].thread = "none"

\* Every call of the VMM returns: the threads it joins end, also a monitor that
\* has missed the signal.
CallsReturn == []<>(cmd = Idle \/ Crashed)
=============================================================================
