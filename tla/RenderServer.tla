---------------------------- MODULE RenderServer ----------------------------
(***************************************************************************)
(* The proxy of the VMM (src/proxy/), the render server (server/), and the *)
(* worker process it forks for each context, in the process and minijail   *)
(* builds: creation and destruction of contexts over the client socket,    *)
(* requests with and without reply over a context's socket, the resource   *)
(* tables at both ends, reaping and killing of workers, and the death of   *)
(* any of the three.  Fences are in ProxyTimeline.                         *)
(*                                                                         *)
(* A worker is its ordinal; the process it runs in has a pid, which the    *)
(* system may reuse once the process has been reaped.  The server's lists  *)
(* of records and of workers are sets: a record is put at the end and a    *)
(* worker at the head when it is made, so ordinals say where they stand.   *)
(* The server is one thread: a handler of render_client_dispatch is one    *)
(* step.                                                                   *)
(***************************************************************************)
EXTENDS Integers, Sequences, FiniteSets

CONSTANTS
    Ctxs,        \* context ids of the VMM, not 0
    MaxWorkers,  \* bound on the workers ever made
    MaxCount,    \* RENDER_SERVER_MAX_WORKER_COUNT
    Pids,        \* process ids of the system
    Res,         \* resource ids
    MaxQueue     \* what a context socket buffers, in messages

ASSUME ServerConstants ==
    /\ Ctxs \subseteq Nat \ {0} /\ MaxWorkers \in Nat /\ MaxCount \in Nat \ {0}
    /\ 0 \notin Pids /\ MaxQueue \in Nat

Workers == 1..MaxWorkers

VARIABLES
    \* the VMM: what its thread waits for, its resources, struct proxy_context
    ppc, resources, sock, table,
    \* the client socket, both ways; a reply carries a worker's remote_fd
    requests, replies,
    \* struct render_server, render_client and render_worker_jail
    srv, records, jail, destroyed, reaped, sigchld, dropped,
    \* processes: the workers, their copy of the jail, unrelated ones
    wpc, pid, forked_jail, others,
    \* the context sockets, struct render_context, submissions not answered
    input, output, held, starved

vmm     == <<ppc, resources, sock, table>>
client  == <<requests, replies>>
server  == <<srv, records, jail, destroyed, reaped, sigchld, dropped>>
procs   == <<wpc, pid, forked_jail, others>>
context == <<input, output, held, starved>>
vars    == <<vmm, client, server, procs, context>>

Idle        == [op |-> "idle", ctx |-> 0, res |-> 0]
Call(o, c)  == [op |-> o, ctx |-> c, res |-> 0]
Msg(o, r)   == [op |-> o, res |-> r]

\* Where the VMM's thread is: free, gone, or waiting for a context's sake.
Waits ==
    {Idle, Call("gone", 0)}
        \cup [op : {"create", "cmd", "close"}, ctx : Ctxs, res : {0}]
        \cup [op : {"blob"}, ctx : Ctxs, res : Res]

\* The requests of the client socket, and both directions of a context's
Requests ==
    [op : {"create"}, ctx : Ctxs, res : {0}]
        \cup [op : {"destroy", "reset"}, ctx : Ctxs \cup {0}, res : {0}]
Messages ==
    [op : {"init", "cmd", "large", "data"}, res : {0}]
        \cup [op : {"blob", "import", "destroy"}, res : Res]
\* The answers of a worker; "rest" is one, of either kind, to the rest of a
\* command taken for a request.
Answers == [op : {"blob", "cmd", "rest"}, ok : BOOLEAN]

TypeOK ==
    /\ ppc \in Waits
    /\ resources \subseteq Res
    /\ sock \in [Ctxs -> Workers \cup {0}]
    /\ table \in [Ctxs -> SUBSET Res]
    /\ requests \in Seq(Requests)
    /\ replies \in Seq(Workers)
    /\ srv \in {"run", "fini", "dead"}
    /\ records \subseteq [ctx_id : Ctxs, worker : Workers]
    /\ jail \subseteq Workers /\ destroyed \subseteq Workers /\ reaped \subseteq Workers
    /\ sigchld \in BOOLEAN /\ dropped \in BOOLEAN
    /\ wpc \in [Workers -> {"none", "forked", "detached", "main", "hung", "zombie",
                            "gone"}]
    /\ pid \in [Workers -> Pids \cup {0}]
    /\ forked_jail \in [Workers -> SUBSET Workers]
    /\ others \subseteq Pids
    /\ input \in [Workers -> Seq(Messages)]
    /\ output \in [Workers -> Seq(Answers)]
    /\ held \in [Workers -> SUBSET Res]
    /\ starved \subseteq Workers

\* proxy_renderer_init, render_server_init; INIT has been handled
Init ==
    /\ ppc = Idle /\ resources = {}
    /\ sock = [c \in Ctxs |-> 0] /\ table = [c \in Ctxs |-> {}]
    /\ requests = <<>> /\ replies = <<>>
    /\ srv = "run" /\ records = {} /\ jail = {}
    /\ destroyed = {} /\ reaped = {} /\ sigchld = FALSE /\ dropped = FALSE
    /\ wpc = [w \in Workers |-> "none"] /\ pid = [w \in Workers |-> 0]
    /\ forked_jail = [w \in Workers |-> {}] /\ others = {}
    /\ input = [w \in Workers |-> <<>>] /\ output = [w \in Workers |-> <<>>]
    /\ held = [w \in Workers |-> {}] /\ starved = {}

Running(w) == wpc[w] \in {"forked", "detached", "main", "hung"}

\* Mutant: a worker keeps its copy of client_fd.
ServerOpen_Child == srv = "run" \/ \E w \in Workers : Running(w)

\* The server's end of the client socket is open: the server has it, and a child
\* until render_client_destroy.
ServerOpen == srv = "run" \/ \E w \in Workers : wpc[w] \in {"forked", "detached"}

\* Mutant: the child does not close its copy of remote_fd.
RemoteOpen_Child(w) ==
    \/ \E c \in Ctxs : sock[c] = w
    \/ \E i \in DOMAIN replies : replies[i] = w
    \/ Running(w)

\* The remote end of a worker's socket is open: a proxy context has it, a reply
\* under way carries it, or the child has not closed its copy.
RemoteOpen(w) ==
    \/ \E c \in Ctxs : sock[c] = w
    \/ \E i \in DOMAIN replies : replies[i] = w
    \/ wpc[w] = "forked"

\* proxy_socket_send_request to the server or to workers; it fails when the peer
\* is gone.
SendServer(m) == requests' = IF ServerOpen THEN Append(requests, m) ELSE requests
Sent(w, ms) == IF Running(w) THEN input[w] \o ms ELSE input[w]

-----------------------------------------------------------------------------
(***************************************************************************)
(* The VMM's thread: contexts                                              *)
(***************************************************************************)
\* proxy_client_create_context up to the blocking receive.
ProxyCreate(c) ==
    /\ ppc = Idle /\ sock[c] = 0 /\ ServerOpen
    /\ \E w \in Workers : wpc[w] = "none"
    /\ SendServer(Call("create", c))
    /\ ppc' = Call("create", c)
    /\ UNCHANGED <<resources, sock, table, replies, server, procs, context>>

\* The reply is there and the context can be set up; INIT goes to the worker.
ProxyCreated ==
    /\ ppc.op = "create" /\ replies # <<>>
    /\ Running(Head(replies))
    /\ replies' = Tail(replies)
    /\ sock' = [sock EXCEPT ![ppc.ctx] = Head(replies)]
    /\ table' = [table EXCEPT ![ppc.ctx] = {}]
    /\ input' = [input EXCEPT ![Head(replies)] = Append(@, Msg("init", 0))]
    /\ ppc' = Idle
    /\ UNCHANGED <<resources, requests, server, procs, output, held, starved>>

\* The context cannot be set up.  Without memory for it the fd is closed; after
\* that proxy_context_destroy sends the id of the context, which is still 0.
ProxyCreatedInVain ==
    /\ ppc.op = "create" /\ replies # <<>>
    /\ replies' = Tail(replies)
    /\ \/ UNCHANGED requests
       \/ SendServer(Call("destroy", 0))
    /\ ppc' = Idle
    /\ UNCHANGED <<resources, sock, table, server, procs, context>>

\* The server is gone and the receive fails.
ProxyCreateFails ==
    /\ ppc.op = "create" /\ replies = <<>> /\ ~ServerOpen
    /\ ppc' = Idle /\ dropped' = FALSE
    /\ UNCHANGED <<resources, sock, table, client, srv, records, jail, destroyed, reaped,
                   sigchld, procs, context>>

\* proxy_context_destroy asks the server first and closes the socket at the end.
ProxyDestroy(c) ==
    /\ ppc = Idle /\ sock[c] # 0
    /\ SendServer(Call("destroy", c))
    /\ ppc' = Call("close", c)
    /\ UNCHANGED <<resources, sock, table, replies, server, procs, context>>

ProxyClose ==
    /\ ppc.op = "close"
    /\ sock' = [sock EXCEPT ![ppc.ctx] = 0]
    /\ table' = [table EXCEPT ![ppc.ctx] = {}]
    /\ ppc' = Idle
    /\ UNCHANGED <<resources, client, server, procs, context>>

\* virgl_renderer_reset, once it has destroyed the contexts and the resources.
ProxyReset ==
    /\ ppc = Idle /\ \A c \in Ctxs : sock[c] = 0
    /\ ServerOpen /\ requests = <<>>
    /\ SendServer(Call("reset", 0))
    /\ resources' = {}
    /\ UNCHANGED <<ppc, sock, table, replies, server, procs, context>>

\* proxy_renderer_fini after the contexts are gone: the server is killed before
\* the client socket is closed.
ProxyFini ==
    /\ ppc = Idle /\ \A c \in Ctxs : sock[c] = 0
    /\ ppc' = Call("gone", 0)
    /\ srv' = "dead"
    /\ requests' = <<>> /\ replies' = <<>>
    /\ records' = {} /\ jail' = {} /\ destroyed' = {} /\ reaped' = {}
    /\ sigchld' = FALSE /\ resources' = {}
    /\ UNCHANGED <<sock, table, dropped, procs, context>>

\* The VMM dies: all its sockets are closed.
VmmDies ==
    /\ ppc.op # "gone"
    /\ ppc' = Call("gone", 0)
    /\ sock' = [c \in Ctxs |-> 0] /\ table' = [c \in Ctxs |-> {}]
    /\ replies' = <<>> /\ resources' = {} /\ dropped' = FALSE
    /\ output' = [w \in Workers |-> <<>>]
    /\ UNCHANGED <<requests, srv, records, jail, destroyed, reaped, sigchld, procs, input,
                   held, starved>>

-----------------------------------------------------------------------------
(***************************************************************************)
(* The VMM's thread: resources and commands of a context                   *)
(***************************************************************************)
\* A request of a context that has a worker.
Ask(c) == ppc = Idle /\ sock[c] # 0 /\ Len(input[sock[c]]) < MaxQueue

\* proxy_context_get_blob up to the receive.
ProxyGetBlob(c, r) ==
    /\ Ask(c) /\ r \notin resources /\ Running(sock[c])
    /\ input' = [input EXCEPT ![sock[c]] = Sent(sock[c], <<Msg("blob", r)>>)]
    /\ ppc' = [op |-> "blob", ctx |-> c, res |-> r]
    /\ UNCHANGED <<resources, sock, table, client, server, procs, output, held,
                   starved>>

\* proxy_context_submit_cmd up to the receive; a large command is two messages.
ProxySubmitCmd(c) ==
    /\ Ask(c) /\ Running(sock[c])
    /\ \E ms \in {<<Msg("cmd", 0)>>, <<Msg("large", 0), Msg("data", 0)>>} :
           input' = [input EXCEPT ![sock[c]] = Sent(sock[c], ms)]
    /\ ppc' = Call("cmd", c)
    /\ UNCHANGED <<resources, sock, table, client, server, procs, output, held,
                   starved>>

\* The reply to get_blob.  The resource is filed unless the fd is refused.
ProxyBlobReply ==
    /\ ppc.op = "blob" /\ output[sock[ppc.ctx]] # <<>>
    /\ output' = [output EXCEPT ![sock[ppc.ctx]] = Tail(@)]
    /\ \/ /\ Head(output[sock[ppc.ctx]]).ok
          /\ table' = [table EXCEPT ![ppc.ctx] = @ \cup {ppc.res}]
          /\ resources' = resources \cup {ppc.res}
       \/ UNCHANGED <<table, resources>>
    /\ ppc' = Idle
    /\ UNCHANGED <<sock, client, server, procs, input, held, starved>>

\* Of whatever kind: one that is too long for the reply fails the call.
ProxyCmdReply ==
    /\ ppc.op = "cmd" /\ output[sock[ppc.ctx]] # <<>>
    /\ output' = [output EXCEPT ![sock[ppc.ctx]] = Tail(@)]
    /\ ppc' = Idle
    /\ UNCHANGED <<resources, sock, table, client, server, procs, input, held,
                   starved>>

\* The worker is gone and the receive fails.
ProxyReplyFails ==
    /\ ppc.op \in {"blob", "cmd"}
    /\ output[sock[ppc.ctx]] = <<>> /\ ~Running(sock[ppc.ctx])
    /\ ppc' = Idle
    /\ UNCHANGED <<resources, sock, table, client, server, procs, context>>

\* A resource made without the proxy's contexts.
VmmImport(r) ==
    /\ ppc = Idle /\ r \notin resources
    /\ resources' = resources \cup {r}
    /\ UNCHANGED <<ppc, sock, table, client, server, procs, context>>

\* proxy_context_attach_resource: not again what get_blob attached.
ProxyAttach(c, r) ==
    /\ Ask(c) /\ r \in resources \ table[c]
    /\ input' = [input EXCEPT ![sock[c]] = Sent(sock[c], <<Msg("import", r)>>)]
    /\ table' = [table EXCEPT ![c] = @ \cup {r}]
    /\ UNCHANGED <<ppc, resources, sock, client, server, procs, output, held, starved>>

\* Mutant: the table keeps the resource.
ProxyDetach_Keep(c, r) ==
    /\ Ask(c) /\ r \in resources
    /\ input' = [input EXCEPT ![sock[c]] = Sent(sock[c], <<Msg("destroy", r)>>)]
    /\ UNCHANGED <<ppc, resources, sock, table, client, server, procs, output, held,
                   starved>>

\* proxy_context_detach_resource
ProxyDetach(c, r) ==
    /\ Ask(c) /\ r \in resources
    /\ input' = [input EXCEPT ![sock[c]] = Sent(sock[c], <<Msg("destroy", r)>>)]
    /\ table' = [table EXCEPT ![c] = @ \ {r}]
    /\ UNCHANGED <<ppc, resources, sock, client, server, procs, output, held, starved>>

\* virgl_renderer_resource_unref: every context detaches it, attached or not.
VmmUnref(r) ==
    /\ ppc = Idle /\ r \in resources
    /\ \A c \in Ctxs : sock[c] # 0 => Len(input[sock[c]]) < MaxQueue
    /\ input' = [w \in Workers |->
                    IF \E c \in Ctxs : sock[c] = w
                    THEN Sent(w, <<Msg("destroy", r)>>) ELSE input[w]]
    /\ table' = [c \in Ctxs |-> table[c] \ {r}]
    /\ resources' = resources \ {r}
    /\ UNCHANGED <<ppc, sock, client, server, procs, output, held, starved>>

-----------------------------------------------------------------------------
(***************************************************************************)
(* The server process                                                      *)
(***************************************************************************)
\* Processes that end become zombies; what they had is gone.
End(ws) ==
    /\ wpc' = [w \in Workers |-> IF w \in ws THEN "zombie" ELSE wpc[w]]
    /\ forked_jail' = [w \in Workers |-> IF w \in ws THEN {} ELSE forked_jail[w]]
    /\ input' = [w \in Workers |-> IF w \in ws THEN <<>> ELSE input[w]]
    /\ held' = [w \in Workers |-> IF w \in ws THEN {} ELSE held[w]]
    /\ starved' = starved \ ws
    /\ sigchld' = (sigchld \/ (srv = "run" /\ ws # {}))

\* kill with SIGKILL
Kill(ps) ==
    /\ End({w \in Workers : Running(w) /\ pid[w] \in ps})
    /\ others' = others \ ps

\* render_worker_jail_remove_worker
RemoveWorkers(ws) ==
    /\ jail' = jail \ ws
    /\ pid' = [w \in Workers |-> IF w \in ws THEN 0 ELSE pid[w]]

\* Mutant: kill whether reaped or not.
DestroyWorkers_Reaped(ws) ==
    /\ Kill({pid[w] : w \in ws})
    /\ RemoveWorkers(ws \cap reaped)
    /\ destroyed' = (destroyed \cup ws) \ reaped
    /\ reaped' = reaped \ ws

\* Mutant: a reaped worker stays in the jail.
DestroyWorkers_KeepReaped(ws) ==
    /\ Kill({pid[w] : w \in ws \ reaped})
    /\ RemoveWorkers({})
    /\ destroyed' = destroyed \cup ws
    /\ UNCHANGED reaped

\* render_worker_destroy of a set of workers: kill by pid those not reaped, and
\* forget those that are.
DestroyWorkers(ws) ==
    /\ Kill({pid[w] : w \in ws \ reaped})
    /\ RemoveWorkers(ws \cap reaped)
    /\ destroyed' = (destroyed \cup ws) \ reaped
    /\ reaped' = reaped \ ws

Receive(op) ==
    /\ srv = "run" /\ requests # <<>> /\ Head(requests).op = op
    /\ requests' = Tail(requests)

\* A slot is left in the jail.
CanCreate == Cardinality(jail) < MaxCount

\* render_worker_jail_add_worker
AddWorker(w) == jail \cup {w}

FreePids == Pids \ (others \cup {pid[w] : w \in {v \in Workers :
                                     Running(v) \/ wpc[v] = "zombie"}})

\* render_client_create_context: the worker is forked with a copy of the jail,
\* filed at both ends of the bookkeeping, and its fd sent to the proxy.
ServerCreate ==
    /\ Receive("create") /\ CanCreate
    /\ \E w \in Workers, p \in FreePids :
           /\ wpc[w] = "none" /\ \A v \in 1..w-1 : wpc[v] # "none"
           /\ wpc' = [wpc EXCEPT ![w] = "forked"]
           /\ pid' = [pid EXCEPT ![w] = p]
           /\ jail' = AddWorker(w)
           /\ forked_jail' = [forked_jail EXCEPT ![w] = jail \cup {w}]
           /\ records' = records \cup {[ctx_id |-> Head(requests).ctx, worker |-> w]}
           /\ replies' = IF ppc.op = "gone" THEN replies ELSE Append(replies, w)
    /\ UNCHANGED <<vmm, srv, destroyed, reaped, sigchld, dropped, others, context>>

\* No memory, socket, process or slot: the handler returns before it would send
\* ok = FALSE, and render_client_dispatch goes on.
ServerCreateFails ==
    /\ Receive("create")
    /\ dropped' = (ppc.op # "gone")
    /\ UNCHANGED <<vmm, replies, srv, records, jail, destroyed, reaped, sigchld, procs,
                   context>>

\* render_client_find_record: the first of that id.
ServerDestroy ==
    /\ Receive("destroy")
    /\ LET hits == {rec \in records : rec.ctx_id = Head(requests).ctx}
       IN \/ /\ hits = {}
             /\ UNCHANGED <<records, jail, destroyed, reaped, sigchld, procs, context>>
          \/ \E rec \in hits :
                 /\ \A other \in hits : rec.worker <= other.worker
                 /\ DestroyWorkers({rec.worker})
                 /\ records' = records \ {rec}
                 /\ UNCHANGED output
    /\ UNCHANGED <<vmm, replies, srv, dropped>>

\* render_client_clear_records
ClearRecords ==
    /\ DestroyWorkers({rec.worker : rec \in records})
    /\ records' = {}

ServerReset ==
    /\ Receive("reset")
    /\ ClearRecords
    /\ UNCHANGED <<vmm, replies, srv, dropped, output>>

\* The client socket is closed: render_server_run returns and render_server_fini
\* destroys the client.
ServerFini ==
    /\ srv = "run" /\ requests = <<>> /\ ppc.op = "gone"
    /\ ClearRecords
    /\ srv' = "fini"
    /\ UNCHANGED <<vmm, client, dropped, output>>

Zombies == {w \in Workers : wpc[w] = "zombie"}

\* render_worker_jail_reap_any_worker: the first worker with the pid, the latest.
Found(z) == CHOOSE w \in jail : pid[w] = pid[z] /\ \A v \in jail : pid[v] = pid[z] => v <= w

Reap(zs) == wpc' = [w \in Workers |-> IF w \in zs THEN "gone" ELSE wpc[w]]

\* Mutant: a reaped worker is forgotten whether destroyed or not.
ServerReap_Remove ==
    /\ srv = "run" /\ sigchld
    /\ LET found == {Found(z) : z \in Zombies}
       IN /\ Reap(Zombies)
          /\ RemoveWorkers(found)
          /\ UNCHANGED reaped
          /\ destroyed' = destroyed \ found
    /\ sigchld' = FALSE
    /\ UNCHANGED <<vmm, client, srv, records, dropped, forked_jail, others, context>>

\* render_worker_jail_reap_workers
ServerReap ==
    /\ srv = "run" /\ sigchld
    /\ LET found == {Found(z) : z \in Zombies}
       IN /\ Reap(Zombies)
          /\ RemoveWorkers(found \cap destroyed)
          /\ reaped' = reaped \cup (found \ destroyed)
          /\ destroyed' = destroyed \ found
    /\ sigchld' = FALSE
    /\ UNCHANGED <<vmm, client, srv, records, dropped, forked_jail, others, context>>

\* render_worker_jail_wait_workers: reap one and remove it
ServerWait ==
    /\ srv = "fini"
    /\ \E z \in Zombies :
           /\ Reap({z})
           /\ RemoveWorkers({Found(z)})
           /\ destroyed' = destroyed \ {Found(z)}
    /\ UNCHANGED <<vmm, client, srv, records, reaped, sigchld, dropped, forked_jail,
                   others, context>>

ServerExit ==
    /\ srv = "fini" /\ jail = {}
    /\ srv' = "dead" /\ sigchld' = FALSE
    /\ UNCHANGED <<vmm, client, records, jail, destroyed, reaped, dropped, procs, context>>

\* The server process dies with all it knew; what it sent can still be read.
ServerDies ==
    /\ srv = "run"
    /\ srv' = "dead"
    /\ requests' = <<>>
    /\ records' = {} /\ jail' = {} /\ destroyed' = {} /\ reaped' = {}
    /\ sigchld' = FALSE
    /\ UNCHANGED <<vmm, replies, dropped, procs, context>>

-----------------------------------------------------------------------------
(***************************************************************************)
(* A worker process                                                        *)
(***************************************************************************)
\* The child's end of render_client_create_context: it forgets the workers and
\* records it has copies of and closes its copy of remote_fd.
ChildDetach(w) ==
    /\ wpc[w] = "forked"
    /\ wpc' = [wpc EXCEPT ![w] = "detached"]
    /\ forked_jail' = [forked_jail EXCEPT ![w] = {}]
    /\ UNCHANGED <<vmm, client, server, pid, others, context>>

\* The child leaves render_server_main, through render_server_fini with its
\* wait for the workers it would have, and enters render_context_main.
ChildMain(w) ==
    /\ wpc[w] = "detached" /\ forked_jail[w] = {}
    /\ wpc' = [wpc EXCEPT ![w] = "main"]
    /\ UNCHANGED <<vmm, client, server, pid, forked_jail, others, context>>

\* The end of a worker.  SIGCHLD goes to the server while it is there.
Exit(w) ==
    /\ End({w})
    /\ UNCHANGED <<vmm, client, srv, records, jail, destroyed, reaped, dropped, pid,
                   others, output>>

\* render_context_dispatch takes the next message of its socket.
Take(w, op) ==
    /\ wpc[w] = "main" /\ input[w] # <<>> /\ Head(input[w]).op = op
    /\ input' = [input EXCEPT ![w] = Tail(@)]

Reply(w, op, ok) == output' = [output EXCEPT ![w] = Append(@, [op |-> op, ok |-> ok])]

\* render_context_dispatch_init, when it succeeds
WorkerInit(w) ==
    /\ Take(w, "init")
    /\ UNCHANGED <<vmm, client, server, procs, output, held, starved>>

\* Mutant: no return after the reply that tells of a failure.
WorkerCreateResource_Twice(w) ==
    /\ Take(w, "blob")
    /\ \/ /\ Head(input[w]).res \notin held[w]
          /\ held' = [held EXCEPT ![w] = @ \cup {Head(input[w]).res}]
          /\ Reply(w, "blob", TRUE)
       \/ /\ UNCHANGED held
          /\ output' = [output EXCEPT ![w] = @ \o <<[op |-> "blob", ok |-> FALSE],
                                                    [op |-> "blob", ok |-> TRUE]>>]
    /\ UNCHANGED <<vmm, client, server, procs, starved>>

\* render_context_dispatch_create_resource; what cannot be exported is unref'd.
WorkerCreateResource(w) ==
    /\ Take(w, "blob")
    /\ \/ /\ Head(input[w]).res \notin held[w]
          /\ held' = [held EXCEPT ![w] = @ \cup {Head(input[w]).res}]
          /\ Reply(w, "blob", TRUE)
       \/ /\ UNCHANGED held
          /\ Reply(w, "blob", FALSE)
    /\ UNCHANGED <<vmm, client, server, procs, starved>>

\* render_context_dispatch_import_resource, when it succeeds
WorkerImportResource(w) ==
    /\ Take(w, "import") /\ Head(input[w]).res \notin held[w]
    /\ held' = [held EXCEPT ![w] = @ \cup {Head(input[w]).res}]
    /\ UNCHANGED <<vmm, client, server, procs, output, starved>>

\* render_context_dispatch_destroy_resource
WorkerDestroyResource(w) ==
    /\ Take(w, "destroy")
    /\ held' = [held EXCEPT ![w] = @ \ {Head(input[w]).res}]
    /\ UNCHANGED <<vmm, client, server, procs, output, starved>>

\* render_context_dispatch_submit_cmd; of a large command it reads the rest.
WorkerSubmitCmd(w) ==
    /\ wpc[w] = "main" /\ input[w] # <<>> /\ Head(input[w]).op \in {"cmd", "large"}
    /\ input' = [input EXCEPT ![w] = SubSeq(@, IF Head(@).op = "large" THEN 3 ELSE 2,
                                            Len(@))]
    /\ \E ok \in BOOLEAN : Reply(w, "cmd", ok)
    /\ UNCHANGED <<vmm, client, server, procs, held, starved>>

\* Without memory for a large command it returns TRUE and leaves the rest.
WorkerSubmitCmdNoMem(w) ==
    /\ Take(w, "large")
    /\ starved' = starved \cup {w}
    /\ UNCHANGED <<vmm, client, server, procs, output, held>>

\* That rest may happen to read as a request.  NOP, SUBMIT_FENCE,
\* DESTROY_RESOURCE and the first part of a large SUBMIT_CMD are not answered.
WorkerReadsRest(w) ==
    /\ Take(w, "data")
    /\ \E rs \in SUBSET Res : held' = [held EXCEPT ![w] = @ \ rs]
    /\ UNCHANGED <<vmm, client, server, procs, output, starved>>

\* CREATE_RESOURCE, of whichever id, and SUBMIT_CMD are.
WorkerAnswersRest(w) ==
    /\ Take(w, "data")
    /\ \E rs \in SUBSET Res : held' = [held EXCEPT ![w] = @ \cup rs]
    /\ \E ok \in BOOLEAN : Reply(w, "rest", ok)
    /\ starved' = starved \ {w}
    /\ UNCHANGED <<vmm, client, server, procs>>

\* A handler that fails ends the worker: INIT, an import (also of an id it has
\* already), and the rest of a command, when it is no request.
WorkerDispatchFails(w) ==
    /\ wpc[w] = "main" /\ input[w] # <<>>
    /\ Head(input[w]).op \in {"init", "import", "data"}
    /\ Exit(w)

\* The socket is closed at the other end and nothing is left to read.
WorkerEof(w) ==
    /\ wpc[w] = "main" /\ input[w] = <<>> /\ ~RemoteOpen(w)
    /\ Exit(w)

\* Faults: a worker dies, or never returns from a handler.
WorkerCrash(w) ==
    /\ Running(w)
    /\ Exit(w)

WorkerHang(w) ==
    /\ wpc[w] = "main"
    /\ wpc' = [wpc EXCEPT ![w] = "hung"]
    /\ UNCHANGED <<vmm, client, server, pid, forked_jail, others, context>>

\* init reaps the orphans of a server that is gone.
Adopt(w) ==
    /\ srv = "dead" /\ wpc[w] = "zombie"
    /\ Reap({w})
    /\ pid' = [pid EXCEPT ![w] = 0]
    /\ UNCHANGED <<vmm, client, server, forked_jail, others, context>>

\* An unrelated process takes a pid, of interest when the jail still has it.
OtherStarts(p) ==
    /\ p \in FreePids /\ \E w \in jail : pid[w] = p
    /\ others' = others \cup {p}
    /\ UNCHANGED <<vmm, client, server, wpc, pid, forked_jail, context>>

-----------------------------------------------------------------------------
ProxyNext ==
    \/ \E c \in Ctxs : ProxyCreate(c) \/ ProxyDestroy(c) \/ ProxySubmitCmd(c)
    \/ \E c \in Ctxs, r \in Res :
           ProxyGetBlob(c, r) \/ ProxyAttach(c, r) \/ ProxyDetach(c, r)
    \/ \E r \in Res : VmmImport(r) \/ VmmUnref(r)
    \/ ProxyReset \/ ProxyFini

ProxyReceives ==
    \/ ProxyCreated \/ ProxyCreatedInVain \/ ProxyCreateFails \/ ProxyClose
    \/ ProxyBlobReply \/ ProxyCmdReply \/ ProxyReplyFails

ServerDispatch ==
    ServerCreate \/ ServerCreateFails \/ ServerDestroy \/ ServerReset \/ ServerFini

ServerReaps == ServerReap \/ ServerWait \/ ServerExit

WorkerRuns(w) ==
    \/ ChildDetach(w) \/ ChildMain(w) \/ WorkerInit(w) \/ WorkerCreateResource(w)
    \/ WorkerImportResource(w) \/ WorkerDestroyResource(w) \/ WorkerSubmitCmd(w)
    \/ WorkerSubmitCmdNoMem(w) \/ WorkerReadsRest(w) \/ WorkerAnswersRest(w)
    \/ WorkerDispatchFails(w) \/ WorkerEof(w) \/ Adopt(w)

Faults ==
    \/ VmmDies \/ ServerDies
    \/ \E w \in Workers : WorkerCrash(w) \/ WorkerHang(w)
    \/ \E p \in Pids : OtherStarts(p)

Progress ==
    ProxyReceives \/ ServerDispatch \/ \E w \in Workers : WorkerRuns(w)

Next ==
    ProxyNext \/ Progress \/ ServerReaps \/ Faults

\* Some process that has a step to take takes one: the VMM's thread returns from
\* a receive that has something, the server dispatches, workers run, init reaps.
\* The server looks at both its fds whenever it polls, so requests do not keep it
\* from reaping.
Fairness == WF_vars(Progress) /\ WF_vars(ServerReaps)

Spec == Init /\ [][Next]_vars /\ Fairness

-----------------------------------------------------------------------------
\* The records of the client and the jail name the same workers: every record's
\* worker is in the jail and not destroyed, and every such worker has one record.
\* So nothing dangles whichever of reaping and destruction comes first
\* (render_worker.c:342, :413), and the assertion of
\* render_worker_jail_wait_workers holds, which meets only destroyed workers.
RecordsOwnWorkers ==
    /\ {rec.worker : rec \in records} = jail \ destroyed
    /\ \A rec, other \in records : rec.worker = other.worker => rec = other

\* The jail knows of every child what became of it: a worker it holds as reaped
\* is gone, one it does not is still there to be reaped, and no child is unknown.
\* A pid in the list may be that of a later process; reap_any_worker must not
\* take one for the other.
JailKnowsProcesses ==
    srv # "dead" =>
        /\ \A w \in jail : w \in reaped <=> wpc[w] = "gone"
        /\ \A w \in Workers : Running(w) \/ wpc[w] = "zombie" => w \in jail

\* The state is well-formed, and client, jail and processes agree; the jail has no
\* more workers than slots.
JailConsistent ==
    TypeOK /\ Cardinality(jail) <= MaxCount /\ RecordsOwnWorkers /\ JailKnowsProcesses

\* render_worker_destroy kills the worker it is about and nobody else: neither
\* an unrelated process that got the pid nor a worker whose record stays.
KillsOnlyItsOwn ==
    [][/\ others \subseteq others'
       /\ records' # records => \A w \in Workers :
              Running(w) /\ wpc'[w] = "zombie"
                  => \A rec \in records' : rec.worker # w]_vars

\* A worker that holds h will hold r once it has read the messages q: it does so
\* now, or imports it, and nothing behind that destroys it.
WillHold(q, h, r) ==
    \E i \in 0..Len(q) :
        /\ IF i = 0 THEN r \in h ELSE q[i] = Msg("import", r)
        /\ \A j \in i+1..Len(q) : q[j] # Msg("destroy", r)

\* What the proxy lists as attached is a resource of the worker once it has read
\* its socket: proxy_context_attach_resource may skip what is in the table.  Not
\* so of a worker that took the rest of a command for a request it does not answer.
AttachedIsHeld ==
    \A c \in Ctxs : sock[c] # 0 /\ Running(sock[c]) /\ sock[c] \notin starved
        => \A r \in table[c] : WillHold(input[sock[c]], held[sock[c]], r)

\* A worker has sent at most one reply, to a request the proxy still waits on, and
\* of its kind: submit_cmd and get_blob never read each other's replies.  Even a
\* worker that answers the rest of a command it took for a request answers the
\* submit_cmd that waits, and leaves nothing for a later call.
RepliesAwaited ==
    \A c \in Ctxs : sock[c] # 0 /\ output[sock[c]] # <<>>
        => /\ ppc.ctx = c /\ Len(output[sock[c]]) = 1
           /\ ppc.op = IF Head(output[sock[c]]).op = "rest" THEN "cmd"
                       ELSE Head(output[sock[c]]).op

\* Calls of the VMM that wait return, whoever dies meanwhile: creation of a
\* context unless the server failed to make a worker, when it sends no reply, and
\* a command or get_blob unless its worker hangs or answered nothing for want of
\* memory.
CallsReturn ==
    []<>(CASE ppc.op = "create" -> dropped
           [] ppc.op \in {"blob", "cmd"} ->
                  wpc[sock[ppc.ctx]] = "hung" \/ sock[ppc.ctx] \in starved
           [] OTHER -> TRUE)

\* The slots of destroyed workers are given back: they are reaped and removed, in
\* either order, so that again and again none is left in the jail.
SlotsReturn == []<>(destroyed = {})

\* Once the VMM is gone the server ends, also when workers hang, and no worker
\* outlives both, even when the server was killed first, but for one that hangs
\* then.
WorkersEnd ==
    ppc.op = "gone" ~>
        srv = "dead" /\ \A w \in Workers : wpc[w] \in {"none", "gone", "hung"}
=============================================================================
