------------------------- MODULE RenderServer_proofs -------------------------
(***************************************************************************)
(* The proxy, the render server and its workers, for any number of         *)
(* contexts, workers, pids, resources and slots: records, jail and         *)
(* processes agree, a kill hits no other process, and what the proxy and a *)
(* worker know of each other stays consistent over their socket.           *)
(***************************************************************************)
EXTENDS RenderServer, TLAPS

-----------------------------------------------------------------------------
(***************************************************************************)
(* The inductive invariants                                                *)
(***************************************************************************)

\* A process that has not been reaped
Child(w) == Running(w) \/ wpc[w] = "zombie"

\* The server's lists hold workers it has made, those that are reaped or
\* destroyed among them, and never both: such a worker is removed.
Lists ==
    /\ reaped \cup destroyed \subseteq jail /\ reaped \cap destroyed = {}
    /\ \A w \in jail : wpc[w] # "none"
    /\ srv = "dead" => jail = {}
    /\ srv = "fini" => records = {}

\* Workers are made in the order of their ordinals.
Numbered == \A v, w \in Workers : v < w /\ wpc[w] # "none" => wpc[v] # "none"

\* Two children have different pids, and none of them has that of an unrelated
\* process.  A reaped worker that is still in the jail may have the pid of a
\* later one.
PidsApart ==
    /\ \A w \in Workers : Child(w) => pid[w] # 0 /\ pid[w] \notin others
    /\ \A v, w \in Workers : Child(v) /\ Child(w) /\ pid[v] = pid[w] => v = w
    /\ \A v \in reaped, w \in Workers : Child(w) /\ pid[v] = pid[w] => v < w

JailInv == RecordsOwnWorkers /\ JailKnowsProcesses /\ Lists /\ Numbered /\ PidsApart

\* The VMM's thread waits for an answer of context c.
Waiting(c) == ppc.op \in {"blob", "cmd"} /\ ppc.ctx = c

\* A worker's socket belongs to one context, or to the one reply that carries it,
\* and the thread waits only on a context that has one.
SocketsApart ==
    /\ \A c, d \in Ctxs : sock[c] # 0 /\ sock[c] = sock[d] => c = d
    /\ \A i, j \in DOMAIN replies : replies[i] = replies[j] => i = j
    /\ \A i \in DOMAIN replies, c \in Ctxs : sock[c] # replies[i]
    /\ \A c \in Ctxs : sock[c] # 0 => wpc[sock[c]] # "none"
    /\ \A i \in DOMAIN replies : wpc[replies[i]] # "none"
    /\ \A c \in Ctxs : Waiting(c) => sock[c] # 0

\* A worker that is not there reads nothing; one that is not made, or whose fd
\* is under way, was sent nothing and has answered nothing.
Untalked(w) == input[w] = <<>> /\ output[w] = <<>> /\ w \notin starved

Silent ==
    /\ \A w \in Workers : ~Running(w) => input[w] = <<>> /\ w \notin starved
    /\ \A w \in Workers : wpc[w] = "none" => Untalked(w)
    /\ \A i \in DOMAIN replies : Untalked(replies[i])

\* A message that gets no answer, and the first n of a list of them
Posted(m) == m.op \in {"init", "import", "destroy"}
PostedTo(q, n) == \A i \in 1..n : Posted(q[i])

\* The request a thread at p waits on is the last of the messages q.
Asked(p, q) ==
    \/ /\ p.op = "blob" /\ Len(q) >= 1
       /\ q[Len(q)] = Msg("blob", p.res) /\ PostedTo(q, Len(q) - 1)
    \/ /\ p.op = "cmd" /\ Len(q) >= 1
       /\ q[Len(q)].op = "cmd" /\ PostedTo(q, Len(q) - 1)
    \/ /\ p.op = "cmd" /\ Len(q) >= 2
       /\ q[Len(q)].op = "data" /\ q[Len(q) - 1].op = "large" /\ PostedTo(q, Len(q) - 2)

\* The one answer to it is among the answers a, and no message is left.
Answered(p, q, a) ==
    q = <<>> /\ Len(a) = 1 /\ p.op = IF a[1].op = "rest" THEN "cmd" ELSE a[1].op

\* What is left of a large command the worker had no memory for
Rest(q) == q = <<>> \/ (Len(q) = 1 /\ q[1].op = "data")

\* What is under way between a context and its worker: messages without answer;
\* or the request the thread waits on, its answer, a worker that is gone, or one
\* that dropped the request for want of memory.
Talk(c) ==
    LET w == sock[c] IN
    /\ ~Waiting(c) => /\ output[w] = <<>> /\ w \notin starved
                      /\ PostedTo(input[w], Len(input[w]))
    /\ Waiting(c) =>
           \/ output[w] = <<>> /\ w \notin starved /\ Asked(ppc, input[w])
           \/ /\ w \notin starved /\ Answered(ppc, input[w], output[w])
              /\ ppc.op = "blob" /\ output[w][1].ok /\ Running(w) => ppc.res \in held[w]
           \/ output[w] = <<>> /\ ~Running(w)
           \/ output[w] = <<>> /\ w \in starved /\ ppc.op = "cmd" /\ Rest(input[w])

\* What the context has attached is or will be held, until the rest of a command
\* is taken for a request.
Attached(c) ==
    LET w == sock[c] IN
    Running(w) /\ (w \notin starved \/ input[w] # <<>>)
        => \A r \in table[c] : WillHold(input[w], held[w], r)

Conversation(c) == Talk(c) /\ Attached(c)

TalkInv ==
    /\ SocketsApart /\ Silent
    /\ \A c \in Ctxs : sock[c] # 0 => Conversation(c)

-----------------------------------------------------------------------------
(***************************************************************************)
(* Types                                                                   *)
(***************************************************************************)
LEMMA WorkersOrdinals == Workers \subseteq Nat /\ 0 \notin Workers
  <1>. QED BY ServerConstants DEF Workers

LEMMA InitType == Init => TypeOK
  <1> SUFFICES ASSUME Init PROVE TypeOK
    OBVIOUS
  <1>1. ppc \in Waits
    BY Zenon DEF Init, Waits, Idle
  <1>3. /\ <<>> \in Seq(Requests) /\ <<>> \in Seq(Workers) /\ <<>> \in Seq(Messages)
        /\ <<>> \in Seq(Answers) /\ FALSE \in BOOLEAN /\ "run" \in {"run", "fini", "dead"}
        /\ "none" \in {"none", "forked", "detached", "main", "hung", "zombie", "gone"}
    OBVIOUS
  <1>. QED BY <1>1, <1>3, Zenon DEF Init, TypeOK

\* Values of the VMM's thread and messages
LEMMA Values ==
    /\ Idle \in Waits /\ Call("gone", 0) \in Waits
    /\ \A c \in Ctxs : /\ Call("create", c) \in Waits /\ Call("cmd", c) \in Waits
                       /\ Call("close", c) \in Waits
                       /\ \A r \in Res : [op |-> "blob", ctx |-> c, res |-> r] \in Waits
                       /\ Call("create", c) \in Requests /\ Call("destroy", c) \in Requests
    /\ Call("destroy", 0) \in Requests /\ Call("reset", 0) \in Requests
    /\ \A r \in Res : /\ Msg("blob", r) \in Messages /\ Msg("import", r) \in Messages
                      /\ Msg("destroy", r) \in Messages
    /\ Msg("init", 0) \in Messages /\ Msg("cmd", 0) \in Messages
    /\ Msg("large", 0) \in Messages /\ Msg("data", 0) \in Messages
  <1>. QED BY Zenon DEF Waits, Idle, Call, Requests, Messages, Msg

\* Taking the first element of a list, and the rest
LEMMA HeadTail ==
    ASSUME NEW S, NEW q \in Seq(S), q # <<>>
    PROVE  /\ Head(q) \in S /\ Tail(q) \in Seq(S) /\ Head(q) = q[1]
           /\ Len(q) \in Nat \ {0} /\ Len(Tail(q)) = Len(q) - 1
           /\ \A i \in 1..Len(q)-1 : Tail(q)[i] = q[i + 1] /\ q[i] \in S
  <1>. QED OBVIOUS

\* What is sent to a worker: one message, or two
LEMMA SentType ==
    ASSUME NEW w \in Workers, input[w] \in Seq(Messages), NEW m \in Messages
    PROVE  /\ Sent(w, <<m>>) \in Seq(Messages)
           /\ \A n \in Messages : Sent(w, <<m, n>>) \in Seq(Messages)
  <1>. QED BY DEF Sent

LEMMA SendServerType ==
    ASSUME requests \in Seq(Requests), NEW m \in Requests, SendServer(m)
    PROVE  requests' \in Seq(Requests)
  <1>. QED BY DEF SendServer

\* The context of a thread that waits on its worker
LEMMA WaitsOn ==
    ASSUME ppc \in Waits
    PROVE  /\ ppc.op \in {"create", "cmd", "close", "blob"} => ppc.ctx \in Ctxs
           /\ ppc.op = "blob" => ppc.res \in Res
           /\ ppc.op \in {"idle", "gone", "create", "cmd", "close", "blob"}
           /\ ppc.op = "idle" => ppc = Idle
  <1>. QED BY DEF Waits, Idle, Call

\* The VMM's thread, contexts
LEMMA ProxyTypes ==
    ASSUME TypeOK,
           \/ \E c \in Ctxs : ProxyCreate(c) \/ ProxyDestroy(c)
           \/ ProxyCreated \/ ProxyCreatedInVain \/ ProxyCreateFails \/ ProxyClose
           \/ ProxyReset \/ ProxyFini \/ VmmDies
    PROVE  TypeOK'
  <1>1. ASSUME NEW c \in Ctxs, ProxyCreate(c) \/ ProxyDestroy(c) PROVE TypeOK'
    <2>1. requests' \in Seq(Requests) /\ ppc' \in Waits
      BY <1>1, SendServerType, Values, Zenon DEF ProxyCreate, ProxyDestroy, TypeOK
    <2>. QED BY <1>1, <2>1, Zenon DEF ProxyCreate, ProxyDestroy, TypeOK, server, procs, context
  <1>2. CASE ProxyCreated
    <2>1. /\ Head(replies) \in Workers /\ replies' \in Seq(Workers) /\ ppc.ctx \in Ctxs
      BY <1>2, HeadTail, WaitsOn, Zenon DEF ProxyCreated, TypeOK
    <2>2. Append(input[Head(replies)], Msg("init", 0)) \in Seq(Messages)
      BY <2>1, Values DEF TypeOK
    <2>3. sock' \in [Ctxs -> Workers \cup {0}] /\ table' \in [Ctxs -> SUBSET Res]
      BY <1>2, <2>1, Zenon DEF ProxyCreated, TypeOK
    <2>4. input' \in [Workers -> Seq(Messages)]
      BY <1>2, <2>1, <2>2, Zenon DEF ProxyCreated, TypeOK
    <2>. QED BY <1>2, <2>1, <2>3, <2>4, Values, Zenon DEF ProxyCreated, TypeOK, server, procs
  <1>3. CASE ProxyCreatedInVain
    <2>1. replies' \in Seq(Workers)
      BY <1>3, HeadTail, Zenon DEF ProxyCreatedInVain, TypeOK
    <2>2. requests' \in Seq(Requests)
      BY <1>3, SendServerType, Values, Zenon DEF ProxyCreatedInVain, TypeOK
    <2>. QED BY <1>3, <2>1, <2>2, Values, Zenon DEF ProxyCreatedInVain, TypeOK, server, procs, context
  <1>4. CASE ProxyCreateFails
    BY <1>4, Values, Zenon DEF ProxyCreateFails, TypeOK, client, procs, context
  <1>5. CASE ProxyClose
    BY <1>5, Values, WaitsOn, Zenon DEF ProxyClose, TypeOK, client, server, procs, context
  <1>6. CASE ProxyReset
    <2>1. requests' \in Seq(Requests)
      BY <1>6, SendServerType, Values, Zenon DEF ProxyReset, TypeOK
    <2>. QED BY <1>6, <2>1, Zenon DEF ProxyReset, TypeOK, server, procs, context
  <1>7. CASE ProxyFini
    <2>1. <<>> \in Seq(Requests) /\ <<>> \in Seq(Workers)
      OBVIOUS
    <2>. QED BY <1>7, <2>1, Values, Zenon DEF ProxyFini, TypeOK, procs, context
  <1>8. CASE VmmDies
    <2>1. <<>> \in Seq(Answers) /\ <<>> \in Seq(Workers)
      OBVIOUS
    <2>. QED BY <1>8, <2>1, Values, Zenon DEF VmmDies, TypeOK, procs
  <1>. QED BY <1>1, <1>2, <1>3, <1>4, <1>5, <1>6, <1>7, <1>8, Zenon

\* The VMM's thread, resources and commands
LEMMA ResourceTypes ==
    ASSUME TypeOK,
           \/ \E c \in Ctxs : ProxySubmitCmd(c)
           \/ \E c \in Ctxs, r \in Res :
                  ProxyGetBlob(c, r) \/ ProxyAttach(c, r) \/ ProxyDetach(c, r)
           \/ \E r \in Res : VmmImport(r) \/ VmmUnref(r)
           \/ ProxyBlobReply \/ ProxyCmdReply \/ ProxyReplyFails
    PROVE  TypeOK'
  <1>0. \A c \in Ctxs : sock[c] # 0 => sock[c] \in Workers
    BY Zenon DEF TypeOK
  <1>1. ASSUME NEW c \in Ctxs, ProxySubmitCmd(c) PROVE TypeOK'
    <2>1. sock[c] \in Workers
      BY <1>0, <1>1, Zenon DEF ProxySubmitCmd, Ask
    <2>2. /\ Sent(sock[c], <<Msg("cmd", 0)>>) \in Seq(Messages)
          /\ Sent(sock[c], <<Msg("large", 0), Msg("data", 0)>>) \in Seq(Messages)
      BY <2>1, SentType, Values, Zenon DEF TypeOK
    <2>3. input' \in [Workers -> Seq(Messages)]
      <3>1. PICK ms \in {<<Msg("cmd", 0)>>, <<Msg("large", 0), Msg("data", 0)>>} :
                input' = [input EXCEPT ![sock[c]] = Sent(sock[c], ms)]
        BY <1>1, Zenon DEF ProxySubmitCmd
      <3>2. Sent(sock[c], ms) \in Seq(Messages)
        BY <2>2, Zenon
      <3>. QED BY <2>1, <3>1, <3>2, Zenon DEF TypeOK
    <2>. QED BY <1>1, <2>3, Values, Zenon DEF ProxySubmitCmd, TypeOK, client, server, procs
  <1>2. ASSUME NEW c \in Ctxs, NEW r \in Res,
               ProxyGetBlob(c, r) \/ ProxyAttach(c, r) \/ ProxyDetach(c, r)
        PROVE  TypeOK'
    <2>1. sock[c] \in Workers
      BY <1>0, <1>2, Zenon DEF ProxyGetBlob, ProxyAttach, ProxyDetach, Ask
    <2>2. /\ Sent(sock[c], <<Msg("blob", r)>>) \in Seq(Messages)
          /\ Sent(sock[c], <<Msg("import", r)>>) \in Seq(Messages)
          /\ Sent(sock[c], <<Msg("destroy", r)>>) \in Seq(Messages)
      BY <2>1, SentType, Values, Zenon DEF TypeOK
    <2>3. input' \in [Workers -> Seq(Messages)]
      BY <1>2, <2>1, <2>2, Zenon DEF ProxyGetBlob, ProxyAttach, ProxyDetach, TypeOK
    <2>4. table' \in [Ctxs -> SUBSET Res] /\ ppc' \in Waits
      <3>1. CASE ProxyGetBlob(c, r)
        BY <3>1, Values, Zenon DEF ProxyGetBlob, TypeOK
      <3>2. CASE ProxyAttach(c, r)
        BY <3>2, Zenon DEF ProxyAttach, TypeOK
      <3>3. CASE ProxyDetach(c, r)
        BY <3>3, Zenon DEF ProxyDetach, TypeOK
      <3>. QED BY <1>2, <3>1, <3>2, <3>3, Zenon
    <2>. QED BY <1>2, <2>3, <2>4, Zenon DEF ProxyGetBlob, ProxyAttach, ProxyDetach, TypeOK,
                client, server, procs
  <1>3. ASSUME NEW r \in Res, VmmImport(r) PROVE TypeOK'
    BY <1>3, Zenon DEF VmmImport, TypeOK, client, server, procs, context
  <1>4. ASSUME NEW r \in Res, VmmUnref(r) PROVE TypeOK'
    <2>1. \A w \in Workers : Sent(w, <<Msg("destroy", r)>>) \in Seq(Messages)
      BY SentType, Values, Zenon DEF TypeOK
    <2>2. input' \in [Workers -> Seq(Messages)]
      BY <1>4, <2>1, Zenon DEF VmmUnref, TypeOK
    <2>3. table' \in [Ctxs -> SUBSET Res] /\ resources' \subseteq Res
      BY <1>4, Zenon DEF VmmUnref, TypeOK
    <2>. QED BY <1>4, <2>2, <2>3, Zenon DEF VmmUnref, TypeOK, client, server, procs
  <1>5. CASE ProxyBlobReply \/ ProxyCmdReply
    <2>1. ppc.ctx \in Ctxs /\ (ppc.op = "blob" => ppc.res \in Res)
      BY <1>5, WaitsOn, Zenon DEF ProxyBlobReply, ProxyCmdReply, TypeOK
    <2>2. output' \in [Workers -> Seq(Answers)]
      <3>1. output' = [output EXCEPT ![sock[ppc.ctx]] = Tail(output[sock[ppc.ctx]])]
        BY <1>5, Zenon DEF ProxyBlobReply, ProxyCmdReply
      <3>2. output[sock[ppc.ctx]] # <<>>
        BY <1>5, Zenon DEF ProxyBlobReply, ProxyCmdReply
      <3>3. sock[ppc.ctx] \in Workers => Tail(output[sock[ppc.ctx]]) \in Seq(Answers)
        BY <3>2, HeadTail, Zenon DEF TypeOK
      <3>4. output \in [Workers -> Seq(Answers)]
        BY Zenon DEF TypeOK
      <3>. QED BY <3>1, <3>3, <3>4, Zenon
    <2>3. table' \in [Ctxs -> SUBSET Res] /\ resources' \subseteq Res
      <3>1. table \in [Ctxs -> SUBSET Res] /\ resources \subseteq Res
        BY Zenon DEF TypeOK
      <3>2. CASE UNCHANGED <<table, resources>>
        BY <3>1, <3>2, Zenon
      <3>3. CASE /\ ppc.op = "blob" /\ table' = [table EXCEPT ![ppc.ctx] = table[ppc.ctx] \cup {ppc.res}]
                 /\ resources' = resources \cup {ppc.res}
        BY <2>1, <3>1, <3>3
      <3>. QED BY <1>5, <3>2, <3>3, Zenon DEF ProxyBlobReply, ProxyCmdReply
    <2>. QED BY <1>5, <2>2, <2>3, Values, Zenon DEF ProxyBlobReply, ProxyCmdReply, TypeOK,
                client, server, procs
  <1>6. CASE ProxyReplyFails
    BY <1>6, Values, Zenon DEF ProxyReplyFails, TypeOK, client, server, procs, context
  <1>. QED BY <1>1, <1>2, <1>3, <1>4, <1>5, <1>6, Zenon

\* Workers that end, are removed or reaped
LEMMA EndTypes ==
    ASSUME TypeOK, NEW ws, End(ws)
    PROVE  /\ wpc' \in [Workers -> {"none", "forked", "detached", "main", "hung", "zombie", "gone"}]
           /\ forked_jail' \in [Workers -> SUBSET Workers]
           /\ input' \in [Workers -> Seq(Messages)] /\ held' \in [Workers -> SUBSET Res]
           /\ starved' \subseteq Workers /\ sigchld' \in BOOLEAN
  <1>1. <<>> \in Seq(Messages)
    OBVIOUS
  <1>2. input' \in [Workers -> Seq(Messages)] /\ starved' \subseteq Workers
    BY <1>1, Zenon DEF End, TypeOK
  <1>3. sigchld' \in BOOLEAN
    BY Zenon DEF End
  <1>4. /\ forked_jail' \in [Workers -> SUBSET Workers] /\ held' \in [Workers -> SUBSET Res]
    BY Zenon DEF End, TypeOK
  <1>5. wpc' \in [Workers -> {"none", "forked", "detached", "main", "hung", "zombie", "gone"}]
    BY Zenon DEF End, TypeOK
  <1>. QED BY <1>2, <1>3, <1>4, <1>5, Zenon

LEMMA RemoveTypes ==
    ASSUME TypeOK, NEW ws, RemoveWorkers(ws)
    PROVE  jail' \subseteq Workers /\ pid' \in [Workers -> Pids \cup {0}]
  <1>1. jail' \subseteq Workers
    BY Zenon DEF RemoveWorkers, TypeOK
  <1>2. pid' \in [Workers -> Pids \cup {0}]
    BY Zenon DEF RemoveWorkers, TypeOK
  <1>. QED BY <1>1, <1>2, Zenon

LEMMA ReapTypes ==
    ASSUME TypeOK, NEW zs, Reap(zs)
    PROVE  wpc' \in [Workers -> {"none", "forked", "detached", "main", "hung", "zombie", "gone"}]
  <1>. QED BY Zenon DEF Reap, TypeOK

LEMMA DestroyTypes ==
    ASSUME TypeOK, NEW ws, ws \subseteq Workers, DestroyWorkers(ws),
           records' \subseteq records, UNCHANGED <<vmm, replies, dropped, output>>,
           requests' \in Seq(Requests), srv' \in {"run", "fini", "dead"}
    PROVE  TypeOK'
  <1>1. PICK ps, es : End(es) /\ others' = others \ ps
    BY Zenon DEF DestroyWorkers, Kill
  <1>2. \E vs : RemoveWorkers(vs)
    BY Zenon DEF DestroyWorkers
  <1>3. destroyed' \subseteq Workers /\ reaped' \subseteq Workers
    BY Zenon DEF DestroyWorkers, TypeOK
  <1>4. jail' \subseteq Workers /\ pid' \in [Workers -> Pids \cup {0}]
    BY <1>2, RemoveTypes, Zenon
  <1>5. /\ wpc' \in [Workers -> {"none", "forked", "detached", "main", "hung", "zombie", "gone"}]
        /\ forked_jail' \in [Workers -> SUBSET Workers]
        /\ input' \in [Workers -> Seq(Messages)] /\ held' \in [Workers -> SUBSET Res]
        /\ starved' \subseteq Workers /\ sigchld' \in BOOLEAN
    BY <1>1, EndTypes, Zenon
  <1>6. others' \subseteq Pids /\ records' \subseteq [ctx_id : Ctxs, worker : Workers]
    BY <1>1, Zenon DEF TypeOK
  <1>. QED BY <1>3, <1>4, <1>5, <1>6, Zenon DEF TypeOK, vmm

\* A child's fd is for the context of the request.
LEMMA ServerCreateTypes ==
    ASSUME TypeOK, ServerCreate
    PROVE  TypeOK'
  <1>1. PICK w \in Workers, p \in FreePids :
           /\ wpc[w] = "none" /\ \A v \in 1..w-1 : wpc[v] # "none"
           /\ wpc' = [wpc EXCEPT ![w] = "forked"]
           /\ pid' = [pid EXCEPT ![w] = p]
           /\ jail' = AddWorker(w)
           /\ forked_jail' = [forked_jail EXCEPT ![w] = jail \cup {w}]
           /\ records' = records \cup {[ctx_id |-> Head(requests).ctx, worker |-> w]}
           /\ replies' = IF ppc.op = "gone" THEN replies ELSE Append(replies, w)
    BY Zenon DEF ServerCreate
  <1>2. requests' \in Seq(Requests) /\ Head(requests).ctx \in Ctxs
    <2>1. /\ requests # <<>> /\ Head(requests).op = "create" /\ requests' = Tail(requests)
      BY Zenon DEF ServerCreate, Receive
    <2>2. Head(requests) \in Requests /\ Tail(requests) \in Seq(Requests)
      BY <2>1, HeadTail, Zenon DEF TypeOK
    <2>. QED BY <2>1, <2>2, Zenon DEF Requests
  <1>3. replies' \in Seq(Workers)
    BY <1>1 DEF TypeOK
  <1>4. jail' \subseteq Workers
    BY <1>1, Zenon DEF TypeOK, AddWorker
  <1>5. /\ wpc' \in [Workers -> {"none", "forked", "detached", "main", "hung", "zombie", "gone"}]
        /\ pid' \in [Workers -> Pids \cup {0}]
    BY <1>1, Zenon DEF TypeOK, FreePids
  <1>6. /\ forked_jail' \in [Workers -> SUBSET Workers]
        /\ records' \subseteq [ctx_id : Ctxs, worker : Workers]
    BY <1>1, <1>2 DEF TypeOK
  <1>7. UNCHANGED <<vmm, srv, destroyed, reaped, sigchld, dropped, others, context>>
    BY Zenon DEF ServerCreate
  <1>. QED BY <1>2, <1>3, <1>4, <1>5, <1>6, <1>7, Zenon DEF TypeOK, vmm, context

\* reap_any_worker finds the worker of the process it has reaped: it is in the
\* jail, and a reaped one with its pid stands behind it.
LEMMA FoundIsReaped ==
    ASSUME TypeOK, JailInv, srv # "dead", NEW z \in Zombies
    PROVE  Found(z) = z
  <1>1. z \in Workers /\ z \in jail /\ Child(z)
    BY Zenon DEF Zombies, JailInv, JailKnowsProcesses, Child
  <1>2. ASSUME NEW v \in jail, pid[v] = pid[z] PROVE v <= z
    <2>1. v \in Workers /\ v \in Int /\ z \in Int
      BY <1>1, <1>2, WorkersOrdinals DEF TypeOK
    <2>2. CASE v \in reaped
      BY <1>1, <1>2, <2>1, <2>2 DEF JailInv, PidsApart
    <2>3. CASE v \notin reaped
      <3>1. wpc[v] # "gone" /\ wpc[v] # "none"
        BY <2>3, Zenon DEF JailInv, JailKnowsProcesses, Lists
      <3>2. Child(v)
        BY <2>1, <3>1, Zenon DEF Child, Running, TypeOK
      <3>. QED BY <1>1, <1>2, <2>1, <3>2 DEF JailInv, PidsApart
    <2>. QED BY <2>2, <2>3, Zenon
  <1>3. ASSUME NEW w \in jail, pid[w] = pid[z], \A v \in jail : pid[v] = pid[z] => v <= w
        PROVE  w = z
    <2>1. w \in Int /\ z \in Int
      BY <1>1, WorkersOrdinals DEF TypeOK
    <2>. QED BY <1>1, <1>2, <1>3, <2>1
  <1>4. Found(z) \in jail /\ pid[Found(z)] = pid[z] /\ \A v \in jail : pid[v] = pid[z] => v <= Found(z)
    BY <1>1, <1>2, Zenon DEF Found
  <1>. QED BY <1>3, <1>4, Zenon

LEMMA FoundAreReaped ==
    ASSUME TypeOK, JailInv, srv # "dead"
    PROVE  {Found(z) : z \in Zombies} = Zombies
  <1>. QED BY FoundIsReaped, Zenon

\* The server process
LEMMA ServerTypes ==
    ASSUME TypeOK, JailInv,
           ServerDispatch \/ ServerReaps \/ ServerDies
    PROVE  TypeOK'
  <1>0. ASSUME NEW op, Receive(op) PROVE requests' \in Seq(Requests)
    BY <1>0, HeadTail, Zenon DEF Receive, TypeOK
  <1>1. CASE ServerCreateFails
    <2>1. requests' \in Seq(Requests) /\ dropped' \in BOOLEAN
      BY <1>0, <1>1, Zenon DEF ServerCreateFails
    <2>. QED BY <1>1, <2>1, Zenon DEF ServerCreateFails, TypeOK, vmm, procs, context
  <1>2. CASE ServerDestroy
    <2>1. requests' \in Seq(Requests) /\ srv' = srv /\ UNCHANGED <<vmm, replies, dropped>>
      BY <1>0, <1>2, Zenon DEF ServerDestroy
    <2>2. CASE UNCHANGED <<records, jail, destroyed, reaped, sigchld, procs, context>>
      BY <2>1, <2>2, Zenon DEF TypeOK, vmm, procs, context
    <2>3. CASE \E rec \in records : /\ DestroyWorkers({rec.worker}) /\ records' = records \ {rec}
                                    /\ UNCHANGED output
      <3>1. PICK rec \in records : /\ DestroyWorkers({rec.worker}) /\ records' = records \ {rec}
                                   /\ UNCHANGED output
        BY <2>3, Zenon
      <3>2. {rec.worker} \subseteq Workers /\ records' \subseteq records
        BY <3>1, Zenon DEF TypeOK
      <3>3. srv' \in {"run", "fini", "dead"}
        BY <2>1, Zenon DEF TypeOK
      <3>. QED BY <2>1, <3>1, <3>2, <3>3, DestroyTypes, Zenon
    <2>. QED BY <1>2, <2>2, <2>3, Zenon DEF ServerDestroy
  <1>3. CASE ServerReset \/ ServerFini
    <2>1. requests' \in Seq(Requests)
      BY <1>0, <1>3, Zenon DEF ServerReset, ServerFini, client, TypeOK
    <2>2. srv' \in {"run", "fini", "dead"} /\ UNCHANGED <<vmm, replies, dropped, output>> /\ ClearRecords
      BY <1>3, Zenon DEF ServerReset, ServerFini, client, TypeOK
    <2>3. {rec.worker : rec \in records} \subseteq Workers
      BY DEF TypeOK
    <2>. QED BY <2>1, <2>2, <2>3, DestroyTypes, Zenon DEF ClearRecords
  <1>4. CASE ServerReap
    <2>1. PICK vs, zs : RemoveWorkers(vs) /\ Reap(zs)
      BY <1>4, Zenon DEF ServerReap
    <2>2. jail' \subseteq Workers /\ pid' \in [Workers -> Pids \cup {0}]
      BY <2>1, RemoveTypes, Zenon
    <2>3. wpc' \in [Workers -> {"none", "forked", "detached", "main", "hung", "zombie", "gone"}]
      BY <2>1, ReapTypes, Zenon
    <2>4. destroyed' \subseteq Workers
      BY <1>4, Zenon DEF ServerReap, TypeOK
    <2>5. reaped' \subseteq Workers
      <3>1. {Found(z) : z \in Zombies} \subseteq Workers
        BY <1>4, FoundAreReaped, Zenon DEF ServerReap, Zombies
      <3>. QED BY <1>4, <3>1, Zenon DEF ServerReap, TypeOK
    <2>. QED BY <1>4, <2>2, <2>3, <2>4, <2>5, Zenon DEF ServerReap, TypeOK, vmm, client, context
  <1>5. CASE ServerWait
    <2>1. PICK vs, zs : RemoveWorkers(vs) /\ Reap(zs) /\ destroyed' = destroyed \ vs
      BY <1>5, Zenon DEF ServerWait
    <2>2. jail' \subseteq Workers /\ pid' \in [Workers -> Pids \cup {0}]
      BY <2>1, RemoveTypes, Zenon
    <2>3. wpc' \in [Workers -> {"none", "forked", "detached", "main", "hung", "zombie", "gone"}]
      BY <2>1, ReapTypes, Zenon
    <2>. QED BY <1>5, <2>1, <2>2, <2>3, Zenon DEF ServerWait, TypeOK, vmm, client, context
  <1>6. CASE ServerExit \/ ServerDies
    <2>1. <<>> \in Seq(Requests) /\ "dead" \in {"run", "fini", "dead"}
      OBVIOUS
    <2>. QED BY <1>6, <2>1, Zenon DEF ServerExit, ServerDies, TypeOK, vmm, client, procs, context
  <1>. QED BY <1>1, <1>2, <1>3, <1>4, <1>5, <1>6, ServerCreateTypes, Zenon
           DEF ServerDispatch, ServerReaps

\* A worker takes a message.
LEMMA TakeTypes ==
    ASSUME TypeOK, NEW w \in Workers, NEW op, Take(w, op)
    PROVE  /\ input' \in [Workers -> Seq(Messages)]
           /\ Head(input[w]) \in Messages /\ input'[w] = Tail(input[w])
           /\ \A v \in Workers : v # w => input'[v] = input[v]
  <1>1. input[w] \in Seq(Messages) /\ input[w] # <<>>
    BY Zenon DEF TypeOK, Take
  <1>2. Tail(input[w]) \in Seq(Messages) /\ Head(input[w]) \in Messages
    BY <1>1, HeadTail, Zenon
  <1>3. input' = [input EXCEPT ![w] = Tail(input[w])]
    BY Zenon DEF Take
  <1>. QED BY <1>2, <1>3, Zenon DEF TypeOK

LEMMA ReplyTypes ==
    ASSUME TypeOK, NEW w \in Workers, NEW op \in {"blob", "cmd", "rest"}, NEW ok \in BOOLEAN, Reply(w, op, ok)
    PROVE  /\ output' \in [Workers -> Seq(Answers)]
           /\ output'[w] = Append(output[w], [op |-> op, ok |-> ok])
           /\ \A v \in Workers : v # w => output'[v] = output[v]
  <1>1. [op |-> op, ok |-> ok] \in Answers
    BY Zenon DEF Answers
  <1> DEFINE a == [op |-> op, ok |-> ok]
  <1>2. output' = [output EXCEPT ![w] = Append(output[w], a)]
    BY Zenon DEF Reply
  <1>3. a \in Answers
    BY <1>1, Zenon
  <1> HIDE DEF a
  <1>4. output[w] \in Seq(Answers)
    BY Zenon DEF TypeOK
  <1>5. Append(output[w], a) \in Seq(Answers)
    BY <1>3, <1>4
  <1>6. /\ output' \in [Workers -> Seq(Answers)] /\ output'[w] = Append(output[w], a)
        /\ \A v \in Workers : v # w => output'[v] = output[v]
    BY <1>2, <1>5, Zenon DEF TypeOK
  <1>. QED BY <1>6, Zenon DEF a

\* Its command, of one message or two
LEMMA SubmitCmdTypes ==
    ASSUME TypeOK, NEW w \in Workers, WorkerSubmitCmd(w)
    PROVE  /\ input' \in [Workers -> Seq(Messages)]
           /\ input'[w] = SubSeq(input[w], IF Head(input[w]).op = "large" THEN 3 ELSE 2, Len(input[w]))
           /\ \A v \in Workers : v # w => input'[v] = input[v]
  <1> DEFINE k == IF Head(input[w]).op = "large" THEN 3 ELSE 2
  <1>1. input' = [input EXCEPT ![w] = SubSeq(input[w], k, Len(input[w]))]
    BY Zenon DEF WorkerSubmitCmd
  <1>2. k \in Nat \ {0} /\ input[w] \in Seq(Messages)
    BY DEF TypeOK
  <1> HIDE DEF k
  <1>3. SubSeq(input[w], k, Len(input[w])) \in Seq(Messages)
    BY <1>2
  <1>4. /\ input' \in [Workers -> Seq(Messages)]
        /\ input'[w] = SubSeq(input[w], k, Len(input[w]))
        /\ \A v \in Workers : v # w => input'[v] = input[v]
    BY <1>1, <1>3, Zenon DEF TypeOK
  <1>. QED BY <1>4, Zenon DEF k

\* A worker process
LEMMA WorkerTypes ==
    ASSUME TypeOK, NEW w \in Workers, WorkerRuns(w) \/ WorkerCrash(w) \/ WorkerHang(w)
    PROVE  TypeOK'
  <1>1. CASE ChildDetach(w) \/ ChildMain(w) \/ WorkerHang(w)
    <2>1. wpc' \in [Workers -> {"none", "forked", "detached", "main", "hung", "zombie", "gone"}]
      BY <1>1, Zenon DEF ChildDetach, ChildMain, WorkerHang, TypeOK
    <2>2. forked_jail' \in [Workers -> SUBSET Workers]
      BY <1>1, Zenon DEF ChildDetach, ChildMain, WorkerHang, TypeOK
    <2>. QED BY <1>1, <2>1, <2>2, Zenon
             DEF ChildDetach, ChildMain, WorkerHang, TypeOK, vmm, client, server, context
  <1>2. CASE WorkerInit(w) \/ WorkerSubmitCmdNoMem(w)
    <2>1. input' \in [Workers -> Seq(Messages)]
      BY <1>2, TakeTypes, Zenon DEF WorkerInit, WorkerSubmitCmdNoMem
    <2>2. starved' \subseteq Workers
      BY <1>2, Zenon DEF WorkerInit, WorkerSubmitCmdNoMem, TypeOK
    <2>. QED BY <1>2, <2>1, <2>2, Zenon
             DEF WorkerInit, WorkerSubmitCmdNoMem, TypeOK, vmm, client, server, procs
  <1>3. CASE WorkerCreateResource(w)
    <2>1. input' \in [Workers -> Seq(Messages)] /\ Head(input[w]) \in Messages
      BY <1>3, TakeTypes, Zenon DEF WorkerCreateResource
    <2>2. output' \in [Workers -> Seq(Answers)]
      BY <1>3, ReplyTypes, Zenon DEF WorkerCreateResource
    <2>3. Head(input[w]).res \in Res
      BY <1>3, <2>1, Zenon DEF WorkerCreateResource, Take, Messages
    <2>4. held' \in [Workers -> SUBSET Res]
      <3>1. CASE held' = [held EXCEPT ![w] = held[w] \cup {Head(input[w]).res}]
        BY <2>3, <3>1, Zenon DEF TypeOK
      <3>2. CASE UNCHANGED held
        BY <3>2, Zenon DEF TypeOK
      <3>. QED BY <1>3, <3>1, <3>2, Zenon DEF WorkerCreateResource
    <2>. QED BY <1>3, <2>1, <2>2, <2>4, Zenon
             DEF WorkerCreateResource, TypeOK, vmm, client, server, procs
  <1>4. CASE WorkerImportResource(w) \/ WorkerDestroyResource(w) \/ WorkerReadsRest(w)
    <2>1. input' \in [Workers -> Seq(Messages)] /\ Head(input[w]) \in Messages
      BY <1>4, TakeTypes, Zenon DEF WorkerImportResource, WorkerDestroyResource, WorkerReadsRest
    <2>2. held' \in [Workers -> SUBSET Res]
      <3>1. CASE WorkerImportResource(w)
        <4>1. Head(input[w]).res \in Res
          BY <2>1, <3>1, Zenon DEF WorkerImportResource, Take, Messages
        <4>. QED BY <3>1, <4>1, Zenon DEF WorkerImportResource, TypeOK
      <3>2. CASE WorkerDestroyResource(w)
        BY <3>2, Zenon DEF WorkerDestroyResource, TypeOK
      <3>3. CASE WorkerReadsRest(w)
        BY <3>3 DEF WorkerReadsRest, TypeOK
      <3>. QED BY <1>4, <3>1, <3>2, <3>3, Zenon
    <2>. QED BY <1>4, <2>1, <2>2, Zenon
             DEF WorkerImportResource, WorkerDestroyResource, WorkerReadsRest, TypeOK, vmm, client,
                 server, procs
  <1>4a. CASE WorkerAnswersRest(w)
    <2>1. input' \in [Workers -> Seq(Messages)]
      BY <1>4a, TakeTypes, Zenon DEF WorkerAnswersRest
    <2>2. output' \in [Workers -> Seq(Answers)]
      BY <1>4a, ReplyTypes, Zenon DEF WorkerAnswersRest
    <2>3. held' \in [Workers -> SUBSET Res] /\ starved' \subseteq Workers
      BY <1>4a DEF WorkerAnswersRest, TypeOK
    <2>. QED BY <1>4a, <2>1, <2>2, <2>3, Zenon
             DEF WorkerAnswersRest, TypeOK, vmm, client, server, procs
  <1>5. CASE WorkerSubmitCmd(w)
    <2>1. input' \in [Workers -> Seq(Messages)]
      BY <1>5, SubmitCmdTypes, Zenon
    <2>2. output' \in [Workers -> Seq(Answers)]
      BY <1>5, ReplyTypes, Zenon DEF WorkerSubmitCmd
    <2>. QED BY <1>5, <2>1, <2>2, Zenon DEF WorkerSubmitCmd, TypeOK, vmm, client, server, procs
  <1>6. CASE Exit(w)
    <2>1. End({w})
      BY <1>6, Zenon DEF Exit
    <2>2. /\ wpc' \in [Workers -> {"none", "forked", "detached", "main", "hung", "zombie", "gone"}]
          /\ forked_jail' \in [Workers -> SUBSET Workers]
          /\ input' \in [Workers -> Seq(Messages)] /\ held' \in [Workers -> SUBSET Res]
          /\ starved' \subseteq Workers /\ sigchld' \in BOOLEAN
      BY <2>1, EndTypes, Zenon
    <2>. QED BY <1>6, <2>2, Zenon DEF Exit, TypeOK, vmm, client
  <1>7. CASE Adopt(w)
    <2>1. wpc' \in [Workers -> {"none", "forked", "detached", "main", "hung", "zombie", "gone"}]
      BY <1>7, ReapTypes, Zenon DEF Adopt
    <2>2. pid' \in [Workers -> Pids \cup {0}]
      BY <1>7, Zenon DEF Adopt, TypeOK
    <2>. QED BY <1>7, <2>1, <2>2, Zenon DEF Adopt, TypeOK, vmm, client, server, context
  <1>. QED BY <1>1, <1>2, <1>3, <1>4, <1>4a, <1>5, <1>6, <1>7, Zenon
           DEF WorkerRuns, WorkerCrash, WorkerDispatchFails, WorkerEof

LEMMA TypeStep ==
    ASSUME TypeOK, JailInv, [Next]_vars
    PROVE  TypeOK'
  <1>1. ASSUME NEW p \in Pids, OtherStarts(p) PROVE TypeOK'
    BY <1>1, Zenon DEF OtherStarts, TypeOK, vmm, client, server, context
  <1>2. CASE UNCHANGED vars
    BY <1>2, Zenon DEF vars, vmm, client, server, procs, context, TypeOK
  <1>. QED BY <1>1, <1>2, ProxyTypes, ResourceTypes, ServerTypes, WorkerTypes, Zenon
           DEF Next, ProxyNext, ProxyReceives, Progress, Faults

-----------------------------------------------------------------------------
(***************************************************************************)
(* Client, jail and processes                                              *)
(***************************************************************************)
\* A process that runs, ends or hangs is the same child, and the server's lists
\* stay as they are.
LEMMA SameChildren ==
    ASSUME JailInv, UNCHANGED <<srv, records, jail, destroyed, reaped, pid, others>>,
           \A w \in Workers : /\ Child(w)' <=> Child(w)
                              /\ wpc'[w] = "gone" <=> wpc[w] = "gone"
                              /\ wpc'[w] = "none" <=> wpc[w] = "none",
           jail \subseteq Workers
    PROVE  JailInv'
  <1>1. RecordsOwnWorkers'
    BY Zenon DEF JailInv, RecordsOwnWorkers
  <1>2. JailKnowsProcesses'
    <2>1. \A w \in Workers : Running(w)' \/ wpc'[w] = "zombie" => Running(w) \/ wpc[w] = "zombie"
      BY Zenon DEF Child
    <2>. QED BY <2>1, Zenon DEF JailInv, JailKnowsProcesses
  <1>3. Lists' /\ Numbered'
    BY Zenon DEF JailInv, Lists, Numbered
  <1>4. PidsApart'
    BY Zenon DEF JailInv, PidsApart
  <1>. QED BY <1>1, <1>2, <1>3, <1>4, Zenon DEF JailInv

LEMMA JailFrame ==
    ASSUME TypeOK, JailInv, UNCHANGED <<srv, records, jail, destroyed, reaped, pid, others, wpc>>
    PROVE  JailInv'
  <1>1. \A w \in Workers : Child(w)' <=> Child(w)
    BY Zenon DEF Child, Running
  <1>. QED BY <1>1, SameChildren, Zenon DEF TypeOK

\* The server is gone, and all it knew.
LEMMA JailGone ==
    ASSUME JailInv, records' = {}, jail' = {}, destroyed' = {}, reaped' = {}, srv' = "dead",
           UNCHANGED <<wpc, pid, others>>
    PROVE  JailInv'
  <1>1. \A w \in Workers : Child(w)' <=> Child(w)
    BY Zenon DEF Child, Running
  <1>2. RecordsOwnWorkers' /\ JailKnowsProcesses' /\ Lists'
    BY Zenon DEF RecordsOwnWorkers, JailKnowsProcesses, Lists
  <1>3. Numbered' /\ PidsApart'
    BY <1>1, Zenon DEF JailInv, Numbered, PidsApart
  <1>. QED BY <1>2, <1>3, Zenon DEF JailInv

\* A worker of the jail that has not been reaped is a child.
LEMMA JailChild ==
    ASSUME TypeOK, JailInv, srv # "dead", NEW w \in jail
    PROVE  w \in Workers /\ (w \in reaped \/ Child(w)) /\ ~(w \in reaped /\ Child(w))
  <1>1. w \in Workers /\ wpc[w] # "none" /\ (w \in reaped <=> wpc[w] = "gone")
    BY Zenon DEF TypeOK, JailInv, JailKnowsProcesses, Lists
  <1>2. wpc[w] \in {"none", "forked", "detached", "main", "hung", "zombie", "gone"}
    BY <1>1, Zenon DEF TypeOK
  <1>. QED BY <1>1, <1>2, Zenon DEF Child, Running

\* render_worker_destroy: of those not reaped the pid is still their own, so the
\* kill ends them and nobody else.
LEMMA KillsOwn ==
    ASSUME TypeOK, JailInv, srv # "dead", NEW ws, ws \subseteq jail, DestroyWorkers(ws)
    PROVE  /\ others' = others
           /\ \A w \in Workers : wpc'[w] = IF w \in ws \ reaped /\ Running(w) THEN "zombie" ELSE wpc[w]
  <1> DEFINE ps == {pid[v] : v \in ws \ reaped}
  <1>1. \A v \in ws \ reaped : v \in Workers /\ Child(v)
    BY JailChild, Zenon
  <1>2. \A p \in ps : p \notin others
    BY <1>1, Zenon DEF JailInv, PidsApart
  <1>3. ASSUME NEW w \in Workers, Running(w) PROVE pid[w] \in ps <=> w \in ws \ reaped
    BY <1>1, <1>3, Zenon DEF JailInv, PidsApart, Child
  <1>4. End({w \in Workers : Running(w) /\ pid[w] \in ps}) /\ others' = others \ ps
    BY Zenon DEF DestroyWorkers, Kill
  <1>5. others' = others
    BY <1>2, <1>4, Zenon
  <1> HIDE DEF ps
  <1>6. wpc' = [w \in Workers |-> IF w \in {v \in Workers : Running(v) /\ pid[v] \in ps}
                                  THEN "zombie" ELSE wpc[w]]
    BY <1>4, Zenon DEF End
  <1>7. \A w \in Workers : wpc'[w] = IF w \in ws \ reaped /\ Running(w) THEN "zombie" ELSE wpc[w]
    BY <1>3, <1>6, Zenon
  <1>. QED BY <1>5, <1>7, Zenon

\* Destruction of the workers of records rs, which are removed
LEMMA DestroyKeepsJail ==
    ASSUME TypeOK, JailInv, srv # "dead", NEW rs \in SUBSET records,
           DestroyWorkers({rec.worker : rec \in rs}), records' = records \ rs,
           srv' # "dead", srv' = "fini" => records' = {}
    PROVE  JailInv'
  <1> DEFINE ws == {rec.worker : rec \in rs}
  <1>1. ws \subseteq jail \ destroyed
    BY Zenon DEF JailInv, RecordsOwnWorkers
  <1>2. {rec.worker : rec \in records'} = (jail \ destroyed) \ ws
    BY Zenon DEF JailInv, RecordsOwnWorkers
  <1>3. \A rec, other \in records' : rec.worker = other.worker => rec = other
    BY Zenon DEF JailInv, RecordsOwnWorkers
  <1>4. /\ jail' = jail \ (ws \cap reaped) /\ destroyed' = (destroyed \cup ws) \ reaped
        /\ reaped' = reaped \ ws
        /\ pid' = [w \in Workers |-> IF w \in ws \cap reaped THEN 0 ELSE pid[w]]
        /\ DestroyWorkers(ws)
    BY Zenon DEF DestroyWorkers, RemoveWorkers
  <1> HIDE DEF ws
  <1>5. /\ others' = others
        /\ \A w \in Workers : wpc'[w] = IF w \in ws \ reaped /\ Running(w) THEN "zombie" ELSE wpc[w]
    BY <1>1, <1>4, KillsOwn, Zenon
  <1>6. \A w \in Workers : /\ Child(w)' <=> Child(w)
                           /\ wpc'[w] = "gone" <=> wpc[w] = "gone"
                           /\ wpc'[w] = "none" <=> wpc[w] = "none"
    BY <1>5, Zenon DEF Child, Running
  <1>7. reaped \cup destroyed \subseteq jail /\ reaped \cap destroyed = {} /\ jail \subseteq Workers
    BY Zenon DEF JailInv, Lists, TypeOK
  <1>8. RecordsOwnWorkers'
    <2>1. jail' \ destroyed' = (jail \ destroyed) \ ws
      BY <1>1, <1>4, <1>7, Zenon
    <2>. QED BY <1>2, <1>3, <2>1, Zenon DEF RecordsOwnWorkers
  <1>9. JailKnowsProcesses'
    <2>1. \A w \in jail' : w \in reaped' <=> wpc'[w] = "gone"
      BY <1>4, <1>6, <1>7, Zenon DEF JailInv, JailKnowsProcesses
    <2>2. \A w \in Workers : Child(w) => w \in jail /\ w \notin reaped
      BY JailChild, Zenon DEF JailInv, JailKnowsProcesses, Child
    <2>3. \A w \in Workers : Child(w)' => w \in jail'
      BY <1>4, <1>6, <2>2, Zenon
    <2>. QED BY <2>1, <2>3, Zenon DEF JailKnowsProcesses, Child
  <1>10. Lists'
    <2>1. reaped' \cup destroyed' \subseteq jail' /\ reaped' \cap destroyed' = {} /\ jail' \subseteq jail
      BY <1>1, <1>4, <1>7, Zenon
    <2>. QED BY <1>6, <1>7, <2>1, Zenon DEF Lists, JailInv
  <1>11. Numbered'
    BY <1>6, Zenon DEF Numbered, JailInv
  <1>12. PidsApart'
    <2>1. \A w \in Workers : Child(w) => pid'[w] = pid[w]
      BY <1>1, <1>4, JailChild, Zenon
    <2>2. \A w \in reaped' : w \in reaped /\ pid'[w] = pid[w]
      BY <1>4, <1>7, Zenon
    <2>. QED BY <1>5, <1>6, <2>1, <2>2, Zenon DEF PidsApart, JailInv
  <1>. QED BY <1>8, <1>9, <1>10, <1>11, <1>12, Zenon DEF JailInv

\* Processes zs are reaped; of their workers the destroyed ones are removed, and
\* the others noted, but for the last rounds of render_server_fini.
LEMMA ReapKeepsJail ==
    ASSUME TypeOK, JailInv, srv # "dead", NEW zs \in SUBSET Zombies, Reap(zs),
           RemoveWorkers(zs \cap destroyed), reaped' = reaped \cup (zs \ destroyed),
           destroyed' = destroyed \ zs, UNCHANGED <<srv, records, others>>
    PROVE  JailInv'
  <1>1. \A w \in zs : w \in Workers /\ wpc[w] = "zombie" /\ w \in jail /\ w \notin reaped
    <2>1. \A w \in zs : w \in Workers /\ wpc[w] = "zombie" /\ w \in jail
      BY Zenon DEF Zombies, JailInv, JailKnowsProcesses
    <2>. QED BY <2>1, Zenon DEF JailInv, JailKnowsProcesses
  <1>2. \A w \in Workers : wpc'[w] = IF w \in zs THEN "gone" ELSE wpc[w]
    BY Zenon DEF Reap
  <1>3. /\ jail' = jail \ (zs \cap destroyed)
        /\ \A w \in Workers : pid'[w] = IF w \in zs \cap destroyed THEN 0 ELSE pid[w]
    BY Zenon DEF RemoveWorkers
  <1>4. \A w \in Workers : /\ Child(w)' <=> Child(w) /\ w \notin zs
                           /\ wpc'[w] = "gone" <=> wpc[w] = "gone" \/ w \in zs
                           /\ wpc'[w] = "none" <=> wpc[w] = "none"
    BY <1>1, <1>2, Zenon DEF Child, Running
  <1>5. reaped \cup destroyed \subseteq jail /\ reaped \cap destroyed = {} /\ jail \subseteq Workers
    BY Zenon DEF JailInv, Lists, TypeOK
  <1>6. RecordsOwnWorkers'
    <2>1. jail' \ destroyed' = jail \ destroyed
      BY <1>3, <1>5, Zenon
    <2>. QED BY <2>1, Zenon DEF RecordsOwnWorkers, JailInv
  <1>7. JailKnowsProcesses'
    <2>1. \A w \in jail' : w \in reaped' <=> wpc'[w] = "gone"
      BY <1>3, <1>4, <1>5, Zenon DEF JailInv, JailKnowsProcesses
    <2>2. \A w \in Workers : Child(w)' => w \in jail'
      BY <1>3, <1>4, Zenon DEF JailInv, JailKnowsProcesses, Child
    <2>. QED BY <2>1, <2>2, Zenon DEF JailKnowsProcesses, Child
  <1>8. Lists'
    <2>1. reaped' \cup destroyed' \subseteq jail' /\ reaped' \cap destroyed' = {} /\ jail' \subseteq jail
      BY <1>1, <1>3, <1>5, Zenon
    <2>. QED BY <1>4, <1>5, <2>1, Zenon DEF Lists, JailInv
  <1>9. Numbered'
    BY <1>4, Zenon DEF Numbered, JailInv
  <1>10. PidsApart'
    <2>1. \A w \in Workers : Child(w)' => Child(w) /\ w \notin zs /\ pid'[w] = pid[w]
      BY <1>3, <1>4, Zenon
    <2>2. ASSUME NEW v \in reaped', NEW w \in Workers, Child(w)', pid'[v] = pid'[w] PROVE v < w
      <3>1. v \in Workers /\ pid'[v] = pid[v]
        BY <1>1, <1>3, <1>5, Zenon
      <3>2. CASE v \in reaped
        BY <2>1, <2>2, <3>1, <3>2, Zenon DEF PidsApart, JailInv
      <3>3. CASE v \in zs
        BY <1>1, <2>1, <2>2, <3>1, <3>3, Zenon DEF PidsApart, JailInv, Child
      <3>. QED BY <3>2, <3>3, Zenon
    <2>. QED BY <2>1, <2>2, Zenon DEF PidsApart, JailInv
  <1>. QED BY <1>6, <1>7, <1>8, <1>9, <1>10, Zenon DEF JailInv

\* A new worker has the largest ordinal and a pid no child has.
LEMMA CreateKeepsJail ==
    ASSUME TypeOK, JailInv, ServerCreate
    PROVE  JailInv'
  <1>1. PICK w \in Workers, p \in FreePids :
           /\ wpc[w] = "none" /\ \A v \in 1..w-1 : wpc[v] # "none"
           /\ wpc' = [wpc EXCEPT ![w] = "forked"]
           /\ pid' = [pid EXCEPT ![w] = p]
           /\ jail' = AddWorker(w)
           /\ records' = records \cup {[ctx_id |-> Head(requests).ctx, worker |-> w]}
    BY Zenon DEF ServerCreate
  <1>2. UNCHANGED <<srv, destroyed, reaped, others>> /\ srv = "run"
    BY Zenon DEF ServerCreate, Receive
  <1>3. w \notin jail /\ w \notin destroyed /\ w \notin reaped /\ jail' = jail \cup {w} /\ jail \subseteq Workers
    BY <1>1, Zenon DEF JailInv, Lists, AddWorker, TypeOK
  <1>4. \A v \in Workers : /\ wpc'[v] = IF v = w THEN "forked" ELSE wpc[v]
                           /\ pid'[v] = IF v = w THEN p ELSE pid[v]
    BY <1>1, Zenon DEF TypeOK
  <1>5. \A v \in Workers : Child(v)' <=> v = w \/ Child(v)
    BY <1>4, Zenon DEF Child, Running
  <1>6. p # 0 /\ p \notin others /\ \A v \in Workers : Child(v) => pid[v] # p
    BY ServerConstants, Zenon DEF FreePids, Child
  <1>7. RecordsOwnWorkers'
    <2> DEFINE new == [ctx_id |-> Head(requests).ctx, worker |-> w]
    <2>1. new.worker = w /\ records' = records \cup {new}
      BY <1>1, Zenon
    <2>2. \A rec \in records : rec.worker # w
      BY <1>3, Zenon DEF JailInv, RecordsOwnWorkers
    <2> HIDE DEF new
    <2>3. {rec.worker : rec \in records'} = jail' \ destroyed'
      BY <1>2, <1>3, <2>1 DEF JailInv, RecordsOwnWorkers
    <2>4. \A rec, other \in records' : rec.worker = other.worker => rec = other
      BY <2>1, <2>2, Zenon DEF JailInv, RecordsOwnWorkers
    <2>. QED BY <2>3, <2>4, Zenon DEF RecordsOwnWorkers
  <1>8. JailKnowsProcesses'
    <2>1. \A v \in jail' : v \in reaped' <=> wpc'[v] = "gone"
      BY <1>2, <1>3, <1>4, Zenon DEF JailInv, JailKnowsProcesses
    <2>2. \A v \in Workers : Child(v)' => v \in jail'
      BY <1>2, <1>3, <1>5, Zenon DEF JailInv, JailKnowsProcesses, Child
    <2>. QED BY <2>1, <2>2, Zenon DEF JailKnowsProcesses, Child
  <1>9. Lists'
    BY <1>2, <1>3, <1>4, Zenon DEF Lists, JailInv
  <1>10. Numbered'
    <2>1. ASSUME NEW u \in Workers, NEW v \in Workers, u < v, wpc'[v] # "none" PROVE wpc'[u] # "none"
      <3>1. CASE v = w
        <4>1. u \in 1..w-1
          BY <2>1, <3>1, ServerConstants DEF Workers
        <4>. QED BY <1>1, <1>4, <4>1, Zenon
      <3>2. CASE v # w
        BY <1>4, <2>1, <3>2, Zenon DEF Numbered, JailInv
      <3>. QED BY <3>1, <3>2, Zenon
    <2>. QED BY <2>1, Zenon DEF Numbered
  <1>11. PidsApart'
    <2>1. ASSUME NEW v \in reaped PROVE v \in Workers /\ v < w /\ v # w
      <3>1. v \in Workers /\ wpc[v] # "none" /\ v # w
        BY <1>1, <1>3, Zenon DEF JailInv, Lists
      <3>2. ~(w < v)
        BY <1>1, <3>1, Zenon DEF JailInv, Numbered
      <3>. QED BY <3>1, <3>2, WorkersOrdinals
    <2>2. \A v \in Workers : Child(v)' => pid'[v] # 0 /\ pid'[v] \notin others'
      BY <1>2, <1>4, <1>5, <1>6, Zenon DEF JailInv, PidsApart
    <2>3. \A u, v \in Workers : Child(u)' /\ Child(v)' /\ pid'[u] = pid'[v] => u = v
      BY <1>4, <1>5, <1>6, Zenon DEF JailInv, PidsApart
    <2>4. \A u \in reaped', v \in Workers : Child(v)' /\ pid'[u] = pid'[v] => u < v
      BY <1>2, <1>4, <1>5, <2>1, Zenon DEF JailInv, PidsApart
    <2>. QED BY <2>2, <2>3, <2>4, Zenon DEF PidsApart
  <1>. QED BY <1>7, <1>8, <1>9, <1>10, <1>11, Zenon DEF JailInv

\* What the VMM and the handlers of a worker leave alone
Quiet == UNCHANGED <<srv, records, jail, destroyed, reaped, pid, others, wpc>>

LEMMA ProxyIsQuiet ==
    ASSUME ProxyNext \/ ProxyReceives \/ VmmDies \/ UNCHANGED vars
    PROVE  Quiet \/ ProxyFini
  <1>1. ASSUME NEW c \in Ctxs, ProxyCreate(c) \/ ProxyDestroy(c) \/ ProxySubmitCmd(c) PROVE Quiet
    BY <1>1, Zenon DEF ProxyCreate, ProxyDestroy, ProxySubmitCmd, Quiet, server, procs
  <1>2. ASSUME NEW c \in Ctxs, NEW r \in Res,
               ProxyGetBlob(c, r) \/ ProxyAttach(c, r) \/ ProxyDetach(c, r)
        PROVE  Quiet
    BY <1>2, Zenon DEF ProxyGetBlob, ProxyAttach, ProxyDetach, Quiet, server, procs
  <1>3. ASSUME NEW r \in Res, VmmImport(r) \/ VmmUnref(r) PROVE Quiet
    BY <1>3, Zenon DEF VmmImport, VmmUnref, Quiet, server, procs
  <1>4. CASE ProxyReset \/ VmmDies \/ UNCHANGED vars
    BY <1>4, Zenon DEF ProxyReset, VmmDies, vars, Quiet, server, procs
  <1>5. CASE ProxyReceives
    BY <1>5, Zenon DEF ProxyReceives, ProxyCreated, ProxyCreatedInVain, ProxyCreateFails, ProxyClose,
       ProxyBlobReply, ProxyCmdReply, ProxyReplyFails, Quiet, server, procs
  <1>. QED BY <1>1, <1>2, <1>3, <1>4, <1>5, Zenon DEF ProxyNext

LEMMA WorkerIsQuiet ==
    ASSUME NEW w \in Workers, WorkerRuns(w) \/ WorkerCrash(w) \/ WorkerHang(w)
    PROVE  \/ Quiet \/ Adopt(w) \/ ChildDetach(w) \/ ChildMain(w) \/ WorkerHang(w)
           \/ Running(w) /\ Exit(w)
  <1>1. CASE \/ WorkerInit(w) \/ WorkerCreateResource(w) \/ WorkerImportResource(w)
             \/ WorkerDestroyResource(w) \/ WorkerSubmitCmd(w) \/ WorkerSubmitCmdNoMem(w)
             \/ WorkerReadsRest(w) \/ WorkerAnswersRest(w)
    BY <1>1, Zenon DEF WorkerInit, WorkerCreateResource, WorkerImportResource, WorkerDestroyResource,
       WorkerSubmitCmd, WorkerSubmitCmdNoMem, WorkerReadsRest, WorkerAnswersRest, Quiet, server, procs
  <1>2. CASE WorkerDispatchFails(w) \/ WorkerEof(w) \/ WorkerCrash(w)
    BY <1>2, Zenon DEF WorkerDispatchFails, WorkerEof, WorkerCrash, Running
  <1>. QED BY <1>1, <1>2, Zenon DEF WorkerRuns

\* Steps of a worker's process
LEMMA WorkerKeepsJail ==
    ASSUME TypeOK, JailInv, NEW w \in Workers,
           ChildDetach(w) \/ ChildMain(w) \/ WorkerHang(w) \/ Adopt(w) \/ (Running(w) /\ Exit(w))
    PROVE  JailInv'
  <1>1. CASE ChildDetach(w) \/ ChildMain(w) \/ WorkerHang(w) \/ (Running(w) /\ Exit(w))
    <2>1. UNCHANGED <<srv, records, jail, destroyed, reaped, pid, others>>
      BY <1>1, Zenon DEF ChildDetach, ChildMain, WorkerHang, Exit, server
    <2>2. Running(w) /\ wpc'[w] \in {"detached", "main", "hung", "zombie"}
      BY <1>1, Zenon DEF ChildDetach, ChildMain, WorkerHang, Exit, End, Running, TypeOK
    <2>3. \A v \in Workers : v # w => wpc'[v] = wpc[v]
      BY <1>1, SMTT(20) DEF ChildDetach, ChildMain, WorkerHang, Exit, End, TypeOK
    <2>4. \A v \in Workers : /\ Child(v)' <=> Child(v)
                             /\ wpc'[v] = "gone" <=> wpc[v] = "gone"
                             /\ wpc'[v] = "none" <=> wpc[v] = "none"
      BY <2>2, <2>3, Zenon DEF Child, Running
    <2>. QED BY <2>1, <2>4, SameChildren, Zenon DEF TypeOK
  <1>2. CASE Adopt(w)
    <2>1. UNCHANGED <<srv, records, jail, destroyed, reaped, others>> /\ srv = "dead"
      BY <1>2, Zenon DEF Adopt, server
    <2>2. \A v \in Workers : /\ wpc'[v] = IF v = w THEN "gone" ELSE wpc[v]
                             /\ pid'[v] = IF v = w THEN 0 ELSE pid[v]
      BY <1>2, Zenon DEF Adopt, Reap, TypeOK
    <2>3. \A v \in Workers : /\ Child(v)' <=> Child(v) /\ v # w
                             /\ wpc'[v] = "none" <=> wpc[v] = "none"
      BY <1>2, <2>2, Zenon DEF Child, Running, Adopt
    <2>4. RecordsOwnWorkers' /\ JailKnowsProcesses'
      BY <2>1, Zenon DEF JailInv, RecordsOwnWorkers, JailKnowsProcesses
    <2>5. jail = {} /\ reaped = {}
      BY <2>1, Zenon DEF JailInv, Lists
    <2>6. Lists' /\ Numbered'
      BY <2>1, <2>3, <2>5, Zenon DEF JailInv, Lists, Numbered
    <2>7. PidsApart'
      BY <2>1, <2>2, <2>3, <2>5, Zenon DEF JailInv, PidsApart
    <2>. QED BY <2>4, <2>6, <2>7, Zenon DEF JailInv
  <1>. QED BY <1>1, <1>2, Zenon

\* Steps of the server
LEMMA ServerKeepsJail ==
    ASSUME TypeOK, JailInv, ServerDispatch \/ ServerReaps
    PROVE  JailInv'
  <1>1. CASE ServerCreate
    BY <1>1, CreateKeepsJail, Zenon
  <1>2. CASE ServerCreateFails
    BY <1>2, JailFrame, Zenon DEF ServerCreateFails, procs
  <1>3. CASE ServerDestroy
    <2>1. srv = "run" /\ srv' = srv
      BY <1>3, Zenon DEF ServerDestroy, Receive
    <2>2. CASE UNCHANGED <<records, jail, destroyed, reaped, sigchld, procs, context>>
      BY <2>1, <2>2, JailFrame, Zenon DEF procs
    <2>3. CASE \E rec \in records : DestroyWorkers({rec.worker}) /\ records' = records \ {rec}
      <3>1. PICK rec \in records : DestroyWorkers({rec.worker}) /\ records' = records \ {rec}
        BY <2>3, Zenon
      <3>2. {r.worker : r \in {rec}} = {rec.worker} /\ {rec} \in SUBSET records
        OBVIOUS
      <3>3. DestroyWorkers({r.worker : r \in {rec}})
        BY <3>1, <3>2, Zenon
      <3>. QED BY <2>1, <3>1, <3>2, <3>3, DestroyKeepsJail, Zenon
    <2>. QED BY <1>3, <2>2, <2>3, Zenon DEF ServerDestroy
  <1>4. CASE ServerReset \/ ServerFini
    <2>1. srv = "run" /\ srv' # "dead" /\ ClearRecords
      BY <1>4, Zenon DEF ServerReset, ServerFini, Receive
    <2>2. records' = records \ records /\ DestroyWorkers({rec.worker : rec \in records}) /\ records' = {}
      BY <2>1, Zenon DEF ClearRecords
    <2>3. records \in SUBSET records /\ srv # "dead"
      BY <2>1, Zenon
    <2>. QED BY <2>1, <2>2, <2>3, DestroyKeepsJail, Zenon
  <1>5. CASE ServerReap
    <2>1. srv # "dead"
      BY <1>5, Zenon DEF ServerReap
    <2>2. {Found(z) : z \in Zombies} = Zombies
      BY <2>1, FoundAreReaped, Zenon
    <2>3. /\ Reap(Zombies) /\ RemoveWorkers(Zombies \cap destroyed)
          /\ reaped' = reaped \cup (Zombies \ destroyed) /\ destroyed' = destroyed \ Zombies
          /\ UNCHANGED <<srv, records, others>>
      BY <1>5, <2>2, Zenon DEF ServerReap
    <2>. QED BY <2>1, <2>3, ReapKeepsJail, Zenon
  <1>6. CASE ServerWait
    <2>1. srv = "fini" /\ UNCHANGED <<srv, records, others, reaped>>
      BY <1>6, Zenon DEF ServerWait
    <2>2. PICK z \in Zombies : Reap({z}) /\ RemoveWorkers({Found(z)}) /\ destroyed' = destroyed \ {Found(z)}
      BY <1>6, Zenon DEF ServerWait
    <2>3. Found(z) = z
      BY <2>1, FoundIsReaped, Zenon
    <2>4. z \in destroyed
      BY <2>1, Zenon DEF JailInv, Lists, RecordsOwnWorkers, JailKnowsProcesses, Zombies
    <2>5. {z} \cap destroyed = {z} /\ {z} \ destroyed = {} /\ {z} \in SUBSET Zombies
      BY <2>4, Zenon
    <2>6. RemoveWorkers({z} \cap destroyed) /\ reaped' = reaped \cup ({z} \ destroyed) /\ srv # "dead"
      BY <2>1, <2>2, <2>3, <2>5, Zenon
    <2>. QED BY <2>1, <2>2, <2>3, <2>5, <2>6, ReapKeepsJail, Zenon
  <1>7. CASE ServerExit
    <2>1. jail = {} /\ srv = "fini" /\ UNCHANGED <<records, jail, destroyed, reaped, wpc, pid, others>> /\ srv' = "dead"
      BY <1>7, Zenon DEF ServerExit, procs
    <2>2. records = {} /\ destroyed = {} /\ reaped = {}
      BY <2>1, Zenon DEF JailInv, Lists
    <2>. QED BY <2>1, <2>2, JailGone, Zenon
  <1>. QED BY <1>1, <1>2, <1>3, <1>4, <1>5, <1>6, <1>7, Zenon DEF ServerDispatch, ServerReaps

LEMMA JailStep ==
    ASSUME TypeOK, JailInv, [Next]_vars
    PROVE  JailInv'
  <1>1. CASE Quiet
    BY <1>1, JailFrame, Zenon DEF Quiet
  <1>2. CASE ProxyFini \/ ServerDies
    BY <1>2, JailGone, Zenon DEF ProxyFini, ServerDies, procs
  <1>3. ASSUME NEW p \in Pids, OtherStarts(p) PROVE JailInv'
    <2>1. UNCHANGED <<srv, records, jail, destroyed, reaped, pid, wpc>> /\ others' = others \cup {p}
      BY <1>3, Zenon DEF OtherStarts, server
    <2>2. \A w \in Workers : (Child(w)' <=> Child(w)) /\ (Child(w) => pid[w] # p)
      BY <1>3, <2>1, Zenon DEF OtherStarts, FreePids, Child, Running
    <2>3. PidsApart'
      BY <2>1, <2>2, Zenon DEF JailInv, PidsApart
    <2>4. RecordsOwnWorkers' /\ Lists' /\ Numbered'
      BY <2>1, Zenon DEF JailInv, RecordsOwnWorkers, Lists, Numbered
    <2>5. JailKnowsProcesses'
      BY <2>1, Zenon DEF JailInv, JailKnowsProcesses, Running
    <2>. QED BY <2>3, <2>4, <2>5, Zenon DEF JailInv
  <1>4. ASSUME NEW w \in Workers, WorkerRuns(w) \/ WorkerCrash(w) \/ WorkerHang(w) PROVE JailInv'
    BY <1>1, <1>4, WorkerIsQuiet, WorkerKeepsJail, Zenon
  <1>5. CASE ProxyNext \/ ProxyReceives \/ VmmDies \/ UNCHANGED vars
    BY <1>1, <1>2, <1>5, ProxyIsQuiet, Zenon
  <1>. QED BY <1>2, <1>3, <1>4, <1>5, ServerKeepsJail, Zenon DEF Next, Progress, Faults

LEMMA InitJail == Init => JailInv
  <1> SUFFICES ASSUME Init PROVE JailInv
    OBVIOUS
  <1>1. \A w \in Workers : wpc[w] = "none" /\ ~Child(w)
    BY Zenon DEF Init, Child, Running
  <1>2. records = {} /\ jail = {} /\ destroyed = {} /\ reaped = {} /\ srv = "run"
    BY Zenon DEF Init
  <1>3. RecordsOwnWorkers /\ Lists
    BY <1>2, Zenon DEF RecordsOwnWorkers, Lists
  <1>4. JailKnowsProcesses
    BY <1>1, <1>2, Zenon DEF JailKnowsProcesses, Child
  <1>5. Numbered /\ PidsApart
    BY <1>1, <1>2, Zenon DEF Numbered, PidsApart
  <1>. QED BY <1>3, <1>4, <1>5, Zenon DEF JailInv

\* What one step of the server may kill
KillStep ==
    /\ others \subseteq others'
    /\ records' # records => \A w \in Workers :
           Running(w) /\ wpc'[w] = "zombie" => \A rec \in records' : rec.worker # w

LEMMA ServerKillsOwn ==
    ASSUME TypeOK, JailInv, ServerDispatch \/ ServerReaps
    PROVE  KillStep
  <1>1. CASE ServerCreate
    <2>1. others' = others /\ \E w \in Workers : wpc' = [wpc EXCEPT ![w] = "forked"]
      BY <1>1, Zenon DEF ServerCreate
    <2>2. \A w \in Workers : ~(Running(w) /\ wpc'[w] = "zombie")
      BY <2>1, Zenon DEF TypeOK, Running
    <2>. QED BY <2>1, <2>2, Zenon DEF KillStep
  <1>2. CASE ServerCreateFails \/ ServerReaps
    BY <1>2, Zenon DEF ServerCreateFails, ServerReaps, ServerReap, ServerWait, ServerExit, KillStep, procs
  <1>3. CASE ServerDestroy
    <2>1. srv # "dead"
      BY <1>3, Zenon DEF ServerDestroy, Receive
    <2>2. CASE UNCHANGED <<records, jail, destroyed, reaped, sigchld, procs, context>>
      BY <2>2, Zenon DEF procs, KillStep
    <2>3. CASE \E rec \in records : DestroyWorkers({rec.worker}) /\ records' = records \ {rec}
      <3>1. PICK rec \in records : DestroyWorkers({rec.worker}) /\ records' = records \ {rec}
        BY <2>3, Zenon
      <3>2. {rec.worker} \subseteq jail
        BY Zenon DEF JailInv, RecordsOwnWorkers
      <3>3. /\ others' = others
            /\ \A w \in Workers :
                   wpc'[w] = IF w \in {rec.worker} \ reaped /\ Running(w) THEN "zombie" ELSE wpc[w]
        BY <2>1, <3>1, <3>2, KillsOwn, Zenon
      <3>4. \A w \in Workers : Running(w) /\ wpc'[w] = "zombie" => w = rec.worker
        BY <3>3, Zenon DEF Running
      <3>5. \A other \in records' : other.worker # rec.worker
        BY <3>1, Zenon DEF JailInv, RecordsOwnWorkers
      <3>. QED BY <3>3, <3>4, <3>5, Zenon DEF KillStep
    <2>. QED BY <1>3, <2>2, <2>3, Zenon DEF ServerDestroy
  <1>4. CASE ServerReset \/ ServerFini
    <2>1. srv # "dead" /\ ClearRecords
      BY <1>4, Zenon DEF ServerReset, ServerFini, Receive
    <2>2. {rec.worker : rec \in records} \subseteq jail
      BY Zenon DEF JailInv, RecordsOwnWorkers
    <2>3. others' = others /\ records' = {}
      BY <2>1, <2>2, KillsOwn, Zenon DEF ClearRecords
    <2>. QED BY <2>3, Zenon DEF KillStep
  <1>. QED BY <1>1, <1>2, <1>3, <1>4, Zenon DEF ServerDispatch

\* render_worker_destroy kills by pid, and whatever pids the system reuses it ends
\* only the worker it is about: no unrelated process, and no worker whose record
\* stays with the client.
THEOREM KillsStayOwn == Spec => KillsOnlyItsOwn
  <1>1. Init => TypeOK /\ JailInv
    BY InitType, InitJail, Zenon
  <1>2. TypeOK /\ JailInv /\ [Next]_vars => (TypeOK /\ JailInv)'
    BY TypeStep, JailStep, Zenon
  <1>3. ASSUME TypeOK, JailInv, Next PROVE KillStep
    <2>1. CASE Quiet \/ ProxyFini \/ ServerDies
      BY <2>1, Zenon DEF Quiet, ProxyFini, ServerDies, procs, KillStep
    <2>2. ASSUME NEW p \in Pids, OtherStarts(p) PROVE KillStep
      BY <2>2, Zenon DEF OtherStarts, server, KillStep
    <2>3. ASSUME NEW w \in Workers, WorkerRuns(w) \/ WorkerCrash(w) \/ WorkerHang(w) PROVE KillStep
      <3>1. Quiet \/ (others' = others /\ records' = records)
        BY <2>3, WorkerIsQuiet, Zenon DEF Adopt, ChildDetach, ChildMain, WorkerHang, Exit, server
      <3>. QED BY <2>1, <3>1, Zenon DEF KillStep
    <2>. QED BY <1>3, <2>1, <2>2, <2>3, ServerKillsOwn, ProxyIsQuiet, Zenon
             DEF Next, Progress, Faults
  <1>4. TypeOK /\ JailInv /\ [Next]_vars => [KillStep]_vars
    BY <1>3, Zenon
  <1>. QED BY <1>1, <1>2, <1>4, PTL DEF Spec, KillsOnlyItsOwn, KillStep

-----------------------------------------------------------------------------
(***************************************************************************)
(* Messages under way                                                      *)
(***************************************************************************)
LEMMA MsgIs == \A o, r : Msg(o, r).op = o /\ Msg(o, r).res = r
  <1>. QED BY Zenon DEF Msg

\* Sending puts messages behind the others.
LEMMA SentAppends ==
    ASSUME NEW w \in Workers, input[w] \in Seq(Messages), NEW m \in Messages, NEW n \in Messages
    PROVE  /\ Running(w) => /\ Sent(w, <<m>>) = Append(input[w], m)
                            /\ Sent(w, <<m, n>>) = Append(Append(input[w], m), n)
           /\ ~Running(w) => Sent(w, <<m>>) = input[w] /\ Sent(w, <<m, n>>) = input[w]
  <1>. QED BY DEF Sent

LEMMA AppendIs ==
    ASSUME NEW q \in Seq(Messages), NEW m \in Messages
    PROVE  /\ Append(q, m) \in Seq(Messages) /\ Len(Append(q, m)) = Len(q) + 1 /\ Len(q) \in Nat
           /\ Append(q, m)[Len(q) + 1] = m
           /\ \A i \in 1..Len(q) : Append(q, m)[i] = q[i]
  <1>. QED OBVIOUS

\* What will be held still will when something is sent that does not destroy it,
\* or that imports it.
LEMMA HoldAppend ==
    ASSUME NEW q \in Seq(Messages), NEW m \in Messages, NEW h, NEW r,
           \/ WillHold(q, h, r) /\ m # Msg("destroy", r)
           \/ m = Msg("import", r)
    PROVE  WillHold(Append(q, m), h, r)
  <1> DEFINE t == Append(q, m)
  <1>1. /\ t \in Seq(Messages) /\ Len(t) = Len(q) + 1 /\ Len(q) \in Nat
        /\ t[Len(q) + 1] = m /\ \A i \in 1..Len(q) : t[i] = q[i]
    BY AppendIs, Zenon
  <1> HIDE DEF t
  <1>2. CASE WillHold(q, h, r) /\ m # Msg("destroy", r)
    <2>1. PICK i \in 0..Len(q) : /\ IF i = 0 THEN r \in h ELSE q[i] = Msg("import", r)
                                 /\ \A j \in i+1..Len(q) : q[j] # Msg("destroy", r)
      BY <1>2, Zenon DEF WillHold
    <2>2. i \in 0..Len(t)
      BY <1>1
    <2>3. IF i = 0 THEN r \in h ELSE t[i] = Msg("import", r)
      BY <1>1, <2>1
    <2>4. \A j \in i+1..Len(t) : t[j] # Msg("destroy", r)
      <3>1. \A j \in i+1..Len(t) : j \in i+1..Len(q) \/ j = Len(q) + 1
        BY <1>1
      <3>2. \A j \in i+1..Len(q) : j \in 1..Len(q)
        BY <1>1
      <3>. QED BY <1>1, <1>2, <2>1, <3>1, <3>2, Zenon
    <2>5. WillHold(t, h, r)
      BY <2>2, <2>3, <2>4, Zenon DEF WillHold
    <2>. QED BY <2>5, Zenon DEF t
  <1>3. CASE m = Msg("import", r)
    <2>1. Len(t) \in 0..Len(t) /\ Len(t) # 0 /\ t[Len(t)] = Msg("import", r)
      BY <1>1, <1>3
    <2>2. \A j \in Len(t)+1..Len(t) : t[j] # Msg("destroy", r)
      BY <1>1
    <2>3. WillHold(t, h, r)
      BY <2>1, <2>2, Zenon DEF WillHold
    <2>. QED BY <2>3, Zenon DEF t
  <1>. QED BY <1>2, <1>3, Zenon

\* And when the worker has handled the first message, which leaves h2
LEMMA HoldTail ==
    ASSUME NEW q \in Seq(Messages), q # <<>>, NEW h, NEW h2, NEW r, WillHold(q, h, r),
           r \in h /\ q[1] # Msg("destroy", r) => r \in h2,
           q[1] = Msg("import", r) => r \in h2
    PROVE  WillHold(Tail(q), h2, r)
  <1> DEFINE t == Tail(q)
  <1>1. Len(q) \in Nat \ {0} /\ Len(t) = Len(q) - 1 /\ \A i \in 1..Len(t) : t[i] = q[i + 1]
    OBVIOUS
  <1> HIDE DEF t
  <1>2. PICK i \in 0..Len(q) : /\ IF i = 0 THEN r \in h ELSE q[i] = Msg("import", r)
                               /\ \A j \in i+1..Len(q) : q[j] # Msg("destroy", r)
    BY Zenon DEF WillHold
  <1>3. ASSUME NEW k \in 0..Len(t), k = i \/ k + 1 = i
        PROVE  \A j \in k+1..Len(t) : t[j] # Msg("destroy", r)
    BY <1>1, <1>2, <1>3
  <1>4. CASE i = 0 \/ i = 1
    <2>1. r \in h2
      BY <1>1, <1>2, <1>4
    <2>2. 0 \in 0..Len(t) /\ (0 = i \/ 0 + 1 = i)
      BY <1>1, <1>4
    <2>3. \A j \in 0+1..Len(t) : t[j] # Msg("destroy", r)
      BY <1>3, <2>2, Zenon
    <2>4. WillHold(t, h2, r)
      BY <2>1, <2>2, <2>3, Zenon DEF WillHold
    <2>. QED BY <2>4, Zenon DEF t
  <1>5. CASE i > 1
    <2>1. i - 1 \in 0..Len(t) /\ i - 1 # 0 /\ t[i - 1] = Msg("import", r) /\ (i - 1) + 1 = i
      BY <1>1, <1>2, <1>5
    <2>2. \A j \in (i-1)+1..Len(t) : t[j] # Msg("destroy", r)
      BY <1>3, <2>1, Zenon
    <2>3. WillHold(t, h2, r)
      BY <2>1, <2>2, Zenon DEF WillHold
    <2>. QED BY <2>3, Zenon DEF t
  <1>. QED BY <1>4, <1>5

LEMMA HoldNothing ==
    ASSUME NEW h, NEW r
    PROVE  WillHold(<<>>, h, r) <=> r \in h
  <1>1. Len(<<>>) = 0
    OBVIOUS
  <1>. QED BY <1>1 DEF WillHold

\* Lists of messages without answer
LEMMA PostedAppend ==
    ASSUME NEW q \in Seq(Messages), NEW m \in Messages, PostedTo(q, Len(q))
    PROVE  /\ PostedTo(Append(q, m), Len(q))
           /\ Posted(m) => PostedTo(Append(q, m), Len(Append(q, m)))
  <1>1. PostedTo(Append(q, m), Len(q))
    BY AppendIs, Zenon DEF PostedTo
  <1>2. ASSUME Posted(m), NEW i \in 1..Len(Append(q, m)) PROVE Posted(Append(q, m)[i])
    <2>1. i \in 1..Len(q) \/ i = Len(q) + 1
      BY AppendIs
    <2>2. CASE i \in 1..Len(q)
      BY <1>1, <2>2, Zenon DEF PostedTo
    <2>3. CASE i = Len(q) + 1
      BY <1>2, <2>3, AppendIs, Zenon
    <2>. QED BY <2>1, <2>2, <2>3, Zenon
  <1>. QED BY <1>1, <1>2, Zenon DEF PostedTo

LEMMA PostedTail ==
    ASSUME NEW q \in Seq(Messages), q # <<>>, NEW n \in 1..Len(q), PostedTo(q, n)
    PROVE  PostedTo(Tail(q), n - 1)
  <1>1. \A i \in 1..n-1 : Tail(q)[i] = q[i + 1] /\ i + 1 \in 1..n
    OBVIOUS
  <1>. QED BY <1>1, Zenon DEF PostedTo

LEMMA PostedNone == PostedTo(<<>>, Len(<<>>)) /\ Rest(<<>>)
  <1>1. PostedTo(<<>>, Len(<<>>))
    BY DEF PostedTo
  <1>2. Rest(<<>>)
    BY Zenon DEF Rest
  <1>. QED BY <1>1, <1>2

\* A request behind messages without answer
LEMMA AskedAppend ==
    ASSUME NEW q \in Seq(Messages), PostedTo(q, Len(q)), NEW p
    PROVE  /\ p.op = "blob" /\ Msg("blob", p.res) \in Messages
                  => Asked(p, Append(q, Msg("blob", p.res)))
           /\ p.op = "cmd" => /\ Asked(p, Append(q, Msg("cmd", 0)))
                              /\ Asked(p, Append(Append(q, Msg("large", 0)), Msg("data", 0)))
  <1>1. ASSUME NEW m \in Messages
        PROVE  /\ Len(Append(q, m)) >= 1 /\ Append(q, m)[Len(Append(q, m))] = m
               /\ PostedTo(Append(q, m), Len(Append(q, m)) - 1)
    <2>1. Len(Append(q, m)) = Len(q) + 1 /\ Len(q) \in Nat /\ Append(q, m)[Len(q) + 1] = m
      BY AppendIs, Zenon
    <2>2. Len(Append(q, m)) - 1 = Len(q) /\ Len(Append(q, m)) >= 1
      BY <2>1
    <2>. QED BY <2>1, <2>2, PostedAppend, Zenon
  <1>2. ASSUME p.op = "blob", Msg("blob", p.res) \in Messages
        PROVE  Asked(p, Append(q, Msg("blob", p.res)))
    BY <1>1, <1>2, Zenon DEF Asked
  <1>3. ASSUME p.op = "cmd" PROVE Asked(p, Append(q, Msg("cmd", 0)))
    <2>1. Msg("cmd", 0) \in Messages /\ Msg("cmd", 0).op = "cmd"
      BY Values, MsgIs, Zenon
    <2>. QED BY <1>1, <1>3, <2>1, Zenon DEF Asked
  <1>4. ASSUME p.op = "cmd" PROVE Asked(p, Append(Append(q, Msg("large", 0)), Msg("data", 0)))
    <2> DEFINE t == Append(q, Msg("large", 0))
    <2> DEFINE u == Append(t, Msg("data", 0))
    <2>1. /\ t \in Seq(Messages) /\ Len(t) = Len(q) + 1 /\ Len(q) \in Nat
          /\ t[Len(q) + 1] = Msg("large", 0) /\ PostedTo(t, Len(q))
      BY AppendIs, PostedAppend, Values, Zenon
    <2> HIDE DEF t
    <2>2. /\ Len(u) = Len(t) + 1 /\ u[Len(t) + 1] = Msg("data", 0)
          /\ \A i \in 1..Len(t) : u[i] = t[i]
      BY <2>1, AppendIs, Values, Zenon
    <2> HIDE DEF u
    <2>3. Len(u) >= 2 /\ Len(u) - 1 = Len(q) + 1 /\ Len(u) - 2 = Len(q)
      BY <2>1, <2>2, SMTT(20)
    <2>4. u[Len(u)].op = "data" /\ u[Len(u) - 1].op = "large"
      BY <2>1, <2>2, <2>3, MsgIs
    <2>5. PostedTo(u, Len(u) - 2)
      BY <2>1, <2>2, <2>3 DEF PostedTo
    <2>6. Asked(p, u)
      BY <1>4, <2>3, <2>4, <2>5, Zenon DEF Asked
    <2>. QED BY <2>6, Zenon DEF u, t
  <1>. QED BY <1>2, <1>3, <1>4, Zenon

\* What the first message of a request's list may be, and what handling it leaves
LEMMA AskedHead ==
    ASSUME NEW q \in Seq(Messages), q # <<>>, NEW p, Asked(p, q)
    PROVE  /\ Posted(q[1]) => Asked(p, Tail(q))
           /\ q[1].op = "blob" => p.op = "blob" /\ q[1] = Msg("blob", p.res) /\ Tail(q) = <<>>
           /\ q[1].op = "cmd" => p.op = "cmd" /\ SubSeq(q, 2, Len(q)) = <<>> /\ Tail(q) = <<>>
           /\ q[1].op = "large" => p.op = "cmd" /\ SubSeq(q, 3, Len(q)) = <<>> /\ Rest(Tail(q))
           /\ q[1].op # "data"
  <1> DEFINE t == Tail(q)
  <1>1. /\ Len(q) \in Nat \ {0} /\ Len(t) = Len(q) - 1 /\ \A i \in 1..Len(t) : t[i] = q[i + 1]
        /\ Len(q) = 1 => t = <<>> /\ SubSeq(q, 2, Len(q)) = <<>>
        /\ Len(q) = 2 => SubSeq(q, 3, Len(q)) = <<>>
        /\ t \in Seq(Messages)
    <2>1. Len(q) \in Nat \ {0} /\ Len(t) = Len(q) - 1 /\ \A i \in 1..Len(t) : t[i] = q[i + 1]
      OBVIOUS
    <2>2. t \in Seq(Messages)
      BY HeadTail, Zenon
    <2>3. Len(q) = 1 => SubSeq(q, 2, Len(q)) = <<>>
      OBVIOUS
    <2>4. Len(q) = 2 => SubSeq(q, 3, Len(q)) = <<>>
      OBVIOUS
    <2> HIDE DEF t
    <2>5. Len(q) = 1 => t = <<>>
      BY <2>1, <2>2
    <2>. QED BY <2>1, <2>2, <2>3, <2>4, <2>5, Zenon
  <1>2. CASE /\ p.op = "blob" /\ q[Len(q)] = Msg("blob", p.res) /\ PostedTo(q, Len(q) - 1)
    <2>1. CASE Len(q) = 1
      BY <1>1, <1>2, <2>1, MsgIs, Zenon DEF Posted
    <2>2. CASE Len(q) > 1
      <3>1. Posted(q[1]) /\ Len(q) - 1 \in 1..Len(q)
        BY <1>1, <1>2, <2>2 DEF PostedTo
      <3>2. PostedTo(t, Len(t) - 1)
        BY <1>1, <1>2, <3>1, PostedTail, Zenon
      <3>3. t[Len(t)] = q[Len(q)] /\ Len(t) >= 1
        BY <1>1, <2>2
      <3>4. Asked(p, t)
        BY <1>2, <3>2, <3>3, Zenon DEF Asked
      <3>. QED BY <3>1, <3>4, Zenon DEF Posted
    <2>. QED BY <1>1, <2>1, <2>2
  <1>3. CASE /\ p.op = "cmd" /\ q[Len(q)].op = "cmd" /\ PostedTo(q, Len(q) - 1)
    <2>1. CASE Len(q) = 1
      BY <1>1, <1>3, <2>1, Zenon DEF Posted
    <2>2. CASE Len(q) > 1
      <3>1. Posted(q[1]) /\ Len(q) - 1 \in 1..Len(q)
        BY <1>1, <1>3, <2>2 DEF PostedTo
      <3>2. PostedTo(t, Len(t) - 1)
        BY <1>1, <1>3, <3>1, PostedTail, Zenon
      <3>3. t[Len(t)] = q[Len(q)] /\ Len(t) >= 1
        BY <1>1, <2>2
      <3>4. Asked(p, t)
        BY <1>3, <3>2, <3>3, Zenon DEF Asked
      <3>. QED BY <3>1, <3>4, Zenon DEF Posted
    <2>. QED BY <1>1, <2>1, <2>2
  <1>4. CASE /\ p.op = "cmd" /\ Len(q) >= 2 /\ q[Len(q)].op = "data"
             /\ q[Len(q) - 1].op = "large" /\ PostedTo(q, Len(q) - 2)
    <2>1. CASE Len(q) = 2
      <3>1. q[1].op = "large" /\ q[2].op = "data"
        BY <1>4, <2>1
      <3>2. Rest(t)
        <4>1. t \in Seq(Messages) /\ Len(t) = 1 /\ t[1] = q[2]
          BY <1>1, <2>1
        <4> HIDE DEF t
        <4>2. DOMAIN t = {1}
          BY <4>1
        <4>. QED BY <3>1, <4>1, <4>2, Zenon DEF Rest
      <3>. QED BY <1>1, <1>4, <2>1, <3>1, <3>2, Zenon DEF Posted
    <2>2. CASE Len(q) > 2
      <3>1. Posted(q[1]) /\ Len(q) - 2 \in 1..Len(q)
        BY <1>1, <1>4, <2>2 DEF PostedTo
      <3>2. PostedTo(t, Len(t) - 2)
        <4>1. PostedTo(t, (Len(q) - 2) - 1)
          BY <1>4, <3>1, PostedTail, Zenon
        <4>2. (Len(q) - 2) - 1 = Len(t) - 2
          BY <1>1
        <4>. QED BY <4>1, <4>2, Zenon
      <3>3. t[Len(t)] = q[Len(q)] /\ t[Len(t) - 1] = q[Len(q) - 1] /\ Len(t) >= 2
        BY <1>1, <2>2
      <3>4. Asked(p, t)
        BY <1>4, <3>2, <3>3, Zenon DEF Asked
      <3>. QED BY <3>1, <3>4, Zenon DEF Posted
    <2>. QED BY <1>1, <1>4, <2>1, <2>2
  <1>. QED BY <1>2, <1>3, <1>4, Zenon DEF Asked

-----------------------------------------------------------------------------
(***************************************************************************)
(* Conversations                                                           *)
(***************************************************************************)
\* Nothing of a context's conversation changes but that it may lose a resource.
LEMMA ConversationFrame ==
    ASSUME NEW c \in Ctxs, Conversation(c), NEW w, w = sock[c], sock'[c] = w,
           input'[w] = input[w], output'[w] = output[w], held'[w] = held[w],
           w \in starved' <=> w \in starved, Running(w)' <=> Running(w),
           table'[c] \subseteq table[c],
           ppc' = ppc \/ (~Waiting(c) /\ ~Waiting(c)')
    PROVE  Conversation(c)'
  <1>1. Attached(c)'
    BY Zenon DEF Conversation, Attached
  <1>2. CASE ~Waiting(c) /\ ~Waiting(c)'
    BY <1>1, <1>2, Zenon DEF Conversation, Talk
  <1>3. CASE ppc' = ppc
    <2>1. Waiting(c)' <=> Waiting(c)
      BY <1>3, Zenon DEF Waiting
    <2>2. CASE ~Waiting(c)
      BY <2>1, <2>2, <1>2, Zenon
    <2>3. CASE Waiting(c)
      BY <1>1, <1>3, <2>1, <2>3, Zenon DEF Conversation, Talk
    <2>. QED BY <2>2, <2>3, Zenon
  <1>. QED BY <1>2, <1>3, Zenon

\* One worker talks, or is talked to.
LEMMA OneConversation ==
    ASSUME TypeOK, TalkInv, NEW w \in Workers, UNCHANGED <<sock, replies, wpc>>,
           wpc[w] # "none", \A i \in DOMAIN replies : replies[i] # w,
           ~Running(w) => input'[w] = <<>> /\ w \notin starved',
           \A v \in Workers : v # w => /\ input'[v] = input[v] /\ output'[v] = output[v]
                                       /\ held'[v] = held[v] /\ (v \in starved' <=> v \in starved),
           \A c \in Ctxs : sock[c] # w =>
               /\ table'[c] \subseteq table[c]
               /\ ppc' = ppc \/ (~Waiting(c) /\ ~Waiting(c)'),
           \A c \in Ctxs : sock[c] = w => Conversation(c)'
    PROVE  TalkInv'
  <1>1. w # 0 /\ \A v \in Workers : Running(v)' <=> Running(v)
    BY WorkersOrdinals, Zenon DEF Running
  <1>2. SocketsApart'
    <2>1. \A c \in Ctxs : Waiting(c)' => sock[c] # 0
      <3> SUFFICES ASSUME NEW c \in Ctxs, Waiting(c)', sock[c] = 0 PROVE FALSE
        BY Zenon
      <3>1. ppc' = ppc
        BY <1>1, Zenon
      <3>2. Waiting(c)
        BY <3>1, Zenon DEF Waiting
      <3>. QED BY <3>2, Zenon DEF TalkInv, SocketsApart
    <2>. QED BY <2>1, Zenon DEF TalkInv, SocketsApart
  <1>3. Silent'
    <2>1. \A v \in Workers : ~Running(v)' => input'[v] = <<>> /\ v \notin starved'
      BY <1>1, Zenon DEF TalkInv, Silent
    <2>2. \A v \in Workers : wpc'[v] = "none" => Untalked(v)'
      BY Zenon DEF TalkInv, Silent, Untalked
    <2>3. (\A i \in DOMAIN replies : Untalked(replies[i]))'
      <3>1. \A i \in DOMAIN replies : replies[i] \in Workers
        BY DEF TypeOK
      <3>. QED BY <3>1, Zenon DEF TalkInv, Silent, Untalked
    <2>. QED BY <2>1, <2>2, <2>3, Zenon DEF Silent
  <1>4. ASSUME NEW c \in Ctxs, sock'[c] # 0, sock[c] # w PROVE Conversation(c)'
    <2>1. PICK v \in Workers : v = sock[c]
      BY <1>4, Zenon DEF TypeOK
    <2>2. Conversation(c) /\ sock'[c] = v /\ v # w
      BY <1>4, <2>1, Zenon DEF TalkInv
    <2>. QED BY <1>1, <1>4, <2>1, <2>2, ConversationFrame, Zenon
  <1>. QED BY <1>2, <1>3, <1>4, Zenon DEF TalkInv

\* Workers end in the midst of it.
LEMMA EndConversation ==
    ASSUME TypeOK, TalkInv, NEW ws, \A w \in ws : w \in Workers /\ Running(w), End(ws),
           UNCHANGED <<ppc, sock, table, replies, output>>
    PROVE  TalkInv'
  <1>1. \A w \in Workers : /\ wpc'[w] = IF w \in ws THEN "zombie" ELSE wpc[w]
                           /\ input'[w] = IF w \in ws THEN <<>> ELSE input[w]
                           /\ held'[w] = IF w \in ws THEN {} ELSE held[w]
                           /\ (w \in starved' <=> w \in starved /\ w \notin ws)
    BY Zenon DEF End
  <1>2. \A w \in Workers : /\ Running(w)' <=> Running(w) /\ w \notin ws
                           /\ wpc'[w] = "none" <=> wpc[w] = "none"
    BY <1>1, Zenon DEF Running
  <1>3. /\ \A c \in Ctxs : sock[c] # 0 => sock[c] \in Workers
        /\ \A i \in DOMAIN replies : replies[i] \in Workers
        /\ \A c \in Ctxs : Waiting(c)' <=> Waiting(c)
    BY DEF TypeOK, Waiting
  <1>4. SocketsApart'
    BY <1>2, <1>3, Zenon DEF TalkInv, SocketsApart
  <1>5. Silent'
    <2>1. \A w \in Workers : ~Running(w)' => input'[w] = <<>> /\ w \notin starved'
      BY <1>1, <1>2, Zenon DEF TalkInv, Silent
    <2>2. \A w \in Workers : Untalked(w) => Untalked(w)'
      BY <1>1, Zenon DEF Untalked
    <2>. QED BY <1>2, <1>3, <2>1, <2>2, Zenon DEF TalkInv, Silent
  <1>6. ASSUME NEW c \in Ctxs, sock'[c] # 0 PROVE Conversation(c)'
    <2>0. PICK w \in Workers : w = sock[c]
      BY <1>3, <1>6, Zenon
    <2>1. w \in Workers /\ Conversation(c) /\ sock[c] = w /\ sock'[c] = w
      BY <1>6, <2>0, Zenon DEF TalkInv
    <2>2. CASE w \notin ws
      <3>1. /\ input'[w] = input[w] /\ held'[w] = held[w] /\ (w \in starved' <=> w \in starved)
            /\ (Running(w)' <=> Running(w))
        BY <1>1, <1>2, <2>1, <2>2, Zenon
      <3>. QED BY <2>1, <3>1, ConversationFrame, Zenon
    <2>3. CASE w \in ws
      <3>1. input'[w] = <<>> /\ w \notin starved' /\ ~Running(w)'
        BY <1>1, <1>2, <2>1, <2>3, Zenon
      <3>2. Attached(c)'
        BY <2>1, <3>1, Zenon DEF Attached
      <3>3. CASE ~Waiting(c)
        BY <1>3, <2>1, <3>1, <3>2, <3>3, PostedNone, Zenon DEF Conversation, Talk
      <3>4. CASE Waiting(c)
        <4>1. output[w] = <<>> \/ (Answered(ppc, input[w], output[w]))
          BY <2>1, <3>4, Zenon DEF Conversation, Talk
        <4>2. output[w] = <<>> \/ (Answered(ppc, <<>>, output[w]))
          BY <4>1, Zenon DEF Answered
        <4>. QED BY <1>3, <2>1, <3>1, <3>2, <3>4, <4>2, Zenon DEF Conversation, Talk
      <3>. QED BY <3>3, <3>4, Zenon
    <2>. QED BY <2>2, <2>3, Zenon
  <1>. QED BY <1>4, <1>5, <1>6, Zenon DEF TalkInv

LEMMA RepliesLess ==
    ASSUME TypeOK, SocketsApart,
           replies' = replies \/ replies' = <<>> \/ (replies # <<>> /\ replies' = Tail(replies))
    PROVE  /\ \A i \in DOMAIN replies' : \E j \in DOMAIN replies : replies'[i] = replies[j]
           /\ \A i, j \in DOMAIN replies' : replies'[i] = replies'[j] => i = j
           /\ replies # <<>> /\ replies' = Tail(replies)
                  => \A i \in DOMAIN replies' : replies'[i] # Head(replies)
  <1>1. CASE replies' = replies \/ replies' = <<>>
    BY <1>1 DEF SocketsApart, TypeOK
  <1>2. CASE replies # <<>> /\ replies' = Tail(replies)
    <2>1. \A i \in DOMAIN replies' : i \in Nat \ {0} /\ i + 1 \in DOMAIN replies /\ replies'[i] = replies[i + 1]
      BY <1>2, SMTT(20) DEF TypeOK
    <2>2. Head(replies) = replies[1] /\ 1 \in DOMAIN replies
      BY <1>2 DEF TypeOK
    <2>3. \A i \in DOMAIN replies' : replies'[i] # Head(replies)
      BY <2>1, <2>2, SMTT(20) DEF SocketsApart
    <2>. QED BY <2>1, <2>3 DEF SocketsApart
  <1>. QED BY <1>1, <1>2, Zenon

\* Steps that touch no conversation
LEMMA NoConversation ==
    ASSUME TypeOK, TalkInv, UNCHANGED <<sock, table, input, output, held, starved>>,
           \A w \in Workers : /\ Running(w)' <=> Running(w)
                              /\ wpc'[w] = "none" <=> wpc[w] = "none",
           replies' = replies \/ replies' = <<>> \/ (replies # <<>> /\ replies' = Tail(replies)),
           ppc' = ppc \/ \A c \in Ctxs : ~Waiting(c) /\ ~Waiting(c)'
    PROVE  TalkInv'
  <1>1. /\ \A i \in DOMAIN replies' : \E j \in DOMAIN replies : replies'[i] = replies[j]
        /\ \A i, j \in DOMAIN replies' : replies'[i] = replies'[j] => i = j
    BY RepliesLess, Zenon DEF TalkInv
  <1>2. /\ \A c \in Ctxs : sock[c] # 0 => sock[c] \in Workers
        /\ \A i \in DOMAIN replies : replies[i] \in Workers
    BY DEF TypeOK
  <1>3. \A c \in Ctxs : Waiting(c)' => Waiting(c)
    BY Zenon DEF Waiting
  <1>4. SocketsApart'
    <2>1. (\A i \in DOMAIN replies, c \in Ctxs : sock[c] # replies[i])'
      BY <1>1 DEF TalkInv, SocketsApart
    <2>2. \A w \in Workers : wpc[w] # "none" => wpc'[w] # "none"
      BY Zenon
    <2>3. (\A i \in DOMAIN replies : wpc[replies[i]] # "none")'
      BY <1>1, <1>2, <2>2 DEF TalkInv, SocketsApart
    <2>4. (\A c \in Ctxs : sock[c] # 0 => wpc[sock[c]] # "none")'
      BY <1>2, <2>2, Zenon DEF TalkInv, SocketsApart
    <2>. QED BY <1>1, <1>3, <2>1, <2>3, <2>4, Zenon DEF TalkInv, SocketsApart
  <1>5. Silent'
    <2>1. \A w : Untalked(w)' <=> Untalked(w)
      BY Zenon DEF Untalked
    <2>2. \A w \in Workers : ~Running(w)' => input'[w] = <<>> /\ w \notin starved'
      BY Zenon DEF TalkInv, Silent
    <2>3. \A w \in Workers : wpc'[w] = "none" => Untalked(w)'
      BY <2>1, Zenon DEF TalkInv, Silent
    <2>4. (\A i \in DOMAIN replies : Untalked(replies[i]))'
      <3> SUFFICES ASSUME NEW i, (i \in DOMAIN replies)' PROVE Untalked(replies[i])'
        OBVIOUS
      <3>1. PICK j \in DOMAIN replies : replies'[i] = replies[j]
        BY <1>1, Zenon
      <3>2. PICK v \in Workers : v = replies[j] /\ Untalked(v)
        BY <1>2, Zenon DEF TalkInv, Silent
      <3>. QED BY <2>1, <3>1, <3>2, Zenon DEF Untalked
    <2>. QED BY <2>2, <2>3, <2>4, Zenon DEF Silent
  <1>6. ASSUME NEW c \in Ctxs, sock'[c] # 0 PROVE Conversation(c)'
    <2>1. PICK w \in Workers : w = sock[c]
      BY <1>2, <1>6, Zenon
    <2>2. Conversation(c) /\ sock'[c] = w
      BY <1>6, <2>1, Zenon DEF TalkInv
    <2>. QED BY <2>1, <2>2, ConversationFrame, Zenon
  <1>. QED BY <1>4, <1>5, <1>6, Zenon DEF TalkInv

\* A thread that is not in a call of a context waits on none.
LEMMA NotWaiting ==
    /\ ppc.op \notin {"blob", "cmd"} => \A c \in Ctxs : ~Waiting(c)
    /\ \A o, c : Call(o, c).op = o /\ Call(o, c).ctx = c
    /\ Idle.op = "idle"
  <1>. QED BY Zenon DEF Waiting, Call, Idle

\* A new worker has talked to nobody.
LEMMA CreateConversation ==
    ASSUME TypeOK, TalkInv, ServerCreate
    PROVE  TalkInv'
  <1>1. PICK w \in Workers :
           /\ wpc[w] = "none" /\ wpc' = [wpc EXCEPT ![w] = "forked"]
           /\ replies' = IF ppc.op = "gone" THEN replies ELSE Append(replies, w)
    BY Zenon DEF ServerCreate
  <1>2. UNCHANGED <<ppc, sock, table, input, output, held, starved>>
    BY Zenon DEF ServerCreate, vmm, context
  <1>3. \A v \in Workers : /\ wpc'[v] = IF v = w THEN "forked" ELSE wpc[v]
                           /\ Running(v)' <=> Running(v) \/ v = w
    BY <1>1, Zenon DEF TypeOK, Running
  <1>4. /\ \A i \in DOMAIN replies' : (i \in DOMAIN replies /\ replies'[i] = replies[i]) \/ replies'[i] = w
        /\ \A i, j \in DOMAIN replies' : replies'[i] = w /\ replies'[j] = w => i = j
    <2>1. \A i \in DOMAIN replies : replies[i] # w
      BY <1>1, Zenon DEF TalkInv, SocketsApart
    <2>2. \A i \in DOMAIN replies' :
              (i \in DOMAIN replies /\ replies'[i] = replies[i]) \/ (replies'[i] = w /\ i = Len(replies) + 1)
      BY <1>1, SMTT(20) DEF TypeOK
    <2>. QED BY <2>1, <2>2, Zenon
  <1>5. /\ \A c \in Ctxs : sock[c] # 0 => sock[c] \in Workers /\ sock[c] # w
        /\ \A i \in DOMAIN replies : replies[i] \in Workers /\ replies[i] # w
        /\ \A c \in Ctxs : Waiting(c)' <=> Waiting(c)
        /\ w # 0 /\ Untalked(w)
    BY <1>1, <1>2, WorkersOrdinals DEF TypeOK, TalkInv, SocketsApart, Silent, Waiting
  <1>6. SocketsApart'
    <2>1. \A i, j \in DOMAIN replies' : replies'[i] = replies'[j] => i = j
      BY <1>4, <1>5, Zenon DEF TalkInv, SocketsApart
    <2>2. \A i \in DOMAIN replies', c \in Ctxs : sock'[c] # replies'[i]
      BY <1>2, <1>4, <1>5, Zenon DEF TalkInv, SocketsApart
    <2>3. \A v \in Workers : wpc[v] # "none" \/ v = w => wpc'[v] # "none"
      BY <1>3, Zenon
    <2>4. /\ \A c \in Ctxs : sock'[c] # 0 => wpc'[sock'[c]] # "none"
          /\ \A i \in DOMAIN replies' : wpc'[replies'[i]] # "none"
      BY <1>2, <1>4, <1>5, <2>3, Zenon DEF TalkInv, SocketsApart
    <2>. QED BY <1>2, <1>5, <2>1, <2>2, <2>4, Zenon DEF TalkInv, SocketsApart
  <1>7. Silent'
    <2>1. \A v : Untalked(v)' <=> Untalked(v)
      BY <1>2, Zenon DEF Untalked
    <2>2. \A v \in Workers : wpc'[v] = "none" => wpc[v] = "none"
      BY <1>3, Zenon
    <2>3. \A i \in DOMAIN replies' : Untalked(replies'[i])
      BY <1>4, <1>5, Zenon DEF TalkInv, Silent
    <2>. QED BY <1>2, <1>3, <2>1, <2>2, <2>3, Zenon DEF TalkInv, Silent
  <1>8. ASSUME NEW c \in Ctxs, sock'[c] # 0 PROVE Conversation(c)'
    <2>1. PICK v \in Workers : v = sock[c]
      BY <1>2, <1>5, <1>8, Zenon
    <2>2. Conversation(c) /\ sock'[c] = v /\ v # w
      BY <1>2, <1>5, <1>8, <2>1, Zenon DEF TalkInv
    <2>3. table'[c] \subseteq table[c] /\ (Running(v)' <=> Running(v))
      BY <1>2, <1>3, <2>2, Zenon
    <2>. QED BY <1>2, <2>1, <2>2, <2>3, ConversationFrame, Zenon
  <1>. QED BY <1>6, <1>7, <1>8, Zenon DEF TalkInv

\* Its fd has arrived, and INIT is the first message.
LEMMA CreatedConversation ==
    ASSUME TypeOK, TalkInv, ProxyCreated
    PROVE  TalkInv'
  <1>0. Head(replies) \in Workers /\ replies[1] = Head(replies) /\ 1 \in DOMAIN replies
    BY SMTT(20) DEF ProxyCreated, TypeOK
  <1>2. PICK d \in Ctxs : d = ppc.ctx
    BY WaitsOn, Zenon DEF TypeOK, ProxyCreated
  <1>3. PICK w \in Workers : w = Head(replies) /\ 1 \in DOMAIN replies /\ w = replies[1]
    BY <1>0, Zenon
  <1>1. /\ ppc.op = "create" /\ replies # <<>> /\ Running(w) /\ replies' = Tail(replies)
        /\ sock' = [sock EXCEPT ![d] = w] /\ table' = [table EXCEPT ![d] = {}]
        /\ input' = [input EXCEPT ![w] = Append(input[w], Msg("init", 0))] /\ ppc' = Idle
        /\ UNCHANGED <<wpc, output, held, starved>>
    BY <1>2, <1>3, Zenon DEF ProxyCreated, procs
  <1>4. /\ Untalked(w) /\ wpc[w] # "none" /\ w # 0 /\ \A c \in Ctxs : sock[c] # w
    BY <1>3, WorkersOrdinals, Zenon DEF TalkInv, SocketsApart, Silent
  <1>5. /\ \A i \in DOMAIN replies' : \E j \in DOMAIN replies : replies'[i] = replies[j]
        /\ \A i, j \in DOMAIN replies' : replies'[i] = replies'[j] => i = j
        /\ \A i \in DOMAIN replies' : replies'[i] # w
    BY <1>1, <1>3, RepliesLess, Zenon DEF TalkInv
  <1>6. /\ \A c \in Ctxs : /\ sock'[c] = IF c = d THEN w ELSE sock[c]
                           /\ table'[c] = IF c = d THEN {} ELSE table[c]
        /\ \A v \in Workers : input'[v] = IF v = w THEN <<Msg("init", 0)>> ELSE input[v]
    <2>1. input[w] = <<>>
      BY <1>4, Zenon DEF Untalked
    <2>2. Append(<<>>, Msg("init", 0)) = <<Msg("init", 0)>>
      OBVIOUS
    <2>3. \A v \in Workers : input'[v] = IF v = w THEN Append(<<>>, Msg("init", 0)) ELSE input[v]
      BY <1>1, <2>1, Zenon DEF TypeOK
    <2>4. \A c \in Ctxs : /\ sock'[c] = IF c = d THEN w ELSE sock[c]
                          /\ table'[c] = IF c = d THEN {} ELSE table[c]
      BY <1>1, Zenon DEF TypeOK
    <2>. QED BY <2>2, <2>3, <2>4, Zenon
  <1>7. /\ \A c \in Ctxs : ~Waiting(c) /\ ~Waiting(c)'
        /\ \A c \in Ctxs : sock[c] # 0 => sock[c] \in Workers
        /\ \A i \in DOMAIN replies : replies[i] \in Workers
    BY <1>1 DEF Waiting, Idle, TypeOK
  <1>8. SocketsApart'
    <2>1. \A c, e \in Ctxs : sock'[c] # 0 /\ sock'[c] = sock'[e] => c = e
      <3>1. \A c \in Ctxs : (c = d /\ sock'[c] = w) \/ (c # d /\ sock'[c] = sock[c])
        BY <1>6, Zenon
      <3>. QED BY <1>4, <3>1, Zenon DEF TalkInv, SocketsApart
    <2>2. \A i \in DOMAIN replies', c \in Ctxs : sock'[c] # replies'[i]
      BY <1>5, <1>6, SMTT(30) DEF TalkInv, SocketsApart
    <2>3. /\ \A c \in Ctxs : sock'[c] # 0 => wpc[sock'[c]] # "none"
          /\ \A i \in DOMAIN replies' : wpc[replies'[i]] # "none"
      BY <1>4, <1>5, <1>6, SMTT(30) DEF TalkInv, SocketsApart
    <2>. QED BY <1>1, <1>5, <1>7, <2>1, <2>2, <2>3, Zenon DEF SocketsApart
  <1>9. Silent'
    <2>1. \A v \in Workers : v # w /\ Untalked(v) => Untalked(v)'
      BY <1>1, <1>6, Zenon DEF Untalked
    <2>2. \A v \in Workers : Running(v)' <=> Running(v)
      BY <1>1, Zenon DEF Running
    <2>3. \A v \in Workers : ~Running(v)' => input'[v] = <<>> /\ v \notin starved'
      BY <1>1, <1>6, <2>2, Zenon DEF TalkInv, Silent
    <2>4. \A v \in Workers : wpc'[v] = "none" => Untalked(v)'
      BY <1>1, <1>4, <2>1, Zenon DEF TalkInv, Silent
    <2>5. (\A i \in DOMAIN replies : Untalked(replies[i]))'
      <3> SUFFICES ASSUME NEW i, (i \in DOMAIN replies)' PROVE Untalked(replies[i])'
        OBVIOUS
      <3>1. PICK v \in Workers : v = replies'[i] /\ v # w /\ Untalked(v)
        <4>1. PICK j \in DOMAIN replies : replies'[i] = replies[j]
          BY <1>5, Zenon
        <4>. QED BY <1>5, <1>7, <4>1, Zenon DEF TalkInv, Silent
      <3>2. Untalked(v)'
        BY <2>1, <3>1, Zenon
      <3>. QED BY <3>1, <3>2, Zenon DEF Untalked
    <2>. QED BY <2>3, <2>4, <2>5, Zenon DEF Silent
  <1>10. ASSUME NEW c \in Ctxs, sock'[c] # 0 PROVE Conversation(c)'
    <2>1. CASE c = d
      <3>1. sock'[c] = w /\ table'[c] = {} /\ ~Waiting(c)' /\ input'[w] = <<Msg("init", 0)>>
        BY <1>3, <1>6, <1>7, <2>1, Zenon
      <3>2. output'[w] = <<>> /\ w \notin starved'
        BY <1>1, <1>4, Zenon DEF Untalked
      <3>3. PostedTo(<<Msg("init", 0)>>, Len(<<Msg("init", 0)>>))
        BY MsgIs DEF PostedTo, Posted
      <3>4. Talk(c)'
        BY <3>1, <3>2, <3>3, Zenon DEF Talk
      <3>5. Attached(c)'
        BY <3>1, Zenon DEF Attached
      <3>. QED BY <3>4, <3>5, Zenon DEF Conversation
    <2>2. CASE c # d
      <3>1. sock'[c] = sock[c] /\ table'[c] \subseteq table[c] /\ sock[c] # w
        BY <1>4, <1>6, <2>2, Zenon
      <3>2. PICK v \in Workers : v = sock[c] /\ v # w
        BY <1>7, <1>10, <3>1, Zenon
      <3>3. Conversation(c) /\ sock'[c] = v
        BY <1>10, <3>1, <3>2, Zenon DEF TalkInv
      <3>4. input'[v] = input[v] /\ (Running(v)' <=> Running(v))
        BY <1>1, <1>6, <3>2, Zenon DEF Running
      <3>. QED BY <1>1, <1>7, <3>1, <3>2, <3>3, <3>4, ConversationFrame, Zenon
    <2>. QED BY <2>1, <2>2, Zenon
  <1>. QED BY <1>8, <1>9, <1>10, Zenon DEF TalkInv

LEMMA HoldRest ==
    ASSUME NEW q \in Seq(Messages), Rest(q), NEW h, NEW r, WillHold(q, h, r)
    PROVE  r \in h
  <1>1. PICK i \in 0..Len(q) : IF i = 0 THEN r \in h ELSE q[i] = Msg("import", r)
    BY Zenon DEF WillHold
  <1>2. i # 0 => q[i].op = "data"
    <2>1. CASE q = <<>>
      BY <1>1, <2>1
    <2>2. CASE Len(q) = 1 /\ q[1].op = "data"
      BY <1>1, <2>2
    <2>. QED BY <2>1, <2>2, Zenon DEF Rest
  <1>. QED BY <1>1, <1>2, MsgIs

LEMMA RestTail ==
    ASSUME NEW q \in Seq(Messages), q # <<>>, Rest(q)
    PROVE  q[1].op = "data" /\ Tail(q) = <<>>
  <1>1. Len(q) = 1 /\ q[1].op = "data"
    BY Zenon DEF Rest
  <1> DEFINE t == Tail(q)
  <1>2. t \in Seq(Messages) /\ Len(t) = 0
    BY <1>1, HeadTail
  <1> HIDE DEF t
  <1>3. t = <<>>
    BY <1>2
  <1>. QED BY <1>1, <1>3, Zenon DEF t

\* The proxy sends what needs no answer.
LEMMA PostConversation ==
    ASSUME TypeOK, NEW c \in Ctxs, NEW w \in Workers, w = sock[c], Conversation(c),
           ppc.op \notin {"blob", "cmd"}, ppc' = ppc, sock'[c] = w, NEW m \in Messages, Posted(m),
           input'[w] = Sent(w, <<m>>), output'[w] = output[w], held'[w] = held[w],
           w \in starved' <=> w \in starved, Running(w)' <=> Running(w),
           \A r \in table'[c] : m = Msg("import", r) \/ (r \in table[c] /\ m # Msg("destroy", r))
    PROVE  Conversation(c)'
  <1>1. ~Waiting(c) /\ ~Waiting(c)'
    BY Zenon DEF Waiting
  <1>2. output[w] = <<>> /\ w \notin starved /\ PostedTo(input[w], Len(input[w]))
    BY <1>1, Zenon DEF Conversation, Talk
  <1>3. input[w] \in Seq(Messages)
    BY Zenon DEF TypeOK
  <1>4. CASE Running(w)
    <2>1. input'[w] = Append(input[w], m)
      BY <1>3, <1>4, SentAppends, Zenon
    <2>2. PostedTo(input'[w], Len(input'[w]))
      BY <1>2, <1>3, <2>1, PostedAppend, Zenon
    <2>3. Talk(c)'
      BY <1>1, <1>2, <2>2, Zenon DEF Talk
    <2>4. \A r \in table[c] : WillHold(input[w], held[w], r)
      BY <1>2, <1>4, Zenon DEF Conversation, Attached
    <2>5. \A r \in table'[c] : WillHold(input'[w], held'[w], r)
      BY <1>3, <2>1, <2>4, HoldAppend, Zenon
    <2>. QED BY <2>3, <2>5, Zenon DEF Conversation, Attached
  <1>5. CASE ~Running(w)
    <2>1. input'[w] = input[w]
      BY <1>3, <1>5, SentAppends, Zenon
    <2>2. Talk(c)'
      BY <1>1, <1>2, <2>1, Zenon DEF Talk
    <2>. QED BY <1>5, <2>2, Zenon DEF Conversation, Attached
  <1>. QED BY <1>4, <1>5, Zenon

\* It sends a request and waits for the answer.
LEMMA AskConversation ==
    ASSUME TypeOK, NEW c \in Ctxs, NEW w \in Workers, w = sock[c], Conversation(c), Running(w),
           ppc.op \notin {"blob", "cmd"}, Waiting(c)', sock'[c] = w, table'[c] = table[c],
           NEW q \in Seq(Messages), input'[w] = q,
           PostedTo(input[w], Len(input[w])) => Asked(ppc', q),
           \A r : WillHold(input[w], held[w], r) => WillHold(q, held[w], r),
           output'[w] = output[w], held'[w] = held[w],
           w \in starved' <=> w \in starved, Running(w)' <=> Running(w)
    PROVE  Conversation(c)'
  <1>1. ~Waiting(c)
    BY Zenon DEF Waiting
  <1>2. output[w] = <<>> /\ w \notin starved /\ PostedTo(input[w], Len(input[w]))
    BY <1>1, Zenon DEF Conversation, Talk
  <1>3. Talk(c)'
    BY <1>2, Zenon DEF Talk
  <1>4. \A r \in table[c] : WillHold(input[w], held[w], r)
    BY <1>2, Zenon DEF Conversation, Attached
  <1>. QED BY <1>3, <1>4, Zenon DEF Conversation, Attached

\* What a worker finds that has a message to read
LEMMA FirstMessage ==
    ASSUME TypeOK, NEW c \in Ctxs, NEW w \in Workers, w = sock[c], Conversation(c), Running(w),
           input[w] # <<>>
    PROVE  /\ output[w] = <<>>
           /\ \/ ~Waiting(c) /\ w \notin starved /\ PostedTo(input[w], Len(input[w])) /\ Posted(input[w][1])
              \/ Waiting(c) /\ w \notin starved /\ Asked(ppc, input[w])
              \/ /\ Waiting(c) /\ w \in starved /\ ppc.op = "cmd" /\ Rest(input[w])
                 /\ input[w][1].op = "data"
           /\ \A r \in table[c] : WillHold(input[w], held[w], r)
  <1>1. input[w] \in Seq(Messages)
    BY Zenon DEF TypeOK
  <1>2. \A r \in table[c] : WillHold(input[w], held[w], r)
    BY Zenon DEF Conversation, Attached
  <1>3. CASE ~Waiting(c)
    <2>1. output[w] = <<>> /\ w \notin starved /\ PostedTo(input[w], Len(input[w]))
      BY <1>3, Zenon DEF Conversation, Talk
    <2>2. 1 \in 1..Len(input[w])
      BY <1>1
    <2>. QED BY <1>2, <1>3, <2>1, <2>2, Zenon DEF PostedTo
  <1>4. CASE Waiting(c)
    <2>1. ~Answered(ppc, input[w], output[w])
      BY Zenon DEF Answered
    <2>. QED BY <1>1, <1>2, <1>4, <2>1, RestTail, Zenon DEF Conversation, Talk
  <1>. QED BY <1>3, <1>4, Zenon

\* A message without answer is handled.
LEMMA TakePosted ==
    ASSUME TypeOK, NEW c \in Ctxs, NEW w \in Workers, w = sock[c], Conversation(c), Running(w),
           input[w] # <<>>, Posted(input[w][1]), ppc' = ppc, sock'[c] = w, table'[c] = table[c],
           input'[w] = Tail(input[w]), output'[w] = output[w], w \in starved' <=> w \in starved,
           Running(w)' <=> Running(w),
           \A r \in table[c] :
               /\ r \in held[w] /\ input[w][1] # Msg("destroy", r) => r \in held'[w]
               /\ input[w][1] = Msg("import", r) => r \in held'[w]
    PROVE  Conversation(c)'
  <1>1. input[w] \in Seq(Messages) /\ Len(input[w]) \in 1..Len(input[w])
    BY SMTT(20) DEF TypeOK
  <1>2. (Waiting(c)' <=> Waiting(c)) /\ input[w][1].op # "data"
    BY Zenon DEF Waiting, Posted
  <1>3. /\ output[w] = <<>>
        /\ \/ ~Waiting(c) /\ w \notin starved /\ PostedTo(input[w], Len(input[w]))
           \/ Waiting(c) /\ w \notin starved /\ Asked(ppc, input[w])
        /\ w \notin starved => \A r \in table[c] : WillHold(input[w], held[w], r)
    BY <1>2, FirstMessage, Zenon
  <1>4. Attached(c)'
    <2>1. \A r \in table[c] : WillHold(Tail(input[w]), held'[w], r)
      BY <1>1, <1>3, HoldTail, Zenon
    <2>. QED BY <2>1, Zenon DEF Attached
  <1>5. CASE ~Waiting(c)
    <2>1. PostedTo(Tail(input[w]), Len(input[w]) - 1) /\ Len(Tail(input[w])) = Len(input[w]) - 1
      BY <1>1, <1>3, <1>5, PostedTail
    <2>2. Talk(c)'
      BY <1>2, <1>3, <1>5, <2>1, Zenon DEF Talk
    <2>. QED BY <1>4, <2>2, Zenon DEF Conversation
  <1>6. CASE Waiting(c)
    <2>1. Asked(ppc, Tail(input[w]))
      BY <1>1, <1>3, <1>6, AskedHead, Zenon
    <2>2. Talk(c)'
      BY <1>2, <1>3, <1>6, <2>1, Zenon DEF Talk
    <2>. QED BY <1>4, <2>2, Zenon DEF Conversation
  <1>. QED BY <1>5, <1>6, Zenon

\* A context with a worker, for OneConversation
LEMMA ContextAlone ==
    ASSUME TypeOK, TalkInv, NEW c \in Ctxs, NEW w \in Workers, w = sock[c]
    PROVE  /\ Conversation(c) /\ wpc[w] # "none" /\ \A i \in DOMAIN replies : replies[i] # w
           /\ \A d \in Ctxs : sock[d] = w => d = c
           /\ ~Running(w) => input[w] = <<>> /\ w \notin starved
           /\ input[w] \in Seq(Messages)
  <1>1. sock[c] # 0
    BY WorkersOrdinals, Zenon
  <1>2. Conversation(c) /\ wpc[w] # "none" /\ \A i \in DOMAIN replies : replies[i] # w
    BY <1>1, Zenon DEF TalkInv, SocketsApart
  <1>3. \A d \in Ctxs : sock[d] = w => d = c
    BY <1>1, Zenon DEF TalkInv, SocketsApart
  <1>4. ~Running(w) => input[w] = <<>> /\ w \notin starved
    BY Zenon DEF TalkInv, Silent
  <1>. QED BY <1>2, <1>3, <1>4, Zenon DEF TypeOK

\* A thread that is free, and then waits on context c only
LEMMA WaitsOnOne ==
    ASSUME NEW c \in Ctxs, ppc = Idle, ppc'.ctx = c \/ ppc' = ppc
    PROVE  /\ ppc.op \notin {"blob", "cmd"}
           /\ \A d \in Ctxs : d # c => ~Waiting(d) /\ ~Waiting(d)'
  <1>. QED BY DEF Waiting, Idle

LEMMA AttachConversation ==
    ASSUME TypeOK, TalkInv, NEW c \in Ctxs, NEW r \in Res, ProxyAttach(c, r) \/ ProxyDetach(c, r)
    PROVE  TalkInv'
  <1>1. sock[c] # 0 /\ ppc = Idle /\ ppc' = ppc
    BY Zenon DEF ProxyAttach, ProxyDetach, Ask
  <1>2. PICK w \in Workers : w = sock[c]
    BY <1>1, Zenon DEF TypeOK
  <1>3. /\ Conversation(c) /\ wpc[w] # "none" /\ \A i \in DOMAIN replies : replies[i] # w
        /\ \A d \in Ctxs : sock[d] = w => d = c
        /\ ~Running(w) => input[w] = <<>> /\ w \notin starved
        /\ input[w] \in Seq(Messages)
    BY <1>2, ContextAlone, Zenon
  <1>4. UNCHANGED <<sock, replies, wpc, output, held, starved>>
    BY Zenon DEF ProxyAttach, ProxyDetach, client, procs
  <1>5. /\ ppc.op \notin {"blob", "cmd"} /\ (Running(w)' <=> Running(w))
        /\ \A d \in Ctxs : d # c => ~Waiting(d) /\ ~Waiting(d)'
    BY <1>1, <1>4, WaitsOnOne, Zenon DEF Running
  <1>6. PICK m \in Messages :
           /\ Posted(m) /\ input' = [input EXCEPT ![w] = Sent(w, <<m>>)]
           /\ \A s \in table'[c] : m = Msg("import", s) \/ (s \in table[c] /\ m # Msg("destroy", s))
    <2>1. CASE ProxyAttach(c, r)
      <3>1. Msg("import", r) \in Messages /\ Posted(Msg("import", r)) /\ Msg("import", r).op = "import"
        BY Values, MsgIs, Zenon DEF Posted
      <3>2. \A s : Msg("import", r) # Msg("destroy", s)
        BY MsgIs, SMTT(20)
      <3>3. table'[c] = table[c] \cup {r}
        BY <2>1, Zenon DEF ProxyAttach, TypeOK
      <3>4. input' = [input EXCEPT ![w] = Sent(w, <<Msg("import", r)>>)]
        BY <1>2, <2>1, Zenon DEF ProxyAttach
      <3>. QED BY <3>1, <3>2, <3>3, <3>4, Zenon
    <2>2. CASE ProxyDetach(c, r)
      <3>1. Msg("destroy", r) \in Messages /\ Posted(Msg("destroy", r))
        BY Values, MsgIs, Zenon DEF Posted
      <3>2. \A s : s # r => Msg("destroy", r) # Msg("destroy", s)
        BY MsgIs, SMTT(20)
      <3>3. table'[c] = table[c] \ {r}
        BY <2>2, Zenon DEF ProxyDetach, TypeOK
      <3>4. input' = [input EXCEPT ![w] = Sent(w, <<Msg("destroy", r)>>)]
        BY <1>2, <2>2, Zenon DEF ProxyDetach
      <3>. QED BY <3>1, <3>2, <3>3, <3>4, Zenon
    <2>. QED BY <2>1, <2>2, Zenon
  <1>7. /\ input'[w] = Sent(w, <<m>>) /\ \A v \in Workers : v # w => input'[v] = input[v]
    BY <1>6, Zenon DEF TypeOK
  <1>8. Conversation(c)'
    BY <1>1, <1>2, <1>3, <1>4, <1>5, <1>6, <1>7, PostConversation, Zenon
  <1>9. ~Running(w) => input'[w] = <<>> /\ w \notin starved'
    BY <1>3, <1>4, <1>6, <1>7, SentAppends, Zenon
  <1>10. \A d \in Ctxs : d # c => table'[d] = table[d]
    BY Zenon DEF ProxyAttach, ProxyDetach, TypeOK
  <1>11. /\ \A v \in Workers : v # w => /\ input'[v] = input[v] /\ output'[v] = output[v]
                                        /\ held'[v] = held[v] /\ (v \in starved' <=> v \in starved)
         /\ \A d \in Ctxs : sock[d] # w => table'[d] \subseteq table[d] /\ ppc' = ppc
         /\ \A d \in Ctxs : sock[d] = w => Conversation(d)'
    BY <1>1, <1>2, <1>3, <1>4, <1>7, <1>8, <1>10, Zenon
  <1>. QED BY <1>3, <1>4, <1>9, <1>11, OneConversation, Zenon

LEMMA RequestConversation ==
    ASSUME TypeOK, TalkInv, NEW c \in Ctxs,
           ProxySubmitCmd(c) \/ \E r \in Res : ProxyGetBlob(c, r)
    PROVE  TalkInv'
  <1>1. sock[c] # 0 /\ ppc = Idle
    BY Zenon DEF ProxySubmitCmd, ProxyGetBlob, Ask
  <1>2. PICK w \in Workers : w = sock[c]
    BY <1>1, Zenon DEF TypeOK
  <1>3. /\ Conversation(c) /\ wpc[w] # "none" /\ \A i \in DOMAIN replies : replies[i] # w
        /\ \A d \in Ctxs : sock[d] = w => d = c
        /\ input[w] \in Seq(Messages)
    BY <1>2, ContextAlone, Zenon
  <1>4. UNCHANGED <<sock, table, replies, wpc, output, held, starved>> /\ Running(w)
    BY <1>2, Zenon DEF ProxySubmitCmd, ProxyGetBlob, client, procs
  <1>5. Waiting(c)' /\ ppc'.ctx = c
    <2>1. ppc'.op \in {"blob", "cmd"} /\ ppc'.ctx = c
      <3>1. CASE ProxySubmitCmd(c)
        BY <3>1, NotWaiting, Zenon DEF ProxySubmitCmd
      <3>2. ASSUME NEW r \in Res, ProxyGetBlob(c, r) PROVE ppc'.op \in {"blob", "cmd"} /\ ppc'.ctx = c
        BY <3>2, Zenon DEF ProxyGetBlob
      <3>. QED BY <3>1, <3>2, Zenon
    <2>. QED BY <2>1, Zenon DEF Waiting
  <1>6. /\ ppc.op \notin {"blob", "cmd"} /\ (Running(w)' <=> Running(w))
        /\ \A d \in Ctxs : d # c => ~Waiting(d) /\ ~Waiting(d)'
    BY <1>1, <1>4, <1>5, WaitsOnOne, Zenon DEF Running
  <1>7. PICK q \in Seq(Messages) :
           /\ input' = [input EXCEPT ![w] = q]
           /\ PostedTo(input[w], Len(input[w])) => Asked(ppc', q)
           /\ \A s : WillHold(input[w], held[w], s) => WillHold(q, held[w], s)
    <2>0. ASSUME NEW t \in Seq(Messages), NEW m \in Messages, m.op # "destroy"
          PROVE  /\ Append(t, m) \in Seq(Messages)
                 /\ \A s : WillHold(t, held[w], s) => WillHold(Append(t, m), held[w], s)
      <3>1. \A s : m # Msg("destroy", s)
        BY <2>0, MsgIs, Zenon
      <3>. QED BY <2>0, <3>1, AppendIs, HoldAppend, Zenon
    <2>1. ASSUME NEW r \in Res, ProxyGetBlob(c, r)
          PROVE  \E q \in Seq(Messages) :
                     /\ input' = [input EXCEPT ![w] = q]
                     /\ PostedTo(input[w], Len(input[w])) => Asked(ppc', q)
                     /\ \A s : WillHold(input[w], held[w], s) => WillHold(q, held[w], s)
      <3>1. Msg("blob", r) \in Messages /\ Msg("blob", r).op # "destroy"
        BY Values, MsgIs, SMTT(20)
      <3>2. ppc'.op = "blob" /\ ppc'.res = r
        BY <2>1, Zenon DEF ProxyGetBlob
      <3>3. input' = [input EXCEPT ![w] = Append(input[w], Msg("blob", r))]
        BY <1>2, <1>3, <1>4, <2>1, <3>1, SentAppends, Zenon DEF ProxyGetBlob
      <3>4. PostedTo(input[w], Len(input[w])) => Asked(ppc', Append(input[w], Msg("blob", r)))
        BY <1>3, <3>1, <3>2, AskedAppend, Zenon
      <3>. QED BY <1>3, <2>0, <3>1, <3>3, <3>4, Zenon
    <2>2. CASE ProxySubmitCmd(c)
      <3>1. /\ \A o \in {"cmd", "large", "data"} : Msg(o, 0) \in Messages /\ Msg(o, 0).op # "destroy"
            /\ ppc'.op = "cmd"
        BY <2>2, Values, MsgIs, Zenon DEF ProxySubmitCmd, Call
      <3>2. PICK ms \in {<<Msg("cmd", 0)>>, <<Msg("large", 0), Msg("data", 0)>>} :
                input' = [input EXCEPT ![w] = Sent(w, ms)]
        BY <1>2, <2>2, Zenon DEF ProxySubmitCmd
      <3>3. CASE ms = <<Msg("cmd", 0)>>
        <4>1. Sent(w, ms) = Append(input[w], Msg("cmd", 0))
          BY <1>3, <1>4, <3>1, <3>3, SentAppends, Zenon
        <4>2. PostedTo(input[w], Len(input[w])) => Asked(ppc', Append(input[w], Msg("cmd", 0)))
          BY <1>3, <3>1, AskedAppend, Zenon
        <4>. QED BY <1>3, <2>0, <3>1, <3>2, <4>1, <4>2, Zenon
      <3>4. CASE ms = <<Msg("large", 0), Msg("data", 0)>>
        <4>1. Sent(w, ms) = Append(Append(input[w], Msg("large", 0)), Msg("data", 0))
          BY <1>3, <1>4, <3>1, <3>4, SentAppends, Zenon
        <4>2. PostedTo(input[w], Len(input[w]))
                  => Asked(ppc', Append(Append(input[w], Msg("large", 0)), Msg("data", 0)))
          BY <1>3, <3>1, AskedAppend, Zenon
        <4>3. /\ Append(input[w], Msg("large", 0)) \in Seq(Messages)
              /\ \A s : WillHold(input[w], held[w], s)
                            => WillHold(Append(input[w], Msg("large", 0)), held[w], s)
          BY <1>3, <2>0, <3>1, Zenon
        <4>4. /\ Append(Append(input[w], Msg("large", 0)), Msg("data", 0)) \in Seq(Messages)
              /\ \A s : WillHold(Append(input[w], Msg("large", 0)), held[w], s)
                     => WillHold(Append(Append(input[w], Msg("large", 0)), Msg("data", 0)), held[w], s)
          BY <2>0, <3>1, <4>3, Zenon
        <4>. QED BY <3>2, <4>1, <4>2, <4>3, <4>4, Zenon
      <3>. QED BY <3>2, <3>3, <3>4, Zenon
    <2>. QED BY <2>1, <2>2, Zenon
  <1>8. input'[w] = q /\ \A v \in Workers : v # w => input'[v] = input[v]
    BY <1>7, Zenon DEF TypeOK
  <1>9. Conversation(c)'
    BY <1>2, <1>3, <1>4, <1>5, <1>6, <1>7, <1>8, AskConversation, Zenon
  <1>10. /\ \A v \in Workers : v # w => /\ input'[v] = input[v] /\ output'[v] = output[v]
                                        /\ held'[v] = held[v] /\ (v \in starved' <=> v \in starved)
         /\ \A d \in Ctxs : sock[d] # w => table'[d] \subseteq table[d] /\ ~Waiting(d) /\ ~Waiting(d)'
         /\ \A d \in Ctxs : sock[d] = w => Conversation(d)'
    BY <1>2, <1>3, <1>4, <1>6, <1>8, <1>9, Zenon
  <1>. QED BY <1>3, <1>4, <1>10, OneConversation, Zenon

\* An unref'd resource is detached from every context.
LEMMA UnrefConversation ==
    ASSUME TypeOK, TalkInv, NEW r \in Res, VmmUnref(r)
    PROVE  TalkInv'
  <1>1. /\ ppc = Idle /\ ppc' = ppc /\ UNCHANGED <<sock, replies, wpc, output, held, starved>>
    BY Zenon DEF VmmUnref, client, procs
  <1>2. /\ Msg("destroy", r) \in Messages /\ Posted(Msg("destroy", r))
        /\ \A s : s # r => Msg("destroy", r) # Msg("destroy", s)
    BY Values, MsgIs, SMTT(20) DEF Posted
  <1>3. /\ \A w \in Workers : input'[w] = IF \E c \in Ctxs : sock[c] = w
                                          THEN Sent(w, <<Msg("destroy", r)>>) ELSE input[w]
        /\ \A c \in Ctxs : table'[c] = table[c] \ {r}
    BY Zenon DEF VmmUnref
  <1>4. \A w \in Workers : (Running(w)' <=> Running(w)) /\ (~Running(w) => input'[w] = input[w])
    <2>1. \A w \in Workers : ~Running(w) => Sent(w, <<Msg("destroy", r)>>) = input[w]
      BY <1>2, SentAppends, Zenon DEF TypeOK
    <2>. QED BY <1>1, <1>3, <2>1, Zenon DEF Running
  <1>5. SocketsApart'
    <2>1. \A c \in Ctxs : Waiting(c)' <=> Waiting(c)
      BY <1>1, Zenon DEF Waiting
    <2>. QED BY <1>1, <2>1, Zenon DEF TalkInv, SocketsApart
  <1>6. Silent'
    <2>1. \A w \in Workers : ~Running(w)' => input'[w] = <<>> /\ w \notin starved'
      BY <1>1, <1>4, Zenon DEF TalkInv, Silent
    <2>2. \A w \in Workers : wpc'[w] = "none" => Untalked(w)'
      <3>1. \A w \in Workers : wpc[w] = "none" => ~Running(w)
        BY Zenon DEF Running
      <3>. QED BY <1>1, <1>4, <3>1, Zenon DEF TalkInv, Silent, Untalked
    <2>3. (\A i \in DOMAIN replies : Untalked(replies[i]))'
      <3> SUFFICES ASSUME NEW i \in DOMAIN replies PROVE Untalked(replies[i])'
        BY <1>1, Zenon
      <3>1. PICK w \in Workers : w = replies[i]
        BY SMTT(20) DEF TypeOK
      <3>2. Untalked(w) /\ \A c \in Ctxs : sock[c] # w
        BY <3>1, Zenon DEF TalkInv, Silent, SocketsApart
      <3>3. input'[w] = input[w]
        BY <1>3, <3>2, Zenon
      <3>. QED BY <1>1, <3>1, <3>2, <3>3, Zenon DEF Untalked
    <2>. QED BY <2>1, <2>2, <2>3, Zenon DEF Silent
  <1>7. ASSUME NEW c \in Ctxs, sock'[c] # 0 PROVE Conversation(c)'
    <2>1. PICK w \in Workers : w = sock[c]
      BY <1>1, <1>7, Zenon DEF TypeOK
    <2>2. Conversation(c) /\ sock'[c] = w
      BY <1>1, <1>7, <2>1, Zenon DEF TalkInv
    <2>3. input'[w] = Sent(w, <<Msg("destroy", r)>>)
      BY <1>3, <2>1, Zenon
    <2>4. \A s \in table'[c] : s \in table[c] /\ Msg("destroy", r) # Msg("destroy", s)
      <3>1. \A s \in table'[c] : s \in table[c] /\ s # r
        BY <1>3
      <3>. QED BY <1>2, <3>1, Zenon
    <2>5. ppc.op \notin {"blob", "cmd"}
      BY <1>1, Zenon DEF Idle
    <2>6. (Running(w)' <=> Running(w)) /\ output'[w] = output[w] /\ held'[w] = held[w]
          /\ (w \in starved' <=> w \in starved)
      BY <1>1, <1>4, Zenon
    <2>. QED BY <1>1, <1>2, <2>1, <2>2, <2>3, <2>4, <2>5, <2>6, PostConversation, Zenon
  <1>. QED BY <1>5, <1>6, <1>7, Zenon DEF TalkInv

\* The thread gets its answer, or finds that there is none to come.
LEMMA ReplyConversation ==
    ASSUME TypeOK, TalkInv, ProxyBlobReply \/ ProxyCmdReply \/ ProxyReplyFails
    PROVE  TalkInv'
  <1>1. ppc.op \in {"blob", "cmd"} /\ ppc' = Idle
    BY Zenon DEF ProxyBlobReply, ProxyCmdReply, ProxyReplyFails
  <1>2. PICK c \in Ctxs : c = ppc.ctx /\ Waiting(c)
    BY <1>1, WaitsOn, Zenon DEF TypeOK, Waiting
  <1>3. PICK w \in Workers : w = sock[c]
    BY <1>2, Zenon DEF TalkInv, SocketsApart, TypeOK
  <1>4. /\ Conversation(c) /\ wpc[w] # "none" /\ \A i \in DOMAIN replies : replies[i] # w
        /\ \A d \in Ctxs : sock[d] = w => d = c
        /\ ~Running(w) => input[w] = <<>> /\ w \notin starved
        /\ input[w] \in Seq(Messages)
    BY <1>3, ContextAlone, Zenon
  <1>5. UNCHANGED <<sock, replies, wpc, input, held, starved>>
    BY Zenon DEF ProxyBlobReply, ProxyCmdReply, ProxyReplyFails, client, procs, context
  <1>6. /\ \A d \in Ctxs : ~Waiting(d)' /\ (d # c => ~Waiting(d))
        /\ \A v \in Workers : Running(v)' <=> Running(v)
    BY <1>1, <1>2, <1>5, Zenon DEF Waiting, Idle, Running
  <1>7. /\ input[w] = <<>> /\ w \notin starved /\ output'[w] = <<>>
        /\ \A v \in Workers : v # w => output'[v] = output[v]
    <2>1. CASE ProxyReplyFails
      BY <1>2, <1>3, <1>4, <2>1, Zenon DEF ProxyReplyFails, context
    <2>2. CASE ProxyBlobReply \/ ProxyCmdReply
      <3>1. output[w] # <<>> /\ output' = [output EXCEPT ![w] = Tail(output[w])]
        BY <1>2, <1>3, <2>2, Zenon DEF ProxyBlobReply, ProxyCmdReply
      <3>2. w \notin starved /\ Answered(ppc, input[w], output[w])
        BY <1>2, <1>3, <1>4, <3>1, Zenon DEF Conversation, Talk
      <3>3. output[w] \in Seq(Answers) /\ Len(output[w]) = 1 /\ input[w] = <<>>
        BY <3>2, Zenon DEF TypeOK, Answered
      <3>4. Tail(output[w]) = <<>>
        <4> DEFINE t == Tail(output[w])
        <4>1. t \in Seq(Answers) /\ Len(t) = 0
          BY <3>1, <3>3, HeadTail
        <4> HIDE DEF t
        <4>2. t = <<>>
          BY <4>1
        <4>. QED BY <4>2, Zenon DEF t
      <3>. QED BY <3>1, <3>2, <3>3, <3>4, Zenon DEF TypeOK
    <2>. QED BY <2>1, <2>2, Zenon
  <1>8. Running(w) => \A r \in table'[c] : r \in held[w]
    <2> SUFFICES ASSUME Running(w), NEW r \in table'[c] PROVE r \in held[w]
      OBVIOUS
    <2>1. r \in table[c] \/ (r = ppc.res /\ ppc.op = "blob" /\ output[w] # <<>> /\ Head(output[w]).ok)
      <3>1. CASE ProxyBlobReply
        BY <1>2, <1>3, <3>1, SMTT(20) DEF ProxyBlobReply, TypeOK
      <3>2. CASE ProxyCmdReply \/ ProxyReplyFails
        BY <3>2, Zenon DEF ProxyCmdReply, ProxyReplyFails
      <3>. QED BY <3>1, <3>2, Zenon
    <2>2. CASE r \in table[c]
      <3>1. WillHold(input[w], held[w], r)
        BY <1>3, <1>4, <1>7, <2>2, Zenon DEF Conversation, Attached
      <3>. QED BY <1>7, <3>1, HoldNothing, Zenon
    <2>3. CASE r = ppc.res /\ ppc.op = "blob" /\ output[w] # <<>> /\ Head(output[w]).ok
      <3>1. /\ Answered(ppc, input[w], output[w])
            /\ (ppc.op = "blob" /\ output[w][1].ok /\ Running(w) => ppc.res \in held[w])
        BY <1>2, <1>3, <1>4, <1>7, <2>3, ZenonT(40) DEF Conversation, Talk
      <3>2. Head(output[w]) = output[w][1]
        BY <2>3, HeadTail DEF TypeOK
      <3>. QED BY <2>3, <3>1, <3>2, Zenon
    <2>. QED BY <2>1, <2>2, <2>3, Zenon
  <1>9. Conversation(c)'
    <2>1. input'[w] = <<>> /\ w \notin starved' /\ output'[w] = <<>> /\ sock'[c] = w /\ held'[w] = held[w]
      BY <1>3, <1>5, <1>7, Zenon
    <2>2. Talk(c)'
      BY <1>6, <2>1, PostedNone, Zenon DEF Talk
    <2>3. \A r \in table'[c] : Running(w) => WillHold(<<>>, held[w], r)
      BY <1>8, HoldNothing, Zenon
    <2>4. Attached(c)'
      BY <1>6, <2>1, <2>3, Zenon DEF Attached
    <2>. QED BY <2>2, <2>4, Zenon DEF Conversation
  <1>10. \A d \in Ctxs : d # c => table'[d] = table[d]
    BY <1>2, Zenon DEF ProxyBlobReply, ProxyCmdReply, ProxyReplyFails, TypeOK
  <1>11. /\ \A v \in Workers : v # w => /\ input'[v] = input[v] /\ output'[v] = output[v]
                                        /\ held'[v] = held[v] /\ (v \in starved' <=> v \in starved)
         /\ \A d \in Ctxs : sock[d] # w => table'[d] \subseteq table[d] /\ ~Waiting(d) /\ ~Waiting(d)'
         /\ \A d \in Ctxs : sock[d] = w => Conversation(d)'
         /\ ~Running(w) => input'[w] = <<>> /\ w \notin starved'
    BY <1>3, <1>4, <1>5, <1>6, <1>7, <1>9, <1>10, Zenon
  <1>. QED BY <1>4, <1>5, <1>11, OneConversation, Zenon

\* A socket is closed.
LEMMA CloseConversation ==
    ASSUME TypeOK, TalkInv, ProxyClose
    PROVE  TalkInv'
  <1>1. PICK d \in Ctxs : d = ppc.ctx
    BY WaitsOn, Zenon DEF TypeOK, ProxyClose
  <1>2. /\ ppc.op = "close" /\ ppc' = Idle /\ UNCHANGED <<replies, wpc, input, output, held, starved>>
    BY Zenon DEF ProxyClose, client, procs, context
  <1>3. \A c \in Ctxs : /\ sock'[c] = IF c = d THEN 0 ELSE sock[c]
                        /\ table'[c] = IF c = d THEN {} ELSE table[c]
    BY <1>1, Zenon DEF ProxyClose, TypeOK
  <1>4. /\ \A c \in Ctxs : ~Waiting(c) /\ ~Waiting(c)'
        /\ \A v \in Workers : Running(v)' <=> Running(v)
        /\ \A i \in DOMAIN replies : replies[i] # 0
    BY <1>2, WorkersOrdinals DEF Waiting, Idle, Running, TypeOK
  <1>5. SocketsApart'
    <2>1. \A c \in Ctxs : sock'[c] # 0 => sock'[c] = sock[c]
      BY <1>3, Zenon
    <2>2. \A i \in DOMAIN replies, c \in Ctxs : sock'[c] # replies[i]
      BY <1>3, <1>4, Zenon DEF TalkInv, SocketsApart
    <2>3. \A c, e \in Ctxs : sock'[c] # 0 /\ sock'[c] = sock'[e] => c = e
      BY <2>1, Zenon DEF TalkInv, SocketsApart
    <2>4. \A c \in Ctxs : sock'[c] # 0 => wpc[sock'[c]] # "none"
      BY <2>1, Zenon DEF TalkInv, SocketsApart
    <2>5. /\ \A i, j \in DOMAIN replies : replies[i] = replies[j] => i = j
          /\ \A i \in DOMAIN replies : wpc[replies[i]] # "none"
      BY Zenon DEF TalkInv, SocketsApart
    <2>. QED BY <1>2, <1>4, <2>2, <2>3, <2>4, <2>5, Zenon DEF SocketsApart
  <1>6. Silent'
    BY <1>2, <1>4, Zenon DEF TalkInv, Silent, Untalked
  <1>7. ASSUME NEW c \in Ctxs, sock'[c] # 0 PROVE Conversation(c)'
    <2>1. sock'[c] = sock[c] /\ table'[c] \subseteq table[c] /\ sock[c] # 0
      BY <1>3, <1>7, Zenon
    <2>2. PICK w \in Workers : w = sock[c]
      BY <2>1, Zenon DEF TypeOK
    <2>3. Conversation(c) /\ sock'[c] = w
      BY <2>1, <2>2, Zenon DEF TalkInv
    <2>. QED BY <1>2, <1>4, <2>1, <2>2, <2>3, ConversationFrame, Zenon
  <1>. QED BY <1>5, <1>6, <1>7, Zenon DEF TalkInv

\* A worker handles a message; what its own context sees of it
LEMMA WorkerConversation ==
    ASSUME TypeOK, TalkInv, NEW w \in Workers, wpc[w] = "main", input[w] # <<>>,
           UNCHANGED <<vmm, replies, wpc>>,
           \A v \in Workers : v # w => /\ input'[v] = input[v] /\ output'[v] = output[v]
                                       /\ held'[v] = held[v] /\ (v \in starved' <=> v \in starved),
           \A c \in Ctxs : w = sock[c] /\ Conversation(c) => Conversation(c)'
    PROVE  TalkInv'
  <1>1. Running(w) /\ wpc[w] # "none"
    BY ZenonT(40) DEF Running
  <1>2. \A i \in DOMAIN replies : replies[i] # w
    BY SMTT(20) DEF TalkInv, Silent, Untalked
  <1>3. \A c \in Ctxs : sock[c] # w => table'[c] \subseteq table[c] /\ ppc' = ppc
    BY Zenon DEF vmm
  <1>4. \A c \in Ctxs : sock[c] = w => Conversation(c)'
    BY ContextAlone, Zenon
  <1>5. UNCHANGED <<sock, replies, wpc>>
    BY Zenon DEF vmm
  <1>. QED BY <1>1, <1>2, <1>3, <1>4, <1>5, OneConversation, Zenon

LEMMA WorkerPosted ==
    ASSUME TypeOK, TalkInv, NEW w \in Workers,
           WorkerInit(w) \/ WorkerImportResource(w) \/ WorkerDestroyResource(w)
    PROVE  TalkInv'
  <1>1. /\ wpc[w] = "main" /\ input[w] # <<>> /\ Head(input[w]).op \in {"init", "import", "destroy"}
        /\ input' = [input EXCEPT ![w] = Tail(input[w])]
        /\ UNCHANGED <<vmm, replies, wpc, output, starved>>
    BY Zenon DEF WorkerInit, WorkerImportResource, WorkerDestroyResource, Take, client, procs
  <1>2. /\ input'[w] = Tail(input[w]) /\ \A v \in Workers : v # w => input'[v] = input[v]
    BY <1>1, Zenon DEF TypeOK
  <1>3. Head(input[w]) = input[w][1] /\ Posted(input[w][1]) /\ Running(w) /\ (Running(w)' <=> Running(w))
    BY <1>1, HeadTail, Zenon DEF TypeOK, Posted, Running
  <1>4. /\ \A v \in Workers : v # w => held'[v] = held[v]
        /\ \A r \in Res : /\ r \in held[w] /\ input[w][1] # Msg("destroy", r) => r \in held'[w]
                          /\ input[w][1] = Msg("import", r) => r \in held'[w]
    <2>1. CASE WorkerInit(w)
      <3>1. held' = held /\ input[w][1].op = "init"
        BY <1>3, <2>1, Zenon DEF WorkerInit, Take
      <3>. QED BY <3>1, MsgIs
    <2>2. CASE WorkerImportResource(w)
      <3>1. /\ held'[w] = held[w] \cup {input[w][1].res} /\ \A v \in Workers : v # w => held'[v] = held[v]
        BY <1>3, <2>2, Zenon DEF WorkerImportResource, TypeOK
      <3>. QED BY <3>1, MsgIs
    <2>3. CASE WorkerDestroyResource(w)
      <3>1. /\ held'[w] = held[w] \ {input[w][1].res} /\ \A v \in Workers : v # w => held'[v] = held[v]
            /\ input[w][1].op = "destroy" /\ input[w][1] \in Messages
        BY <1>1, <1>3, <2>3, HeadTail, SMTT(20) DEF WorkerDestroyResource, TypeOK, Take
      <3>2. input[w][1] = Msg("destroy", input[w][1].res)
        BY <3>1, Zenon DEF Messages, Msg
      <3>3. \A r : r = input[w][1].res => input[w][1] = Msg("destroy", r)
        BY <3>2, Zenon
      <3>4. \A r : input[w][1] # Msg("import", r)
        BY <3>1, MsgIs
      <3>. QED BY <3>1, <3>3, <3>4, ZenonT(40)
    <2>. QED BY <2>1, <2>2, <2>3, Zenon
  <1>5. ASSUME NEW c \in Ctxs, w = sock[c], Conversation(c) PROVE Conversation(c)'
    <2>1. ppc' = ppc /\ sock'[c] = w /\ table'[c] = table[c] /\ table[c] \subseteq Res
      BY <1>1, <1>5, Zenon DEF vmm, TypeOK
    <2>2. output'[w] = output[w] /\ (w \in starved' <=> w \in starved)
      BY <1>1, Zenon
    <2>3. \A r \in table[c] :
               /\ r \in held[w] /\ input[w][1] # Msg("destroy", r) => r \in held'[w]
               /\ input[w][1] = Msg("import", r) => r \in held'[w]
      BY <1>4, <2>1, Zenon
    <2>. QED BY <1>1, <1>2, <1>3, <1>5, <2>1, <2>2, <2>3, TakePosted, Zenon
  <1>6. \A v \in Workers : v # w => /\ input'[v] = input[v] /\ output'[v] = output[v]
                                    /\ held'[v] = held[v] /\ (v \in starved' <=> v \in starved)
    BY <1>1, <1>2, <1>4, Zenon
  <1>. QED BY <1>1, <1>5, <1>6, WorkerConversation, Zenon

\* The answer to get_blob: what it says is there is held.
LEMMA WorkerAnswersBlob ==
    ASSUME TypeOK, TalkInv, NEW w \in Workers, WorkerCreateResource(w)
    PROVE  TalkInv'
  <1>1. /\ wpc[w] = "main" /\ input[w] # <<>> /\ Head(input[w]).op = "blob"
        /\ input' = [input EXCEPT ![w] = Tail(input[w])]
        /\ UNCHANGED <<vmm, replies, wpc, starved>>
    BY Zenon DEF WorkerCreateResource, Take, client, procs
  <1>2. /\ input'[w] = Tail(input[w]) /\ \A v \in Workers : v # w => input'[v] = input[v]
    BY <1>1, Zenon DEF TypeOK
  <1>3. /\ input[w] \in Seq(Messages) /\ input[w][1].op = "blob" /\ Running(w)
        /\ (Running(w)' <=> Running(w)) /\ Head(input[w]) = input[w][1]
    BY <1>1, HeadTail, Zenon DEF TypeOK, Running
  <1>4. PICK ok \in BOOLEAN :
           /\ Reply(w, "blob", ok) /\ held[w] \subseteq held'[w] /\ \A v \in Workers : v # w => held'[v] = held[v]
           /\ ok => input[w][1].res \in held'[w]
    <2>1. CASE held' = [held EXCEPT ![w] = held[w] \cup {Head(input[w]).res}] /\ Reply(w, "blob", TRUE)
      <3>1. /\ held'[w] = held[w] \cup {input[w][1].res} /\ \A v \in Workers : v # w => held'[v] = held[v]
        BY <1>3, <2>1, Zenon DEF TypeOK
      <3>. QED BY <2>1, <3>1, Zenon
    <2>2. CASE UNCHANGED held /\ Reply(w, "blob", FALSE)
      BY <2>2, Zenon
    <2>. QED BY <2>1, <2>2, Zenon DEF WorkerCreateResource
  <1>5. /\ output'[w] = Append(output[w], [op |-> "blob", ok |-> ok])
        /\ \A v \in Workers : v # w => output'[v] = output[v]
    BY <1>4, ReplyTypes, Zenon
  <1>6. ASSUME NEW c \in Ctxs, w = sock[c], Conversation(c) PROVE Conversation(c)'
    <2>1. ppc' = ppc /\ sock'[c] = w /\ table'[c] = table[c] /\ (w \in starved' <=> w \in starved)
      BY <1>1, <1>6, Zenon DEF vmm
    <2>2. /\ output[w] = <<>> /\ Waiting(c) /\ w \notin starved /\ Asked(ppc, input[w])
          /\ \A r \in table[c] : WillHold(input[w], held[w], r)
      BY <1>1, <1>3, <1>6, FirstMessage, Zenon DEF Posted
    <2>3. ppc.op = "blob" /\ input[w][1] = Msg("blob", ppc.res) /\ Tail(input[w]) = <<>>
      BY <1>1, <1>3, <2>2, AskedHead, Zenon
    <2>4. /\ Len(output'[w]) = 1 /\ output'[w][1] = [op |-> "blob", ok |-> ok]
      BY <1>5, <2>2, SMTT(20)
    <2>5. Answered(ppc', input'[w], output'[w])
      BY <1>2, <2>1, <2>3, <2>4, SMTT(20) DEF Answered
    <2>6. output'[w][1].ok => ppc'.res \in held'[w]
      BY <1>4, <2>1, <2>3, <2>4, MsgIs, SMTT(20)
    <2>7. Waiting(c)'
      BY <2>1, <2>2, Zenon DEF Waiting
    <2>8. Talk(c)'
      BY <2>1, <2>2, <2>5, <2>6, <2>7, Zenon DEF Talk
    <2>9. \A r \in table[c] : WillHold(Tail(input[w]), held'[w], r)
      <3>1. \A r : input[w][1] # Msg("import", r)
        BY <1>3, MsgIs
      <3>. QED BY <1>1, <1>3, <1>4, <2>2, <3>1, HoldTail, Zenon
    <2>10. Attached(c)'
      BY <1>2, <2>1, <2>9, Zenon DEF Attached
    <2>. QED BY <2>8, <2>10, Zenon DEF Conversation
  <1>7. \A v \in Workers : v # w => /\ input'[v] = input[v] /\ output'[v] = output[v]
                                    /\ held'[v] = held[v] /\ (v \in starved' <=> v \in starved)
    BY <1>1, <1>2, <1>4, <1>5, Zenon
  <1>. QED BY <1>1, <1>6, <1>7, WorkerConversation, Zenon

\* The answer to a command, with which all of it has been read
LEMMA WorkerAnswersCmd ==
    ASSUME TypeOK, TalkInv, NEW w \in Workers, WorkerSubmitCmd(w)
    PROVE  TalkInv'
  <1>1. /\ wpc[w] = "main" /\ input[w] # <<>> /\ Head(input[w]).op \in {"cmd", "large"}
        /\ UNCHANGED <<vmm, replies, wpc, held, starved>>
    BY Zenon DEF WorkerSubmitCmd, client, procs
  <1>2. /\ input'[w] = SubSeq(input[w], IF Head(input[w]).op = "large" THEN 3 ELSE 2, Len(input[w]))
        /\ \A v \in Workers : v # w => input'[v] = input[v]
    BY SubmitCmdTypes, Zenon
  <1>3. /\ input[w] \in Seq(Messages) /\ input[w][1].op \in {"cmd", "large"} /\ Running(w)
        /\ (Running(w)' <=> Running(w)) /\ Head(input[w]) = input[w][1]
    BY <1>1, HeadTail, Zenon DEF TypeOK, Running
  <1>4. PICK ok \in BOOLEAN : Reply(w, "cmd", ok)
    BY Zenon DEF WorkerSubmitCmd
  <1>5. /\ output'[w] = Append(output[w], [op |-> "cmd", ok |-> ok])
        /\ \A v \in Workers : v # w => output'[v] = output[v]
    BY <1>4, ReplyTypes, Zenon
  <1>6. ASSUME NEW c \in Ctxs, w = sock[c], Conversation(c) PROVE Conversation(c)'
    <2>1. /\ ppc' = ppc /\ sock'[c] = w /\ table'[c] = table[c] /\ held'[w] = held[w]
          /\ (w \in starved' <=> w \in starved)
      BY <1>1, <1>6, Zenon DEF vmm
    <2>2. /\ output[w] = <<>> /\ Waiting(c) /\ w \notin starved /\ Asked(ppc, input[w])
          /\ \A r \in table[c] : WillHold(input[w], held[w], r)
      BY <1>1, <1>3, <1>6, FirstMessage, Zenon DEF Posted
    <2>3. ppc.op = "cmd" /\ input'[w] = <<>> /\ Rest(Tail(input[w]))
      BY <1>1, <1>2, <1>3, <2>2, AskedHead, PostedNone, ZenonT(40)
    <2>4. /\ Len(output'[w]) = 1 /\ output'[w][1] = [op |-> "cmd", ok |-> ok]
      BY <1>5, <2>2, SMTT(20)
    <2>5. Answered(ppc', input'[w], output'[w])
      BY <2>1, <2>3, <2>4, SMTT(20) DEF Answered
    <2>6. Waiting(c)'
      BY <2>1, <2>2, Zenon DEF Waiting
    <2>7. ppc'.op # "blob"
      BY <2>1, <2>3, Zenon
    <2>8. Talk(c)'
      BY <2>1, <2>2, <2>5, <2>6, <2>7, Zenon DEF Talk
    <2>9. \A r \in table[c] : r \in held[w]
      <3>1. \A r : input[w][1] # Msg("import", r)
        BY <1>3, MsgIs, SMTT(20)
      <3>2. \A r \in table[c] : WillHold(Tail(input[w]), held[w], r)
        BY <1>1, <1>3, <2>2, <3>1, HoldTail, Zenon
      <3>3. Tail(input[w]) \in Seq(Messages)
        BY <1>1, <1>3, HeadTail, Zenon
      <3>. QED BY <2>3, <3>2, <3>3, HoldRest, ZenonT(40)
    <2>10. \A r \in table[c] : WillHold(<<>>, held[w], r)
      BY <2>9, HoldNothing, Zenon
    <2>11. Attached(c)'
      BY <2>1, <2>3, <2>10, Zenon DEF Attached
    <2>. QED BY <2>8, <2>11, Zenon DEF Conversation
  <1>7. \A v \in Workers : v # w => /\ input'[v] = input[v] /\ output'[v] = output[v]
                                    /\ held'[v] = held[v] /\ (v \in starved' <=> v \in starved)
    BY <1>1, <1>2, <1>5, Zenon
  <1>. QED BY <1>1, <1>6, <1>7, WorkerConversation, Zenon

\* A large command without memory for it, and what is left of it
LEMMA WorkerStarves ==
    ASSUME TypeOK, TalkInv, NEW w \in Workers, WorkerSubmitCmdNoMem(w) \/ WorkerReadsRest(w)
    PROVE  TalkInv'
  <1>1. /\ wpc[w] = "main" /\ input[w] # <<>> /\ Head(input[w]).op \in {"large", "data"}
        /\ input' = [input EXCEPT ![w] = Tail(input[w])]
        /\ UNCHANGED <<vmm, replies, wpc, output>>
    BY Zenon DEF WorkerSubmitCmdNoMem, WorkerReadsRest, Take, client, procs
  <1>2. /\ input'[w] = Tail(input[w]) /\ \A v \in Workers : v # w => input'[v] = input[v]
    BY <1>1, Zenon DEF TypeOK
  <1>3. /\ input[w] \in Seq(Messages) /\ Running(w) /\ Head(input[w]) = input[w][1]
        /\ ~Posted(input[w][1])
    BY <1>1, HeadTail, Zenon DEF TypeOK, Running, Posted
  <1>4. \A v \in Workers : v # w => held'[v] = held[v] /\ (v \in starved' <=> v \in starved)
    BY Zenon DEF WorkerSubmitCmdNoMem, WorkerReadsRest, TypeOK
  <1>5. ASSUME NEW c \in Ctxs, w = sock[c], Conversation(c) PROVE Conversation(c)'
    <2>1. ppc' = ppc /\ sock'[c] = w /\ table'[c] = table[c] /\ output'[w] = output[w]
      BY <1>1, <1>5, Zenon DEF vmm
    <2>2. /\ output[w] = <<>> /\ Waiting(c)
          /\ \/ w \notin starved /\ Asked(ppc, input[w])
             \/ w \in starved /\ ppc.op = "cmd" /\ Rest(input[w]) /\ input[w][1].op = "data"
          /\ \A r \in table[c] : WillHold(input[w], held[w], r)
      BY <1>1, <1>3, <1>5, FirstMessage, Zenon
    <2>3. /\ w \in starved' /\ ppc.op = "cmd" /\ Rest(Tail(input[w]))
          /\ Tail(input[w]) # <<>> => held' = held /\ input[w][1].op = "large"
      <3>1. CASE WorkerSubmitCmdNoMem(w)
        <4>1. input[w][1].op = "large" /\ w \in starved' /\ held' = held
          BY <1>3, <3>1, Zenon DEF WorkerSubmitCmdNoMem, Take
        <4>. QED BY <1>1, <1>3, <2>2, <4>1, AskedHead, Zenon
      <3>2. CASE WorkerReadsRest(w)
        <4>1. input[w][1].op = "data" /\ starved' = starved
          BY <1>3, <3>2, Zenon DEF WorkerReadsRest, Take
        <4>2. w \in starved /\ ppc.op = "cmd" /\ Rest(input[w])
          BY <1>1, <1>3, <2>2, <4>1, AskedHead, Zenon
        <4>. QED BY <1>1, <1>3, <4>1, <4>2, RestTail, PostedNone, Zenon
      <3>. QED BY <3>1, <3>2, Zenon
    <2>4. Waiting(c)'
      BY <2>1, <2>2, Zenon DEF Waiting
    <2>5. Talk(c)'
      BY <1>2, <2>1, <2>2, <2>3, <2>4, Zenon DEF Talk
    <2>6. ASSUME Tail(input[w]) # <<>>, NEW r \in table[c]
          PROVE  WillHold(Tail(input[w]), held'[w], r)
      <3>1. \A x : input[w][1] # Msg("import", x)
        BY <2>3, <2>6, MsgIs, SMTT(20)
      <3>2. held'[w] = held[w]
        BY <2>3, <2>6, Zenon
      <3>. QED BY <1>1, <1>3, <2>2, <3>1, <3>2, HoldTail, Zenon
    <2>7. Attached(c)'
      BY <1>2, <2>1, <2>3, <2>6, Zenon DEF Attached
    <2>. QED BY <2>5, <2>7, Zenon DEF Conversation
  <1>6. \A v \in Workers : v # w => /\ input'[v] = input[v] /\ output'[v] = output[v]
                                    /\ held'[v] = held[v] /\ (v \in starved' <=> v \in starved)
    BY <1>1, <1>2, <1>4, Zenon
  <1>. QED BY <1>1, <1>5, <1>6, WorkerConversation, Zenon

\* What is left of it, when it is answered
LEMMA WorkerAnswersTheRest ==
    ASSUME TypeOK, TalkInv, NEW w \in Workers, WorkerAnswersRest(w)
    PROVE  TalkInv'
  <1>1. /\ wpc[w] = "main" /\ input[w] # <<>> /\ Head(input[w]).op = "data"
        /\ input' = [input EXCEPT ![w] = Tail(input[w])]
        /\ UNCHANGED <<vmm, replies, wpc>> /\ starved' = starved \ {w}
    BY Zenon DEF WorkerAnswersRest, Take, client, procs
  <1>2. /\ input'[w] = Tail(input[w]) /\ \A v \in Workers : v # w => input'[v] = input[v]
    BY <1>1, Zenon DEF TypeOK
  <1>3. /\ input[w] \in Seq(Messages) /\ input[w][1].op = "data" /\ Running(w)
        /\ (Running(w)' <=> Running(w))
    BY <1>1, HeadTail, Zenon DEF TypeOK, Running
  <1>4. held[w] \subseteq held'[w] /\ \A v \in Workers : v # w => held'[v] = held[v]
    <2>1. PICK rs : held' = [held EXCEPT ![w] = held[w] \cup rs]
      BY Zenon DEF WorkerAnswersRest
    <2>. QED BY <2>1, Zenon DEF TypeOK
  <1>5. PICK ok \in BOOLEAN : Reply(w, "rest", ok)
    BY Zenon DEF WorkerAnswersRest
  <1>6. /\ output'[w] = Append(output[w], [op |-> "rest", ok |-> ok])
        /\ \A v \in Workers : v # w => output'[v] = output[v]
    BY <1>5, ReplyTypes, Zenon
  <1>7. ASSUME NEW c \in Ctxs, w = sock[c], Conversation(c) PROVE Conversation(c)'
    <2>1. ppc' = ppc /\ sock'[c] = w /\ table'[c] = table[c] /\ w \notin starved'
      BY <1>1, <1>7, Zenon DEF vmm
    <2>2. /\ output[w] = <<>> /\ Waiting(c)
          /\ \/ w \notin starved /\ Asked(ppc, input[w])
             \/ w \in starved /\ ppc.op = "cmd" /\ Rest(input[w])
          /\ \A r \in table[c] : WillHold(input[w], held[w], r)
      BY <1>1, <1>3, <1>7, FirstMessage, Zenon DEF Posted
    <2>3. ppc.op = "cmd" /\ Rest(input[w])
      BY <1>1, <1>3, <2>2, AskedHead, Zenon
    <2>4. input'[w] = <<>>
      BY <1>1, <1>2, <1>3, <2>3, RestTail, Zenon
    <2>5. /\ Len(output'[w]) = 1 /\ output'[w][1] = [op |-> "rest", ok |-> ok]
      BY <1>6, <2>2, SMTT(20)
    <2>6. Answered(ppc', input'[w], output'[w])
      BY <2>1, <2>3, <2>4, <2>5, SMTT(20) DEF Answered
    <2>7. Waiting(c)' /\ ppc'.op # "blob"
      BY <2>1, <2>2, <2>3, Zenon DEF Waiting
    <2>8. Talk(c)'
      BY <2>1, <2>6, <2>7, Zenon DEF Talk
    <2>9. \A r \in table[c] : r \in held'[w]
      BY <1>3, <1>4, <2>2, <2>3, HoldRest, Zenon
    <2>10. \A r \in table[c] : WillHold(<<>>, held'[w], r)
      BY <2>9, HoldNothing, Zenon
    <2>11. Attached(c)'
      BY <2>1, <2>4, <2>10, Zenon DEF Attached
    <2>. QED BY <2>8, <2>11, Zenon DEF Conversation
  <1>8. \A v \in Workers : v # w => /\ input'[v] = input[v] /\ output'[v] = output[v]
                                    /\ held'[v] = held[v] /\ (v \in starved' <=> v \in starved)
    BY <1>1, <1>2, <1>4, <1>6, Zenon
  <1>. QED BY <1>1, <1>7, <1>8, WorkerConversation, Zenon

\* A worker process
LEMMA WorkerTalks ==
    ASSUME TypeOK, TalkInv, NEW w \in Workers, WorkerRuns(w) \/ WorkerCrash(w) \/ WorkerHang(w)
    PROVE  TalkInv'
  <1>1. CASE ChildDetach(w) \/ ChildMain(w) \/ WorkerHang(w) \/ Adopt(w)
    <2>1. UNCHANGED <<ppc, sock, table, replies, input, output, held, starved>>
      BY <1>1, Zenon DEF ChildDetach, ChildMain, WorkerHang, Adopt, vmm, client, context
    <2>2. \/ wpc[w] \in {"forked", "detached", "main"} /\ wpc'[w] \in {"detached", "main", "hung"}
          \/ wpc[w] = "zombie" /\ wpc'[w] = "gone"
      BY <1>1, Zenon DEF ChildDetach, ChildMain, WorkerHang, Adopt, Reap, TypeOK
    <2>3. \A v \in Workers : v # w => wpc'[v] = wpc[v]
      BY <1>1, Zenon DEF ChildDetach, ChildMain, WorkerHang, Adopt, Reap, TypeOK
    <2>4. \A v \in Workers : (Running(v)' <=> Running(v)) /\ (wpc'[v] = "none" <=> wpc[v] = "none")
      BY <2>2, <2>3, Zenon DEF Running
    <2>. QED BY <2>1, <2>4, NoConversation, Zenon
  <1>2. CASE Running(w) /\ Exit(w)
    <2>1. End({w}) /\ UNCHANGED <<ppc, sock, table, replies, output>>
      BY <1>2, Zenon DEF Exit, vmm, client
    <2>2. \A v \in {w} : v \in Workers /\ Running(v)
      BY <1>2, Zenon
    <2>. QED BY <2>1, <2>2, EndConversation, Zenon
  <1>3. CASE WorkerDispatchFails(w) \/ WorkerEof(w) \/ WorkerCrash(w)
    BY <1>2, <1>3, Zenon DEF WorkerDispatchFails, WorkerEof, WorkerCrash, Running
  <1>. QED BY <1>1, <1>3, WorkerPosted, WorkerAnswersBlob, WorkerAnswersCmd, WorkerStarves,
           WorkerAnswersTheRest, Zenon DEF WorkerRuns

\* The server process
LEMMA ServerTalks ==
    ASSUME TypeOK, TalkInv, ServerDispatch \/ ServerReaps \/ ServerDies
    PROVE  TalkInv'
  <1>1. CASE UNCHANGED <<ppc, sock, table, replies, input, output, held, starved, wpc>>
    <2>1. \A v \in Workers : Running(v)' <=> Running(v)
      BY <1>1, Zenon DEF Running
    <2>. QED BY <1>1, <2>1, NoConversation, Zenon
  <1>2. ASSUME NEW ws, DestroyWorkers(ws), UNCHANGED <<ppc, sock, table, replies, output>> PROVE TalkInv'
    <2>1. PICK ps : Kill(ps)
      BY <1>2, Zenon DEF DestroyWorkers
    <2>2. End({w \in Workers : Running(w) /\ pid[w] \in ps})
      BY <2>1, Zenon DEF Kill
    <2>. QED BY <1>2, <2>2, EndConversation, Zenon
  <1>3. ASSUME NEW zs \in SUBSET Zombies, Reap(zs),
               UNCHANGED <<ppc, sock, table, replies, input, output, held, starved>>
        PROVE  TalkInv'
    <2>1. \A v \in Workers : (Running(v)' <=> Running(v)) /\ (wpc'[v] = "none" <=> wpc[v] = "none")
      BY <1>3, Zenon DEF Running, Reap, Zombies
    <2>. QED BY <1>3, <2>1, NoConversation, Zenon
  <1>4. CASE ServerCreateFails \/ ServerExit \/ ServerDies
    BY <1>1, <1>4, Zenon DEF ServerCreateFails, ServerExit, ServerDies, vmm, client, context, procs
  <1>5. CASE ServerDestroy
    <2>1. UNCHANGED <<ppc, sock, table, replies>>
      BY <1>5, Zenon DEF ServerDestroy, vmm
    <2>2. \/ UNCHANGED <<records, jail, destroyed, reaped, sigchld, procs, context>>
          \/ \E ws : DestroyWorkers(ws) /\ UNCHANGED output
      BY <1>5, Zenon DEF ServerDestroy
    <2>. QED BY <1>1, <1>2, <2>1, <2>2, Zenon DEF procs, context
  <1>6. CASE ServerReset \/ ServerFini
    BY <1>2, <1>6, Zenon DEF ServerReset, ServerFini, ClearRecords, vmm, client
  <1>7. CASE ServerReap
    BY <1>3, <1>7, Zenon DEF ServerReap, vmm, client, context
  <1>8. CASE ServerWait
    <2>1. PICK z \in Zombies : Reap({z})
      BY <1>8, Zenon DEF ServerWait
    <2>. QED BY <1>3, <1>8, <2>1, Zenon DEF ServerWait, vmm, client, context
  <1>. QED BY <1>4, <1>5, <1>6, <1>7, <1>8, CreateConversation, Zenon DEF ServerDispatch, ServerReaps

\* The VMM's thread
LEMMA ProxyTalks ==
    ASSUME TypeOK, TalkInv, ProxyNext \/ ProxyReceives \/ VmmDies
    PROVE  TalkInv'
  <1>1. ASSUME UNCHANGED <<sock, table, input, output, held, starved, wpc>>,
               replies' = replies \/ replies' = <<>> \/ (replies # <<>> /\ replies' = Tail(replies)),
               ppc' = ppc \/ (ppc.op \notin {"blob", "cmd"} /\ ppc'.op \notin {"blob", "cmd"})
        PROVE  TalkInv'
    <2>1. \A v \in Workers : Running(v)' <=> Running(v)
      BY <1>1, Zenon DEF Running
    <2>2. ppc' = ppc \/ \A c \in Ctxs : ~Waiting(c) /\ ~Waiting(c)'
      BY <1>1, Zenon DEF Waiting
    <2>. QED BY <1>1, <2>1, <2>2, NoConversation, Zenon
  <1>2. ASSUME NEW c \in Ctxs, ProxyCreate(c) \/ ProxyDestroy(c) PROVE TalkInv'
    <2>1. ppc.op \notin {"blob", "cmd"} /\ ppc'.op \notin {"blob", "cmd"}
      BY <1>2 DEF ProxyCreate, ProxyDestroy, Idle, Call
    <2>2. UNCHANGED <<sock, table, input, output, held, starved, wpc, replies>>
      BY <1>2, Zenon DEF ProxyCreate, ProxyDestroy, procs, context
    <2>. QED BY <1>1, <2>1, <2>2, Zenon
  <1>3. CASE ProxyCreatedInVain \/ ProxyCreateFails
    <2>1. ppc.op \notin {"blob", "cmd"} /\ ppc'.op \notin {"blob", "cmd"}
      BY <1>3 DEF ProxyCreatedInVain, ProxyCreateFails, Idle
    <2>2. /\ UNCHANGED <<sock, table, input, output, held, starved, wpc>>
          /\ replies' = replies \/ (replies # <<>> /\ replies' = Tail(replies))
      BY <1>3, Zenon DEF ProxyCreatedInVain, ProxyCreateFails, procs, context, client
    <2>. QED BY <1>1, <2>1, <2>2, Zenon
  <1>4. CASE ProxyFini
    <2>1. ppc.op \notin {"blob", "cmd"} /\ ppc'.op \notin {"blob", "cmd"}
      BY <1>4, Zenon DEF ProxyFini, Idle, Call
    <2>. QED BY <1>1, <1>4, <2>1, Zenon DEF ProxyFini, procs, context
  <1>5. CASE ProxyReset
    BY <1>1, <1>5, Zenon DEF ProxyReset, procs, context
  <1>6. ASSUME NEW r \in Res, VmmImport(r) PROVE TalkInv'
    BY <1>1, <1>6, Zenon DEF VmmImport, procs, context, client
  <1>7. CASE VmmDies
    <2>1. /\ \A c \in Ctxs : sock'[c] = 0 /\ ~Waiting(c)'
          /\ replies' = <<>> /\ \A w \in Workers : output'[w] = <<>>
          /\ UNCHANGED <<input, starved, wpc>>
      BY <1>7, Zenon DEF VmmDies, procs, Waiting, Call
    <2>2. DOMAIN replies' = {}
      BY <2>1
    <2>3. SocketsApart'
      BY <2>1, <2>2, Zenon DEF SocketsApart
    <2>4. \A w \in Workers : Running(w)' <=> Running(w)
      BY <2>1, Zenon DEF Running
    <2>5. Silent'
      BY <2>1, <2>2, <2>4, Zenon DEF TalkInv, Silent, Untalked
    <2>. QED BY <2>1, <2>3, <2>5, Zenon DEF TalkInv
  <1>. QED BY <1>2, <1>3, <1>4, <1>5, <1>6, <1>7, CreatedConversation, AttachConversation,
           RequestConversation, UnrefConversation, ReplyConversation, CloseConversation, ZenonT(40)
           DEF ProxyNext, ProxyReceives

LEMMA TalkStep ==
    ASSUME TypeOK, TalkInv, [Next]_vars
    PROVE  TalkInv'
  <1>1. ASSUME UNCHANGED <<ppc, sock, table, replies, input, output, held, starved, wpc>> PROVE TalkInv'
    <2>1. \A v \in Workers : Running(v)' <=> Running(v)
      BY <1>1, Zenon DEF Running
    <2>. QED BY <1>1, <2>1, NoConversation, Zenon
  <1>2. ASSUME NEW p \in Pids, OtherStarts(p) PROVE TalkInv'
    BY <1>1, <1>2, Zenon DEF OtherStarts, vmm, client, context
  <1>3. CASE UNCHANGED vars
    BY <1>1, <1>3, Zenon DEF vars, vmm, client, procs, context
  <1>. QED BY <1>2, <1>3, ProxyTalks, ServerTalks, WorkerTalks, Zenon
           DEF Next, Progress, Faults

LEMMA InitTalk == Init => TalkInv
  <1> SUFFICES ASSUME Init PROVE TalkInv
    OBVIOUS
  <1>1. /\ \A c \in Ctxs : sock[c] = 0 /\ ~Waiting(c)
        /\ replies = <<>> /\ starved = {} /\ DOMAIN replies = {}
        /\ \A w \in Workers : input[w] = <<>> /\ output[w] = <<>>
    BY DEF Init, Waiting, Idle
  <1>2. SocketsApart
    BY <1>1, Zenon DEF SocketsApart
  <1>3. Silent
    BY <1>1, Zenon DEF Silent, Untalked
  <1>. QED BY <1>1, <1>2, <1>3, Zenon DEF TalkInv

\* What proxy_context_attach_resource has in its table the worker holds once it
\* has read its socket (proxy_context.c:438), for any number of contexts and
\* resources and with sockets of any length, whoever dies meanwhile; but for a
\* worker that took the rest of a command for a request it does not answer.
THEOREM AttachedStaysHeld == Spec => []AttachedIsHeld
  <1>1. Init => TypeOK /\ JailInv /\ TalkInv
    BY InitType, InitJail, InitTalk, Zenon
  <1>2. TypeOK /\ JailInv /\ TalkInv /\ [Next]_vars => (TypeOK /\ JailInv /\ TalkInv)'
    BY TypeStep, JailStep, TalkStep, Zenon
  <1>3. TalkInv => AttachedIsHeld
    BY Zenon DEF TalkInv, Conversation, Attached, AttachedIsHeld
  <1>. QED BY <1>1, <1>2, <1>3, PTL DEF Spec

\* A worker has sent at most the one reply its proxy context waits on, and of
\* that kind: proxy_context_submit_cmd and proxy_context_get_blob never read each
\* other's replies, also after calls that failed.  The rest of a command that
\* render_context_dispatch takes for a request (render_context.c:200) is answered,
\* if at all, to the submit_cmd that waits.
THEOREM RepliesStayAwaited == Spec => []RepliesAwaited
  <1>1. Init => TypeOK /\ JailInv /\ TalkInv
    BY InitType, InitJail, InitTalk, Zenon
  <1>2. TypeOK /\ JailInv /\ TalkInv /\ [Next]_vars => (TypeOK /\ JailInv /\ TalkInv)'
    BY TypeStep, JailStep, TalkStep, Zenon
  <1>3. ASSUME TypeOK, TalkInv, NEW c \in Ctxs, sock[c] # 0, output[sock[c]] # <<>>
        PROVE  /\ ppc.ctx = c /\ Len(output[sock[c]]) = 1
               /\ ppc.op = IF Head(output[sock[c]]).op = "rest" THEN "cmd"
                           ELSE Head(output[sock[c]]).op
    <2>1. Talk(c) /\ sock[c] \in Workers
      BY <1>3, Zenon DEF TalkInv, Conversation, TypeOK
    <2>2. Waiting(c) /\ Answered(ppc, input[sock[c]], output[sock[c]])
      BY <1>3, <2>1, Zenon DEF Talk
    <2>3. Head(output[sock[c]]) = output[sock[c]][1]
      BY <1>3, <2>1, HeadTail, Zenon DEF TypeOK
    <2>. QED BY <2>2, <2>3, Zenon DEF Waiting, Answered
  <1>4. TypeOK /\ TalkInv => RepliesAwaited
    BY <1>3, Zenon DEF RepliesAwaited
  <1>. QED BY <1>1, <1>2, <1>4, PTL DEF Spec

-----------------------------------------------------------------------------
(***************************************************************************)
(* The slots of the jail                                                   *)
(***************************************************************************)
INSTANCE FiniteSetTheorems

LEMMA JailShrinks ==
    ASSUME [Next]_vars
    PROVE  jail' \subseteq jail \/ (CanCreate /\ \E w \in Workers : jail' = jail \cup {w})
  <1>1. CASE Quiet
    BY <1>1, Zenon DEF Quiet
  <1>2. CASE ProxyFini \/ ServerDies
    BY <1>2, Zenon DEF ProxyFini, ServerDies
  <1>3. ASSUME NEW p \in Pids, OtherStarts(p) PROVE jail' = jail
    BY <1>3, Zenon DEF OtherStarts, server
  <1>4. ASSUME NEW w \in Workers,
               ChildDetach(w) \/ ChildMain(w) \/ WorkerHang(w) \/ Adopt(w) \/ (Running(w) /\ Exit(w))
        PROVE  jail' = jail
    BY <1>4, Zenon DEF ChildDetach, ChildMain, WorkerHang, Adopt, Exit, server
  <1>5. CASE ServerCreate
    BY <1>5, Zenon DEF ServerCreate, AddWorker
  <1>6. CASE ServerCreateFails \/ ServerExit
    BY <1>6, Zenon DEF ServerCreateFails, ServerExit
  <1>7. CASE ServerDestroy \/ ServerReset \/ ServerFini
    BY <1>7, Zenon DEF ServerDestroy, ServerReset, ServerFini, ClearRecords, DestroyWorkers, RemoveWorkers
  <1>8. CASE ServerReap \/ ServerWait
    BY <1>8, Zenon DEF ServerReap, ServerWait, RemoveWorkers
  <1>9. \/ Quiet \/ ProxyFini \/ ServerDies \/ (\E p \in Pids : OtherStarts(p))
        \/ ServerDispatch \/ ServerReaps
        \/ \E w \in Workers : \/ ChildDetach(w) \/ ChildMain(w) \/ WorkerHang(w) \/ Adopt(w)
                               \/ (Running(w) /\ Exit(w))
    BY ProxyIsQuiet, WorkerIsQuiet, Zenon DEF Next, Progress, Faults
  <1>. QED BY <1>1, <1>2, <1>3, <1>4, <1>5, <1>6, <1>7, <1>8, <1>9, ZenonT(40) DEF ServerDispatch, ServerReaps

\* A set of workers, with one more, or a part of it
LEMMA Slots ==
    ASSUME NEW J \in SUBSET Workers
    PROVE  /\ Cardinality(J) \in Nat /\ Cardinality({}) = 0
           /\ \A K \in SUBSET J : Cardinality(K) \in Nat /\ Cardinality(K) <= Cardinality(J)
           /\ \A w \in Workers : Cardinality(J \cup {w}) \in {Cardinality(J), Cardinality(J) + 1}
  <1>1. IsFiniteSet(Workers)
    BY ServerConstants, FS_Interval DEF Workers
  <1>2. IsFiniteSet(J) /\ Cardinality(J) \in Nat
    BY <1>1, FS_Subset, FS_CardinalityType, Zenon
  <1>3. ASSUME NEW K \in SUBSET J PROVE Cardinality(K) \in Nat /\ Cardinality(K) <= Cardinality(J)
    BY <1>2, FS_Subset, FS_CardinalityType, Zenon
  <1>4. ASSUME NEW w \in Workers PROVE Cardinality(J \cup {w}) \in {Cardinality(J), Cardinality(J) + 1}
    BY <1>2, FS_AddElement, Zenon
  <1>. QED BY <1>2, <1>3, <1>4, FS_EmptySet, ZenonT(40)

LEMMA SlotStep ==
    ASSUME TypeOK, Cardinality(jail) <= MaxCount, [Next]_vars
    PROVE  Cardinality(jail') <= MaxCount
  <1>1. jail \in SUBSET Workers
    BY Zenon DEF TypeOK
  <1>2. CASE jail' \subseteq jail
    <2>1. jail' \in SUBSET jail
      BY <1>2, Zenon
    <2>2. /\ Cardinality(jail') \in Nat /\ Cardinality(jail) \in Nat
          /\ Cardinality(jail') <= Cardinality(jail)
      BY <1>1, <2>1, Slots, Zenon
    <2>. QED BY <2>2, ServerConstants
  <1>3. ASSUME CanCreate, NEW w \in Workers, jail' = jail \cup {w} PROVE Cardinality(jail') <= MaxCount
    <2>1. Cardinality(jail') \in {Cardinality(jail), Cardinality(jail) + 1} /\ Cardinality(jail) \in Nat
      BY <1>1, <1>3, Slots, Zenon
    <2>. QED BY <1>3, <2>1, ServerConstants, SMTT(30) DEF CanCreate
  <1>. QED BY <1>2, <1>3, JailShrinks, ZenonT(40)

\* The state is well-formed, and however creation, destruction, death and reaping
\* of workers interleave, for any number of contexts, workers, pids and slots: the
\* jail never holds more workers than it has slots (render_worker.c:363),
\* the records of the client name the workers of the jail that are not destroyed,
\* one each (render_client.c:60, render_worker.c:413), and the jail knows which of
\* its children were reaped, though a pid may be reused (render_worker.c:342).
THEOREM JailStaysConsistent == Spec => []JailConsistent
  <1>1. Init => TypeOK /\ JailInv /\ Cardinality(jail) <= MaxCount
    <2>1. Init => jail = {} /\ {} \in SUBSET Workers
      BY Zenon DEF Init
    <2>2. Init => Cardinality(jail) = 0
      BY <2>1, Slots, Zenon
    <2>3. MaxCount >= 0
      BY ServerConstants
    <2>. QED BY <2>2, <2>3, InitType, InitJail, SMTT(30)
  <1>2. TypeOK /\ JailInv /\ Cardinality(jail) <= MaxCount /\ [Next]_vars
            => (TypeOK /\ JailInv /\ Cardinality(jail) <= MaxCount)'
    BY TypeStep, JailStep, SlotStep, Zenon
  <1>3. TypeOK /\ JailInv /\ Cardinality(jail) <= MaxCount => JailConsistent
    BY Zenon DEF JailInv, JailConsistent
  <1>. QED BY <1>1, <1>2, <1>3, PTL DEF Spec

=============================================================================
