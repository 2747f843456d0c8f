------------------------------ MODULE NodeConn ------------------------------
(***************************************************************************)
(* One WebSocket connection to a node, below the Scheduler's sessions.     *)
(* nodeConn multiplexes the requests that were dispatched to the node: each*)
(* SendInference / SendEmbedding makes a buffered channel and enters it in *)
(* the pending map; the nodeWebSocket read loop delivers the node's        *)
(* messages into these channels; Close puts an error into each of them.    *)
(* Close is called by the read loop's own handler on its way out, twice    *)
(* (in registry.Remove, then deferred), and by RemoveProvider on behalf of *)
(* an operator.  Two locks matter: nodeConn.mu (mu), which Close holds     *)
(* while it sends, and Registry.mu (regMu), which Remove and RemoveProvider*)
(* hold while they call Close.                                             *)
(***************************************************************************)
EXTENDS Integers, Sequences

CONSTANTS
    Requests,   \* requests dispatched to this node
    Cap,        \* capacity of a request's channel (128 in the code)
    MaxChunks   \* bound on the chunks a node sends for a request

ASSUME NodeConnAssumption == Cap \in Nat \ {0} /\ MaxChunks \in Nat

Closers == {"handler", "admin"}
Free    == "free"

VARIABLES
    pc,        \* where the goroutine of each request stands
    res,       \* what SendInference returned to it
    got,       \* the chunks it has passed to its sink
    ctxDone,   \* requests whose context is done
    pending,   \* nodeConn.pending: the requests with an entry
    ch,        \* the channel each request made
    mu,        \* who holds nodeConn.mu between two steps
    todo,      \* the entries Close has still to notify
    handler,   \* where nodeWebSocket stands, and the message it delivers
    closing,   \* where each caller of Close stands
    regMu,     \* who holds Registry.mu between two steps
    inReg,     \* the registry maps the node ID to this connection
    replaced,  \* history: a newer session registered the same node ID
    open,      \* the socket has not been closed by the coordinator
    broken,    \* the link has failed or carried a malformed message
    nodeSent,  \* chunks the node has sent for each request
    nodeFin    \* requests the node has finished with done or error

requestVars == <<pc, res, got>>
lockVars    == <<mu, todo, closing, regMu>>
linkVars    == <<open, broken>>
nodeVars    == <<nodeSent, nodeFin>>
vars == <<requestVars, ctxDone, pending, ch, lockVars, handler, inReg,
          replaced, linkVars, nodeVars>>

-----------------------------------------------------------------------------

\* Chunk number n; the node's last message; the error Close sends.
Chunk(n) == [type |-> "chunk", n |-> n]
Done     == [type |-> "done", n |-> 0]
Error    == [type |-> "error", n |-> 0]
Gone     == [type |-> "gone", n |-> 0]
Messages == {Chunk(n) : n \in 1..MaxChunks} \cup {Done, Error, Gone}

Goto(r, l) == pc' = [pc EXCEPT ![r] = l]

At(l) == [at |-> l]

\* Where the handler may be with a message in its hands, and without.
Handlers ==
    [at : {"lookup", "push"}, to : Requests, msg : Messages]
      \cup {At(l) : l \in {"read", "heartbeat", "remove", "removing", "exit",
                           "closing", "gone"}}

Carrying(r) == handler.at \in {"lookup", "push"} /\ handler.to = r

-----------------------------------------------------------------------------
(* A request: SendInference or SendEmbedding, and what dispatch does around*)
(* it.                                                                     *)

\* reserveFiltered picks this node.
Reserve(r) ==
    /\ pc[r] = "idle"
    /\ regMu = Free /\ inReg
    /\ Goto(r, "register")
    /\ UNCHANGED <<res, got, ctxDone, pending, ch, lockVars, handler, inReg,
                   replaced, linkVars, nodeVars>>

RegisterPending(r) ==
    /\ pc[r] = "register"
    /\ mu = Free
    /\ pending' = pending \cup {r}
    /\ ch' = [ch EXCEPT ![r] = <<>>]
    /\ Goto(r, "write")
    /\ UNCHANGED <<res, got, ctxDone, lockVars, handler, inReg, replaced,
                   linkVars, nodeVars>>

\* SendInference leaves its loop; the deferred delete comes next.
Leave(r, result) ==
    /\ res' = [res EXCEPT ![r] = result]
    /\ Goto(r, "unregister")

\* A write to a link that has failed may still go into a buffer.
Write(r) ==
    /\ pc[r] = "write"
    /\ open
    /\ Goto(r, "select")
    /\ UNCHANGED <<res, got, ctxDone, pending, ch, lockVars, handler, inReg,
                   replaced, linkVars, nodeVars>>

WriteFails(r) ==
    /\ pc[r] = "write"
    /\ ~open \/ broken \/ r \in ctxDone
    /\ Leave(r, "err")
    /\ UNCHANGED <<got, ctxDone, pending, ch, lockVars, handler, inReg,
                   replaced, linkVars, nodeVars>>

\* Mutant: the end of a connection is taken for the end of the stream.
ReceiveGoneAsDone(r) ==
    /\ pc[r] = "select"
    /\ ch[r] # <<>>
    /\ ch' = [ch EXCEPT ![r] = Tail(@)]
    /\ LET m == Head(ch[r])
       IN  \/ /\ m.type = "chunk"
              /\ got' = [got EXCEPT ![r] = @ + 1]
              /\ Goto(r, "sink")
              /\ UNCHANGED res
           \/ /\ m.type # "chunk"
              /\ Leave(r, IF m.type = "error" THEN "err" ELSE "nil")
              /\ UNCHANGED got
    /\ UNCHANGED <<ctxDone, pending, lockVars, handler, inReg, replaced,
                   linkVars, nodeVars>>

\* case msg := <-ch: a chunk goes to the sink, which may block on the client.
Receive(r) ==
    /\ pc[r] = "select"
    /\ ch[r] # <<>>
    /\ ch' = [ch EXCEPT ![r] = Tail(@)]
    /\ LET m == Head(ch[r])
       IN  \/ /\ m.type = "chunk"
              /\ got' = [got EXCEPT ![r] = @ + 1]
              /\ Goto(r, "sink")
              /\ UNCHANGED res
           \/ /\ m.type # "chunk"
              /\ Leave(r, IF m.type = "done" THEN "nil" ELSE "err")
              /\ UNCHANGED got
    /\ UNCHANGED <<ctxDone, pending, lockVars, handler, inReg, replaced,
                   linkVars, nodeVars>>

SinkReturns(r) ==
    /\ pc[r] = "sink"
    /\ Goto(r, "select")
    /\ UNCHANGED <<res, got, ctxDone, pending, ch, lockVars, handler, inReg,
                   replaced, linkVars, nodeVars>>

\* case <-ctx.Done(): select may take it although a message waits as well.
ContextDone(r) ==
    /\ pc[r] = "select"
    /\ r \in ctxDone
    /\ Leave(r, "err")
    /\ UNCHANGED <<got, ctxDone, pending, ch, lockVars, handler, inReg,
                   replaced, linkVars, nodeVars>>

Unregister(r) ==
    /\ pc[r] = "unregister"
    /\ mu = Free
    /\ pending' = pending \ {r}
    /\ Goto(r, "release")
    /\ UNCHANGED <<res, got, ctxDone, ch, lockVars, handler, inReg, replaced,
                   linkVars, nodeVars>>

\* registry.release and the recording of the outcome.
Release(r) ==
    /\ pc[r] = "release"
    /\ regMu = Free
    /\ Goto(r, "returned")
    /\ UNCHANGED <<res, got, ctxDone, pending, ch, lockVars, handler, inReg,
                   replaced, linkVars, nodeVars>>

-----------------------------------------------------------------------------
(* nodeWebSocket.                                                          *)

\* The next message on the socket is one for request r.
ReadMessage(r) ==
    /\ handler.at = "read"
    /\ open /\ ~broken
    /\ pc[r] \notin {"idle", "register", "write"} /\ r \notin nodeFin
    /\ \/ /\ nodeSent[r] < MaxChunks
          /\ nodeSent' = [nodeSent EXCEPT ![r] = @ + 1]
          /\ handler' = [at |-> "lookup", to |-> r, msg |-> Chunk(nodeSent'[r])]
          /\ UNCHANGED nodeFin
       \/ /\ \E m \in {Done, Error} :
                handler' = [at |-> "lookup", to |-> r, msg |-> m]
          /\ nodeFin' = nodeFin \cup {r}
          /\ UNCHANGED nodeSent
    /\ UNCHANGED <<requestVars, ctxDone, pending, ch, lockVars, inReg,
                   replaced, linkVars>>

\* deliver looks the channel up under the lock ...
DeliverLookup ==
    /\ handler.at = "lookup"
    /\ mu = Free
    /\ handler' = IF handler.to \in pending
                  THEN [handler EXCEPT !.at = "push"] ELSE At("read")
    /\ UNCHANGED <<requestVars, ctxDone, pending, ch, lockVars, inReg,
                   replaced, linkVars, nodeVars>>

\* Mutant: a full channel drops the message.
DeliverOrDrop ==
    /\ handler.at = "push"
    /\ ch' = IF Len(ch[handler.to]) < Cap
             THEN [ch EXCEPT ![handler.to] = Append(@, handler.msg)] ELSE ch
    /\ handler' = At("read")
    /\ UNCHANGED <<requestVars, ctxDone, pending, lockVars, inReg, replaced,
                   linkVars, nodeVars>>

\* ... and sends without it, to a request that may have left meanwhile.
DeliverPush ==
    /\ handler.at = "push"
    /\ Len(ch[handler.to]) < Cap
    /\ ch' = [ch EXCEPT ![handler.to] = Append(@, handler.msg)]
    /\ handler' = At("read")
    /\ UNCHANGED <<requestVars, ctxDone, pending, lockVars, inReg, replaced,
                   linkVars, nodeVars>>

ReadHeartbeat ==
    /\ handler.at = "read"
    /\ open /\ ~broken
    /\ handler' = At("heartbeat")
    /\ UNCHANGED <<requestVars, ctxDone, pending, ch, lockVars, inReg,
                   replaced, linkVars, nodeVars>>

Heartbeat ==
    /\ handler.at = "heartbeat"
    /\ regMu = Free
    /\ handler' = At("read")
    /\ UNCHANGED <<requestVars, ctxDone, pending, ch, lockVars, inReg,
                   replaced, linkVars, nodeVars>>

ReadFails ==
    /\ handler.at = "read"
    /\ ~open \/ broken
    /\ handler' = At("remove")
    /\ UNCHANGED <<requestVars, ctxDone, pending, ch, lockVars, inReg,
                   replaced, linkVars, nodeVars>>

\* defer registry.Remove(nodeID): closes this connection, with Registry.mu
\* held, if it is still the registered one.
Remove ==
    /\ handler.at = "remove"
    /\ regMu = Free
    /\ IF inReg
       THEN /\ regMu' = "handler"
            /\ closing' = [closing EXCEPT !["handler"] = "lock"]
            /\ handler' = At("removing")
       ELSE handler' = At("exit") /\ UNCHANGED <<regMu, closing>>
    /\ UNCHANGED <<requestVars, ctxDone, pending, ch, mu, todo, inReg,
                   replaced, linkVars, nodeVars>>

\* defer nc.Close()
DeferredClose ==
    /\ handler.at = "exit"
    /\ closing' = [closing EXCEPT !["handler"] = "lock"]
    /\ handler' = At("closing")
    /\ UNCHANGED <<requestVars, ctxDone, pending, ch, mu, todo, regMu, inReg,
                   replaced, linkVars, nodeVars>>

\* DELETE /admin/providers/{id}
RemoveProvider ==
    /\ closing["admin"] = "none"
    /\ regMu = Free /\ inReg
    /\ regMu' = "admin"
    /\ closing' = [closing EXCEPT !["admin"] = "lock"]
    /\ UNCHANGED <<requestVars, ctxDone, pending, ch, mu, todo, handler,
                   inReg, replaced, linkVars, nodeVars>>

-----------------------------------------------------------------------------
(* nodeConn.Close, called by a.                                            *)

\* Mutant: nobody is notified.
CloseSilently(a) ==
    /\ closing[a] = "lock"
    /\ mu = Free
    /\ mu' = a
    /\ todo' = {}
    /\ closing' = [closing EXCEPT ![a] = "notify"]
    /\ UNCHANGED <<requestVars, ctxDone, pending, ch, regMu, handler, inReg,
                   replaced, linkVars, nodeVars>>

CloseLock(a) ==
    /\ closing[a] = "lock"
    /\ mu = Free
    /\ mu' = a
    /\ todo' = pending
    /\ closing' = [closing EXCEPT ![a] = "notify"]
    /\ UNCHANGED <<requestVars, ctxDone, pending, ch, regMu, handler, inReg,
                   replaced, linkVars, nodeVars>>

\* ch <- error, for the entries in any order; it blocks on a full channel.
CloseNotify(a) ==
    /\ closing[a] = "notify"
    /\ \E r \in todo :
          /\ Len(ch[r]) < Cap
          /\ ch' = [ch EXCEPT ![r] = Append(@, Gone)]
          /\ todo' = todo \ {r}
    /\ UNCHANGED <<requestVars, ctxDone, pending, mu, closing, regMu, handler,
                   inReg, replaced, linkVars, nodeVars>>

\* Mutant: the mutex is not given back.
CloseKeepsLock(a) ==
    /\ closing[a] = "notify"
    /\ todo = {}
    /\ pending' = {}
    /\ closing' = [closing EXCEPT ![a] = "socket"]
    /\ UNCHANGED <<requestVars, ctxDone, ch, mu, todo, regMu, handler, inReg,
                   replaced, linkVars, nodeVars>>

CloseUnlock(a) ==
    /\ closing[a] = "notify"
    /\ todo = {}
    /\ pending' = {}
    /\ mu' = Free
    /\ closing' = [closing EXCEPT ![a] = "socket"]
    /\ UNCHANGED <<requestVars, ctxDone, ch, todo, regMu, handler, inReg,
                   replaced, linkVars, nodeVars>>

\* conn.Close(), and the return to Remove, RemoveProvider or the handler.
CloseSocket(a) ==
    /\ closing[a] = "socket"
    /\ open' = FALSE
    /\ closing' = [closing EXCEPT ![a] = "none"]
    /\ IF regMu = a THEN regMu' = Free /\ inReg' = FALSE
                    ELSE UNCHANGED <<regMu, inReg>>
    /\ handler' = IF a # "handler" THEN handler
                  ELSE IF handler.at = "removing" THEN At("exit") ELSE At("gone")
    /\ UNCHANGED <<requestVars, ctxDone, pending, ch, mu, todo, replaced,
                   broken, nodeVars>>

-----------------------------------------------------------------------------
(* The environment.                                                        *)

\* The link fails, or the agent sends what ReadJSON cannot decode.
Break ==
    /\ ~broken
    /\ broken' = TRUE
    /\ UNCHANGED <<requestVars, ctxDone, pending, ch, lockVars, handler,
                   inReg, replaced, open, nodeVars>>

\* The agent has reconnected: Register replaces this connection.
Reregister ==
    /\ broken
    /\ regMu = Free /\ inReg
    /\ inReg' = FALSE
    /\ replaced' = TRUE
    /\ UNCHANGED <<requestVars, ctxDone, pending, ch, lockVars, handler,
                   linkVars, nodeVars>>

Expire(r) ==
    /\ pc[r] \notin {"idle", "returned"}
    /\ r \notin ctxDone
    /\ ctxDone' = ctxDone \cup {r}
    /\ UNCHANGED <<requestVars, pending, ch, lockVars, handler, inReg,
                   replaced, linkVars, nodeVars>>

-----------------------------------------------------------------------------

Init ==
    /\ pc = [r \in Requests |-> "idle"]
    /\ res = [r \in Requests |-> "none"]
    /\ got = [r \in Requests |-> 0]
    /\ ctxDone = {}
    /\ pending = {}
    /\ ch = [r \in Requests |-> <<>>]
    /\ mu = Free
    /\ todo = {}
    /\ handler = At("read")
    /\ closing = [a \in Closers |-> "none"]
    /\ regMu = Free
    /\ inReg = TRUE
    /\ replaced = FALSE
    /\ open = TRUE
    /\ broken = FALSE
    /\ nodeSent = [r \in Requests |-> 0]
    /\ nodeFin = {}

RequestStep(r) ==
    \/ RegisterPending(r) \/ Write(r) \/ WriteFails(r) \/ Receive(r)
    \/ SinkReturns(r) \/ ContextDone(r) \/ Unregister(r) \/ Release(r)

HandlerStep ==
    \/ DeliverLookup \/ DeliverPush \/ Heartbeat \/ ReadFails
    \/ Remove \/ DeferredClose

CloseStep(a) == CloseLock(a) \/ CloseNotify(a) \/ CloseUnlock(a) \/ CloseSocket(a)

Next ==
    \/ \E r \in Requests :
          Reserve(r) \/ RequestStep(r) \/ ReadMessage(r) \/ Expire(r)
    \/ HandlerStep \/ ReadHeartbeat
    \/ \E a \in Closers : CloseStep(a)
    \/ RemoveProvider \/ Break \/ Reregister

Spec == Init /\ [][Next]_vars

\* Goroutines are scheduled, a free mutex is obtained, a client reads what is
\* sent to it, and (request_timeout > 0) every context ends.  Nothing is
\* assumed of the node, the link and the operator.
FairSpec ==
    /\ Spec
    /\ \A r \in Requests : WF_vars(RequestStep(r)) /\ WF_vars(Expire(r))
    /\ WF_vars(HandlerStep)
    /\ \A a \in Closers : WF_vars(CloseStep(a))

-----------------------------------------------------------------------------
(* Properties.                                                             *)

\* The states the connection can be in; a channel never holds more than its
\* capacity, whoever sends to it.
TypeOK ==
    /\ pc \in [Requests -> {"idle", "register", "write", "select", "sink",
                            "unregister", "release", "returned"}]
    /\ res \in [Requests -> {"none", "nil", "err"}]
    /\ got \in [Requests -> 0..MaxChunks]
    /\ ctxDone \subseteq Requests
    /\ pending \subseteq Requests
    /\ ch \in [Requests -> Seq(Messages)]
    /\ \A r \in Requests : Len(ch[r]) <= Cap
    /\ mu \in Closers \cup {Free}
    /\ todo \subseteq pending
    /\ handler \in Handlers
    /\ closing \in [Closers -> {"none", "lock", "notify", "socket"}]
    /\ regMu \in Closers \cup {Free}
    /\ inReg \in BOOLEAN /\ replaced \in BOOLEAN
    /\ open \in BOOLEAN /\ broken \in BOOLEAN
    /\ nodeSent \in [Requests -> 0..MaxChunks]
    /\ nodeFin \subseteq Requests

\* Where the chunks are in the channel of r, and how many chunks of r the read
\* loop has done with.
Chunks(r)    == {i \in 1..Len(ch[r]) : ch[r][i].type = "chunk"}
Delivered(r) ==
    nodeSent[r] - (IF Carrying(r) /\ handler.msg.type = "chunk" THEN 1 ELSE 0)

\* What a client was sent, what waits in its channel and what the read loop
\* carries is exactly what the node sent, in order: deliver loses, repeats
\* and overtakes nothing as long as the request has its pending entry.
StreamInOrder ==
    \A r \in pending :
        /\ got[r] <= Delivered(r)
        /\ {ch[r][i].n : i \in Chunks(r)} = (got[r] + 1)..Delivered(r)
        /\ \A i, j \in Chunks(r) : i < j => ch[r][i].n < ch[r][j].n

\* A request that ends successfully has passed on every chunk the node sent
\* for it: a Close that races with the node's last messages turns the answer
\* into an error, never into a truncated success.
SuccessIsComplete ==
    \A r \in Requests : res[r] = "nil" => got[r] = nodeSent[r]

Caller == INSTANCE Answers WITH
              sent <- nodeSent, finished <- nodeFin, passed <- got, outcome <- res

\* The connection, with its channels, its two locks, the pending map and the
\* two callers of Close, implements Answers: nothing is passed on that was not
\* sent, or after the return, and SendInference returns nil only when the node
\* has finished and every chunk was passed on.
ImplementsAnswers == Caller!Spec

\* When the handler of a connection has gone, nobody waits on it without a
\* message to wake it up, unless a newer session had replaced it.
NobodyStranded ==
    handler.at = "gone" /\ ~replaced =>
        \A r \in Requests :
            /\ pc[r] = "select" => ch[r] # <<>>
            /\ pc[r] = "write" => ~open

Full(r) == Len(ch[r]) = Cap

\* As long as no request falls a whole channel behind its node, every request
\* that waits on a node returns, whatever the node, the link, the operator
\* and the locks do.
WaiterReturns ==
    \A r \in Requests :
        pc[r] = "select" ~> pc[r] = "returned" \/ \E q \in Requests : Full(q)

\* chatCompletions: "Bound the request so a stuck node cannot hang the client
\* indefinitely."  Every request that waits on a node returns.
RequestNotHung ==
    \A r \in Requests : pc[r] = "select" ~> pc[r] = "returned"

=============================================================================
