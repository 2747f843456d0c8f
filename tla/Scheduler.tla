----------------------------- MODULE Scheduler -----------------------------
(***************************************************************************)
(* The node registry and the dispatch loop.  A node agent holds a          *)
(* WebSocket session with the coordinator; nodeWebSocket registers it and  *)
(* removes it when the session ends, while the agent may already have      *)
(* reconnected with a new session.  Every request runs dispatch (or        *)
(* DispatchEmbedding) in a goroutine of its own: pick a node, send, wait,  *)
(* release the slot, record the outcome, and perhaps try another node.     *)
(* Registry.mu makes each access to the registry one step, and nothing is  *)
(* held between them, with one exception: Remove and RemoveProvider close  *)
(* connections with Registry.mu held, and Close waits, with nodeConn.mu    *)
(* held too, for room in the channel of every request that waits.  The     *)
(* messages in these channels and the steps of Close are in NodeConn.      *)
(***************************************************************************)
EXTENDS Integers, FiniteSets

CONSTANTS
    Nodes,          \* node IDs
    Providers,      \* provider accounts
    Sessions,       \* WebSocket sessions: one per (re)connection of an agent
    Requests,       \* dispatches
    Tiers,          \* privacy tiers
    AnyProvider,    \* dispatch without a provider filter
    ProviderOf,     \* the provider account a node is registered under
    NodeOf,         \* the node ID a session registers
    TiersOf,        \* the tiers EnforceProviderPrivacy left a session
    CanServe,       \* the requests whose model and hardware hints it matches
    TierOf,         \* the tier a request asks for
    Targets,        \* the providers a request may be meant for (challenges)
    MaxConcurrent,  \* slots of a node
    MaxReported     \* bound on the active requests a heartbeat reports

ASSUME SchedulerAssumption ==
    /\ IsFiniteSet(Requests) /\ IsFiniteSet(Nodes)
    /\ AnyProvider \notin Providers
    /\ ProviderOf \in [Nodes -> Providers]
    /\ NodeOf \in [Sessions -> Nodes]
    /\ TiersOf \in [Sessions -> SUBSET Tiers]
    /\ CanServe \in [Sessions -> SUBSET Requests]
    /\ TierOf \in [Requests -> Tiers]
    /\ Targets \subseteq Providers \cup {AnyProvider}
    /\ MaxConcurrent \in [Nodes -> Nat \ {0}]
    /\ MaxReported \in Nat
    /\ "none" \notin Sessions

VARIABLES
    sess,      \* where the nodeWebSocket handler of each session stands
    shut,      \* sessions on which nodeConn.Close has run
    nodes,     \* Registry.nodes
    reported,  \* history: the count in the last heartbeat of the registration
    pc,        \* where each dispatch stands
    target,    \* providerFilter: the provider it must go to, if any
    at,        \* the session the current attempt was given
    tried,     \* the attempted map
    attempts,  \* the attempts counter
    sent,      \* tracker.sent of the current attempt
    err,       \* what Send returned: "nil", "retryable" or "final"
    full,      \* requests whose channel has no room for another message
    removing,  \* nodes whose removal, with Registry.mu held, waits for room
    expired,   \* requests whose context is done
    outs       \* history: sessions whose chunks reached the client

sessionVars  == <<sess, shut>>
registryVars == <<nodes, reported>>
dispatchVars == <<pc, target, at, tried, attempts, sent, err, outs>>
closeVars    == <<full, removing>>
vars == <<sessionVars, registryVars, dispatchVars, closeVars, expired>>

-----------------------------------------------------------------------------

NoNode    == [conn |-> "none"]
NoSession == "none"

\* cool: CooldownUntil is in the future.  The counters and averages of a Node
\* are only reported and ranked by.
NodeRecords ==
    [conn : Sessions, active : Nat, fresh : BOOLEAN, cool : BOOLEAN]

Registered(n) == nodes[n] # NoNode

\* "removing" and "closing": in the deferred Remove and Close, waiting for room.
HandlerPlaces == {"off", "up", "down", "removing", "exiting", "closing", "gone"}

\* In SendInference: "send" until the envelope is written, "wait" in the select,
\* "sink" in sink.Chunk, "unregister" in the deferred delete.
InAttempt == {"send", "wait", "sink", "unregister", "release", "record"}
Locations == {"idle", "pick", "ok", "failed"} \cup InAttempt

\* The connections registered for a set of node IDs, whichever sessions they are.
ConnsOf(N) == {s \in Sessions : \E n \in N : nodes[n].conn = s}

\* Some request still in the pending map of one of these has a full channel.
Overfull(S) == \E r \in full : at[r] \in S \ shut

\* The connections whose mutex a Close holds while it waits for room.
Closing == ConnsOf(removing) \cup {s \in Sessions : sess[s] = "closing"}

\* Nobody holds Registry.mu.
RegistryFree == removing = {}

\* nodeConn.Close on a set of sessions, with h the handlers' places, once every
\* channel has room: every request that waits on one is sent a retryable error,
\* and the sockets are closed, which ends the read loops that still run.
CloseSessions(S, h) ==
    /\ ~Overfull(S)
    /\ shut' = shut \cup S
    /\ sess' = [s \in Sessions |->
                   IF s \in S /\ h[s] = "up" THEN "down" ELSE h[s]]

\* Registry.Remove and RemoveProvider: close the connections of the given node
\* IDs and forget the nodes.
RemoveNodes(N, h) ==
    /\ CloseSessions(ConnsOf(N), h)
    /\ nodes' = [n \in Nodes |-> IF n \in N THEN NoNode ELSE nodes[n]]
    /\ removing' = {}

\* The same, when one of the connections has a full channel.  The requests that
\* were sent their error, and the nodes that were deleted, before it came to the
\* full one are not told apart: none gets past the locks that stay held.
AwaitRoom(N, h) ==
    /\ Overfull(ConnsOf(N))
    /\ removing' = N
    /\ sess' = h
    /\ UNCHANGED <<shut, nodes>>

-----------------------------------------------------------------------------
(* Sessions.                                                               *)

\* A registration replaces the one of an earlier session without closing it.
Register(s) ==
    /\ sess[s] = "off" /\ RegistryFree
    /\ sess' = [sess EXCEPT ![s] = "up"]
    /\ nodes' = [nodes EXCEPT ![NodeOf[s]] =
                    [conn |-> s, active |-> 0, fresh |-> TRUE, cool |-> FALSE]]
    /\ reported' = [reported EXCEPT ![NodeOf[s]] = 0]
    /\ UNCHANGED <<shut, dispatchVars, closeVars, expired>>

\* A heartbeat is applied to the registration of its node ID and replaces the
\* coordinator's own count of active requests by the agent's, which may exceed
\* the slots: the agent starts requests before it counts them.
Heartbeat(s) ==
    LET n == NodeOf[s]
    IN  /\ sess[s] = "up" /\ RegistryFree
        /\ Registered(n)
        /\ \E a \in 0..MaxReported :
              /\ nodes' = [nodes EXCEPT ![n].active = a, ![n].fresh = TRUE]
              /\ reported' = [reported EXCEPT ![n] = a]
        /\ UNCHANGED <<sessionVars, dispatchVars, closeVars, expired>>

\* The link fails or the agent exits: the handler's next read will fail.
Disconnect(s) ==
    /\ sess[s] = "up"
    /\ sess' = [sess EXCEPT ![s] = "down"]
    /\ UNCHANGED <<shut, registryVars, dispatchVars, closeVars, expired>>

\* Mutant: the connection is closed while the node is still registered.
HandlerCloseFirst(s) ==
    /\ sess[s] = "down" /\ RegistryFree
    /\ CloseSessions({s}, [sess EXCEPT ![s] = "exiting"])
    /\ UNCHANGED <<registryVars, dispatchVars, closeVars, expired>>

\* The handler returns: first the deferred registry.Remove(nodeID), ...
HandlerRemove(s) ==
    /\ sess[s] = "down" /\ RegistryFree
    /\ \/ RemoveNodes({NodeOf[s]}, [sess EXCEPT ![s] = "exiting"])
       \/ AwaitRoom({NodeOf[s]}, [sess EXCEPT ![s] = "removing"])
    /\ UNCHANGED <<reported, dispatchVars, full, expired>>

\* ... then the deferred nc.Close(), which may have to wait as well: when a newer
\* session of the node had replaced this one, Remove has closed that one.
HandlerClose(s) ==
    /\ \/ /\ sess[s] \in {"exiting", "closing"}
          /\ CloseSessions({s}, [sess EXCEPT ![s] = "gone"])
       \/ /\ sess[s] = "exiting" /\ Overfull({s})
          /\ sess' = [sess EXCEPT ![s] = "closing"]
          /\ UNCHANGED shut
    /\ UNCHANGED <<registryVars, dispatchVars, closeVars, expired>>

\* An operator disables a provider account.
RemoveProvider(p) ==
    LET N == {n \in Nodes : ProviderOf[n] = p}
    IN  /\ RegistryFree /\ \E n \in N : Registered(n)
        /\ RemoveNodes(N, sess) \/ AwaitRoom(N, sess)
        /\ UNCHANGED <<reported, dispatchVars, full, expired>>

\* A removal that waited has found room.
FinishRemove ==
    /\ ~RegistryFree
    /\ RemoveNodes(removing, [s \in Sessions |->
           IF sess[s] = "removing" THEN "exiting" ELSE sess[s]])
    /\ UNCHANGED <<reported, dispatchVars, full, expired>>

\* 20 seconds without a heartbeat.
GoStale(n) ==
    /\ Registered(n) /\ nodes[n].fresh
    /\ nodes' = [nodes EXCEPT ![n].fresh = FALSE]
    /\ UNCHANGED <<reported, sessionVars, dispatchVars, closeVars, expired>>

CooldownEnds(n) ==
    /\ Registered(n) /\ nodes[n].cool
    /\ nodes' = [nodes EXCEPT ![n].cool = FALSE]
    /\ UNCHANGED <<reported, sessionVars, dispatchVars, closeVars, expired>>

-----------------------------------------------------------------------------
(* Dispatch.                                                               *)

Dispatch(r) ==
    /\ pc[r] = "idle"
    /\ pc' = [pc EXCEPT ![r] = "pick"]
    /\ \E p \in Targets : target' = [target EXCEPT ![r] = p]
    /\ UNCHANGED <<at, tried, attempts, sent, err, outs, sessionVars,
                   registryVars, closeVars, expired>>

healthy(n)    == nodes[n].fresh
inCooldown(n) == nodes[n].cool

\* Mutant: every node takes every tier.
acceptsAnyTier(n, tier) == TRUE

acceptsPrivacy(n, tier) == tier \in TiersOf[nodes[n].conn]
matchesCapabilities(n, r) == r \in CanServe[nodes[n].conn]

\* Mutant: a node that failed is tried again.
CandidateAgain(r, n) ==
    /\ Registered(n)
    /\ target[r] \in {AnyProvider, ProviderOf[n]}
    /\ healthy(n) /\ ~inCooldown(n)
    /\ matchesCapabilities(n, r)
    /\ acceptsPrivacy(n, TierOf[r])
    /\ nodes[n].active < MaxConcurrent[n]

Candidate(r, n) ==
    /\ Registered(n)
    /\ n \notin tried[r]
    /\ target[r] \in {AnyProvider, ProviderOf[n]}
    /\ healthy(n) /\ ~inCooldown(n)
    /\ matchesCapabilities(n, r)
    /\ acceptsPrivacy(n, TierOf[r])
    /\ nodes[n].active < MaxConcurrent[n]

\* The cost function only ranks the candidates: any of them may be cheapest.
reserveFiltered(r) ==
    /\ pc[r] = "pick" /\ RegistryFree
    /\ \E n \in Nodes :
          /\ Candidate(r, n)
          /\ nodes' = [nodes EXCEPT ![n].active = @ + 1]
          /\ at' = [at EXCEPT ![r] = nodes[n].conn]
    /\ attempts' = [attempts EXCEPT ![r] = @ + 1]
    /\ sent' = [sent EXCEPT ![r] = FALSE]
    /\ err' = [err EXCEPT ![r] = "nil"]
    /\ pc' = [pc EXCEPT ![r] = "send"]
    /\ UNCHANGED <<target, tried, outs, reported, sessionVars, closeVars, expired>>

NoCandidate(r) ==
    /\ pc[r] = "pick" /\ RegistryFree
    /\ \A n \in Nodes : ~Candidate(r, n)
    /\ pc' = [pc EXCEPT ![r] = "failed"]
    /\ UNCHANGED <<target, at, tried, attempts, sent, err, outs, sessionVars,
                   registryVars, closeVars, expired>>

\* Send is about to return e: what is left of it is the deferred delete.
Return(r, e) ==
    /\ err' = [err EXCEPT ![r] = e]
    /\ pc' = [pc EXCEPT ![r] = "unregister"]

\* The request is registered as pending and its envelope written; a write to
\* a connection that is broken may still succeed, to a closed one it fails.
Send(r) ==
    /\ pc[r] = "send"
    /\ at[r] \notin shut \cup Closing
    /\ pc' = [pc EXCEPT ![r] = "wait"]
    /\ UNCHANGED <<target, at, tried, attempts, sent, err, outs, sessionVars,
                   registryVars, closeVars, expired>>

WriteFails(r) ==
    /\ pc[r] = "send"
    /\ at[r] \notin Closing
    /\ sess[at[r]] # "up" \/ r \in expired
    /\ Return(r, "retryable")
    /\ UNCHANGED <<target, at, tried, attempts, sent, outs, sessionVars,
                   registryVars, closeVars, expired>>

\* deliver pushes what leaves no room.  It finds the channel under nodeConn.mu,
\* so that what it pushes while a Close waits counts as pushed before.
Fill(r) ==
    /\ pc[r] \in {"wait", "sink", "unregister"}
    /\ at[r] \notin shut \cup Closing /\ sess[at[r]] \in {"up", "down"}
    /\ r \notin full
    /\ full' = full \cup {r}
    /\ UNCHANGED <<sessionVars, registryVars, dispatchVars, removing, expired>>

\* The request reads a message of the node, which makes room in its channel:
\* buffered ones are still read after a Close.
Chunk(r) ==
    /\ pc[r] = "wait"
    /\ pc' = [pc EXCEPT ![r] = "sink"]
    /\ sent' = [sent EXCEPT ![r] = TRUE]
    /\ outs' = [outs EXCEPT ![r] = @ \cup {at[r]}]
    /\ full' = full \ {r}
    /\ UNCHANGED <<target, at, tried, attempts, err, sessionVars, registryVars,
                   removing, expired>>

NodeDone(r) ==
    /\ pc[r] = "wait"
    /\ Return(r, "nil")
    /\ full' = full \ {r}
    /\ UNCHANGED <<target, at, tried, attempts, sent, outs, sessionVars,
                   registryVars, removing, expired>>

NodeError(r) ==
    /\ pc[r] = "wait"
    /\ \E e \in {"retryable", "final"} : Return(r, e)
    /\ full' = full \ {r}
    /\ UNCHANGED <<target, at, tried, attempts, sent, outs, sessionVars,
                   registryVars, removing, expired>>

\* sink.Chunk writes to the client, whose connection may stall or fail.
SinkReturns(r) ==
    /\ pc[r] = "sink"
    /\ pc' = [pc EXCEPT ![r] = "wait"]
    /\ UNCHANGED <<target, at, tried, attempts, sent, err, outs, sessionVars,
                   registryVars, closeVars, expired>>

SinkFails(r) ==
    /\ pc[r] = "sink"
    /\ Return(r, "retryable")
    /\ UNCHANGED <<target, at, tried, attempts, sent, outs, sessionVars,
                   registryVars, closeVars, expired>>

\* The request reads the message of Close.
Disconnected(r) ==
    /\ pc[r] = "wait"
    /\ at[r] \in shut
    /\ Return(r, "retryable")
    /\ UNCHANGED <<target, at, tried, attempts, sent, outs, sessionVars,
                   registryVars, closeVars, expired>>

\* Mutant: the context is only looked at when the connection has closed.
ContextDoneLate(r) ==
    /\ pc[r] = "wait"
    /\ r \in expired /\ at[r] \in shut
    /\ Return(r, "final")
    /\ UNCHANGED <<target, at, tried, attempts, sent, outs, sessionVars,
                   registryVars, closeVars, expired>>

\* Nobody reads the channel any more, full or not.
ContextDone(r) ==
    /\ pc[r] = "wait"
    /\ r \in expired
    /\ Return(r, "final")
    /\ UNCHANGED <<target, at, tried, attempts, sent, outs, sessionVars,
                   registryVars, closeVars, expired>>

\* The deferred delete takes nodeConn.mu; then Send has returned.
Unregister(r) ==
    /\ pc[r] = "unregister"
    /\ at[r] \notin Closing
    /\ pc' = [pc EXCEPT ![r] = "release"]
    /\ full' = full \ {r}
    /\ UNCHANGED <<target, at, tried, attempts, sent, err, outs, sessionVars,
                   registryVars, removing, expired>>

\* Mutant: only a success gives the slot back.
releaseOnSuccess(r) ==
    LET n == NodeOf[at[r]]
    IN  /\ pc[r] = "release" /\ RegistryFree
        /\ nodes' = IF Registered(n) /\ nodes[n].active > 0 /\ err[r] = "nil"
                    THEN [nodes EXCEPT ![n].active = @ - 1] ELSE nodes
        /\ pc' = [pc EXCEPT ![r] = "record"]
        /\ UNCHANGED <<target, at, tried, attempts, sent, err, outs, reported,
                       sessionVars, closeVars, expired>>

\* The slot is given back by node ID, to whatever registration it names now.
release(r) ==
    LET n == NodeOf[at[r]]
    IN  /\ pc[r] = "release" /\ RegistryFree
        /\ nodes' = IF Registered(n) /\ nodes[n].active > 0
                    THEN [nodes EXCEPT ![n].active = @ - 1] ELSE nodes
        /\ pc' = [pc EXCEPT ![r] = "record"]
        /\ UNCHANGED <<target, at, tried, attempts, sent, err, outs, reported,
                       sessionVars, closeVars, expired>>

canRetry(r) == r \notin expired /\ err[r] = "retryable"

recordSuccess(r) ==
    LET n == NodeOf[at[r]]
    IN  /\ pc[r] = "record" /\ RegistryFree /\ err[r] = "nil"
        /\ nodes' = IF Registered(n)
                    THEN [nodes EXCEPT ![n].cool = FALSE] ELSE nodes
        /\ pc' = [pc EXCEPT ![r] = "ok"]
        /\ UNCHANGED <<target, at, tried, attempts, sent, err, outs, reported,
                       sessionVars, closeVars, expired>>

\* Only counters of the node change.
recordPostTokenFailure(r) ==
    /\ pc[r] = "record" /\ RegistryFree /\ err[r] # "nil" /\ sent[r]
    /\ pc' = [pc EXCEPT ![r] = "failed"]
    /\ UNCHANGED <<target, at, tried, attempts, sent, err, outs, registryVars,
                   sessionVars, closeVars, expired>>

\* Only counters again: no cooldown.
recordPreTokenTerminalFailure(r) ==
    /\ pc[r] = "record" /\ RegistryFree /\ err[r] # "nil" /\ ~sent[r] /\ ~canRetry(r)
    /\ pc' = [pc EXCEPT ![r] = "failed"]
    /\ UNCHANGED <<target, at, tried, attempts, sent, err, outs, registryVars,
                   sessionVars, closeVars, expired>>

\* Mutant: failover although output has been sent.
failoverAfterToken(r) ==
    LET n == NodeOf[at[r]]
    IN  /\ pc[r] = "record" /\ RegistryFree /\ err[r] # "nil" /\ canRetry(r)
        /\ nodes' = IF Registered(n)
                    THEN [nodes EXCEPT ![n].cool = TRUE] ELSE nodes
        /\ tried' = [tried EXCEPT ![r] = @ \cup {n}]
        /\ at' = [at EXCEPT ![r] = NoSession]
        /\ pc' = [pc EXCEPT ![r] = "pick"]
        /\ UNCHANGED <<target, attempts, sent, err, outs, reported, sessionVars,
                       closeVars, expired>>

recordPreTokenFailure(r) ==
    LET n == NodeOf[at[r]]
    IN  /\ pc[r] = "record" /\ RegistryFree /\ err[r] # "nil" /\ ~sent[r] /\ canRetry(r)
        /\ nodes' = IF Registered(n)
                    THEN [nodes EXCEPT ![n].cool = TRUE] ELSE nodes
        /\ tried' = [tried EXCEPT ![r] = @ \cup {n}]
        /\ at' = [at EXCEPT ![r] = NoSession]
        /\ pc' = [pc EXCEPT ![r] = "pick"]
        /\ UNCHANGED <<target, attempts, sent, err, outs, reported, sessionVars,
                       closeVars, expired>>

\* The request timeout passes or the client goes away.
Expire(r) ==
    /\ pc[r] \in InAttempt \cup {"pick"}
    /\ r \notin expired
    /\ expired' = expired \cup {r}
    /\ UNCHANGED <<sessionVars, registryVars, dispatchVars, closeVars>>

-----------------------------------------------------------------------------

Init ==
    /\ sess = [s \in Sessions |-> "off"]
    /\ shut = {}
    /\ nodes = [n \in Nodes |-> NoNode]
    /\ reported = [n \in Nodes |-> 0]
    /\ pc = [r \in Requests |-> "idle"]
    /\ target = [r \in Requests |-> AnyProvider]
    /\ at = [r \in Requests |-> NoSession]
    /\ tried = [r \in Requests |-> {}]
    /\ attempts = [r \in Requests |-> 0]
    /\ sent = [r \in Requests |-> FALSE]
    /\ err = [r \in Requests |-> "nil"]
    /\ full = {}
    /\ removing = {}
    /\ expired = {}
    /\ outs = [r \in Requests |-> {}]

SessionStep ==
    \/ \E s \in Sessions : Register(s) \/ Heartbeat(s) \/ Disconnect(s)
                             \/ HandlerRemove(s) \/ HandlerClose(s)
    \/ \E p \in Providers : RemoveProvider(p)
    \/ FinishRemove
    \/ \E n \in Nodes : GoStale(n) \/ CooldownEnds(n)

\* What becomes of the messages of a node.
NodeStep(r) == Chunk(r) \/ NodeDone(r) \/ NodeError(r)

\* What the client's connection does.
ClientStep(r) == SinkReturns(r) \/ SinkFails(r)

\* What the dispatching goroutine does by itself.
GoroutineStep(r) ==
    \/ reserveFiltered(r) \/ NoCandidate(r)
    \/ Send(r) \/ WriteFails(r) \/ Disconnected(r) \/ ContextDone(r) \/ Unregister(r)
    \/ release(r) \/ recordSuccess(r) \/ recordPostTokenFailure(r)
    \/ recordPreTokenTerminalFailure(r) \/ recordPreTokenFailure(r)

\* Connections on which a Close waits, with its mutex held, for a request that
\* does not read its channel.
Jammed ==
    {c \in Closing : \E q \in full : at[q] = c /\ pc[q] \in {"sink", "unregister"}}

\* Such a Close holds Registry.mu, or the mutex of the connection r is on.
HeldByClose(r) == at[r] \in Jammed \/ ConnsOf(removing) \cap Jammed # {}

\* No dispatch is running, except those that a Close holds up.
Quiet ==
    /\ \A r \in Requests : pc[r] \in {"ok", "failed"} \/ HeldByClose(r)
    /\ UNCHANGED vars

Next ==
    \/ SessionStep
    \/ Quiet
    \/ \E r \in Requests : \/ Dispatch(r) \/ Fill(r) \/ NodeStep(r) \/ ClientStep(r)
                           \/ GoroutineStep(r) \/ Expire(r)

Spec == Init /\ [][Next]_vars

\* The Go scheduler runs every goroutine, its mutexes and its select pass nobody
\* over for ever, a goroutine in the select reads a channel that has messages,
\* and a Close that finds room goes on.  Nothing is assumed of sessions, of nodes,
\* of clients, which need not read their streams, or of contexts, which are done
\* in time only where request_timeout is set; it is off by default.
FairSpec ==
    /\ Spec
    /\ \A r \in Requests : SF_vars(GoroutineStep(r)) /\ WF_vars(r \in full /\ NodeStep(r))
    /\ \A s \in Sessions : WF_vars(HandlerClose(s))
    /\ WF_vars(FinishRemove)

-----------------------------------------------------------------------------
(* Properties.                                                             *)

\* The states the registry, the handlers and the dispatches can be in.
TypeOK ==
    /\ sess \in [Sessions -> HandlerPlaces]
    /\ shut \subseteq Sessions
    /\ nodes \in [Nodes -> NodeRecords \cup {NoNode}]
    /\ reported \in [Nodes -> Nat]
    /\ pc \in [Requests -> Locations]
    /\ target \in [Requests -> Targets \cup {AnyProvider}]
    /\ at \in [Requests -> Sessions \cup {NoSession}]
    /\ \A r \in Requests : pc[r] \in InAttempt \cup {"ok"} => at[r] \in Sessions
    /\ tried \in [Requests -> SUBSET Nodes]
    /\ attempts \in [Requests -> Nat]
    /\ sent \in [Requests -> BOOLEAN]
    /\ err \in [Requests -> {"nil", "retryable", "final"}]
    /\ full \subseteq Requests
    /\ removing \subseteq Nodes
    /\ expired \subseteq Requests
    /\ outs \in [Requests -> SUBSET Sessions]

\* Failover is pre-first-token only: everything a client was sent comes from
\* one session, the one the dispatch ends with, so a response is never
\* restarted elsewhere and the provider that is paid is the one that answered.
OneNodePerAnswer ==
    \A r \in Requests : outs[r] \subseteq {at[r]}

\* dispatch never gives a request to a node it has failed on, however often
\* that node reconnects, so it makes at most one attempt per node.
NodeTriedOnce ==
    \A r \in Requests :
        /\ pc[r] \in InAttempt => NodeOf[at[r]] \notin tried[r]
        /\ attempts[r] <= Cardinality(Nodes)

\* A request is only ever sent on a session whose registration accepts its
\* privacy tier and belongs to the provider it targets, although the node may
\* have registered again, with other tiers, since the slot was reserved.
PrivacyKept ==
    \A r \in Requests : at[r] # NoSession =>
        /\ TierOf[r] \in TiersOf[at[r]]
        /\ target[r] \in {AnyProvider, ProviderOf[NodeOf[at[r]]]}

\* The registry never routes to a connection that was closed: a handler
\* removes its node before it closes, and a Remove that hits the registration
\* of a newer session closes that session as well.
RoutableIsOpen ==
    \A n \in Nodes : Registered(n) =>
        nodes[n].conn \notin shut /\ NodeOf[nodes[n].conn] = n

\* Requests that hold a slot of node n.
Holders(n) ==
    {r \in Requests : /\ pc[r] \in {"send", "wait", "sink", "unregister", "release"}
                      /\ NodeOf[at[r]] = n}

\* No path through dispatch leaks a slot, although slots are given back by node
\* ID and heartbeats overwrite the count: a node's active count is at most what
\* its last heartbeat reported and one for every request that holds its slots.
SlotsNotLeaked ==
    \A n \in Nodes : Registered(n) =>
        nodes[n].active <= reported[n] + Cardinality(Holders(n))

\* Every dispatch ends, however its nodes fail and reconnect, unless for ever
\* its context is not done and its node goes on or is silent, or its client does
\* not read what it is sent, or a Close waits, with Registry.mu or the mutex of
\* its connection held, for room in the channel of a request that has stopped
\* reading.  Nothing else holds up a dispatch whose context is done.
EveryDispatchEnds ==
    \A r \in Requests :
        \/ pc[r] = "pick" ~> pc[r] \in {"ok", "failed"}
        \/ <>[](pc[r] \in {"wait", "sink"} /\ r \notin expired)
        \/ <>[](pc[r] = "sink")
        \/ <>[]HeldByClose(r)

=============================================================================
