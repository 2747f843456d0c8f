----------------------------- MODULE NodeAgent -----------------------------
(***************************************************************************)
(* The node agent, and the count of active requests that the coordinator   *)
(* keeps for it.  The agent dials the coordinator, registers, and runs a   *)
(* heartbeat loop and a read loop; every request it accepts runs in a      *)
(* goroutine of its own that outlives the session.  Two counters stand for *)
(* the same thing: agent.active, and the Active field of the registry's    *)
(* entry, which reservations and releases change and which heartbeats      *)
(* overwrite.  A request is sent to the node at most once: failover is in  *)
(* Scheduler, and the channels below a session are in NodeConn.            *)
(***************************************************************************)
EXTENDS Integers, Sequences, FiniteSets

CONSTANTS
    Requests,       \* requests the coordinator may send to the node
    MaxConcurrent,  \* max_concurrent in the agent's configuration
    MaxSessions,    \* bound on connections
    MaxWire         \* bound on messages on their way to the coordinator

ASSUME NodeAgentAssumption ==
    /\ IsFiniteSet(Requests)
    /\ MaxConcurrent \in Nat \ {0}
    /\ MaxSessions \in Nat \ {0}
    /\ MaxWire \in Nat \ {0}

VARIABLES
    call,     \* where the dispatch of each request stands
    on,       \* the session it was given
    slots,    \* Active of the node's entry in the registry
    reg,      \* the session registered for the node ID; 0 is none
    serving,  \* sessions whose nodeWebSocket handler runs
    open,     \* sessions whose socket works
    toAgent,  \* requests on their way to the agent, per session
    toCoord,  \* messages on their way to the coordinator, per session
    cur,      \* the agent's latest session; 0 before the first
    running,  \* whether agent.run is in its loops
    job,      \* where the agent's goroutine of each request stands
    active,   \* agent.active
    beat,     \* what the heartbeat loop has loaded and not yet written
    drift     \* history: slots may have stopped to count the node's jobs

callVars  == <<call, on>>
entryVars == <<slots, reg, serving>>
wireVars  == <<open, toAgent, toCoord>>
agentVars == <<cur, running, job, active, beat>>
vars      == <<callVars, entryVars, wireVars, agentVars, drift>>

-----------------------------------------------------------------------------

Sessions == 1..MaxSessions

Heartbeat(a) == [type |-> "heartbeat", active |-> a]
Reply(r)     == [type |-> "reply", to |-> r]

NoBeat == -1

\* A write to session s: to a socket that is closed it fails, and the agent
\* ignores the error.
write(s, msg) ==
    IF s \in open THEN [toCoord EXCEPT ![s] = Append(@, msg)] ELSE toCoord

Room(s) == s \in open => Len(toCoord[s]) < MaxWire

\* nodeConn.Close on sessions S wakes the calls that wait on them.
Woken(S) ==
    [r \in Requests |->
        IF call[r] = "wait" /\ on[r] \in S THEN "release" ELSE call[r]]

-----------------------------------------------------------------------------
(* The coordinator.                                                        *)

\* Mutant: one request more than the node has slots.
ReserveOneMore(r) ==
    /\ call[r] = "idle"
    /\ reg # 0 /\ slots <= MaxConcurrent
    /\ slots' = slots + 1
    /\ on' = [on EXCEPT ![r] = reg]
    /\ call' = [call EXCEPT ![r] = "send"]
    /\ UNCHANGED <<reg, serving, wireVars, agentVars, drift>>

Reserve(r) ==
    /\ call[r] = "idle"
    /\ reg # 0 /\ slots < MaxConcurrent
    /\ slots' = slots + 1
    /\ on' = [on EXCEPT ![r] = reg]
    /\ call' = [call EXCEPT ![r] = "send"]
    /\ UNCHANGED <<reg, serving, wireVars, agentVars, drift>>

Send(r) ==
    /\ call[r] = "send"
    /\ IF on[r] \in open
       THEN /\ toAgent' = [toAgent EXCEPT ![on[r]] = Append(@, r)]
            /\ call' = [call EXCEPT ![r] = "wait"]
       ELSE /\ call' = [call EXCEPT ![r] = "release"]
            /\ UNCHANGED toAgent
    /\ UNCHANGED <<on, entryVars, open, toCoord, agentVars, drift>>

\* ctx.Done(): the request leaves, and nobody tells the agent.
TimeOut(r) ==
    /\ call[r] = "wait"
    /\ call' = [call EXCEPT ![r] = "release"]
    /\ drift' = TRUE
    /\ UNCHANGED <<on, entryVars, wireVars, agentVars>>

release(r) ==
    /\ call[r] = "release"
    /\ slots' = IF reg # 0 /\ slots > 0 THEN slots - 1 ELSE slots
    /\ call' = [call EXCEPT ![r] = "done"]
    /\ UNCHANGED <<on, reg, serving, wireVars, agentVars, drift>>

\* A heartbeat is applied to the entry of the node ID.
HandleHeartbeat(s) ==
    /\ s \in serving
    /\ toCoord[s] # <<>> /\ Head(toCoord[s]).type = "heartbeat"
    /\ slots' = IF reg # 0 THEN Head(toCoord[s]).active ELSE slots
    /\ toCoord' = [toCoord EXCEPT ![s] = Tail(@)]
    /\ drift' = TRUE
    /\ UNCHANGED <<callVars, reg, serving, open, toAgent, agentVars>>

\* deliver, and the request's return with its result or error.
HandleReply(s) ==
    /\ s \in serving
    /\ toCoord[s] # <<>> /\ Head(toCoord[s]).type = "reply"
    /\ LET r == Head(toCoord[s]).to
       IN  call' = IF call[r] = "wait" /\ on[r] = s
                   THEN [call EXCEPT ![r] = "release"] ELSE call
    /\ toCoord' = [toCoord EXCEPT ![s] = Tail(@)]
    /\ UNCHANGED <<on, entryVars, open, toAgent, agentVars, drift>>

\* A read fails: the handler removes the node ID's entry, whichever session
\* it belongs to, which closes that session, and then closes its own.  One step
\* here: all that its own Close does later is to wake up requests that hold no
\* slot of a registered entry any more.  Scheduler has the two apart.
HandlerExits(s) ==
    /\ s \in serving
    /\ s \notin open
    /\ serving' = serving \ {s}
    /\ call' = Woken({s, reg})
    /\ open' = open \ {reg}
    /\ reg' = 0
    /\ slots' = 0
    /\ toCoord' = [toCoord EXCEPT ![s] = <<>>]
    /\ drift' = TRUE
    /\ UNCHANGED <<on, toAgent, agentVars>>

-----------------------------------------------------------------------------
(* The agent.                                                              *)

\* Dial and register; the coordinator replaces the entry of the node ID.
run ==
    /\ ~running
    /\ cur < MaxSessions
    /\ cur' = cur + 1
    /\ running' = TRUE
    /\ open' = open \cup {cur'}
    /\ serving' = serving \cup {cur'}
    /\ reg' = cur'
    /\ slots' = 0
    /\ drift' = (cur > 0)
    /\ UNCHANGED <<callVars, toAgent, toCoord, job, active, beat>>

\* One of the loops meets an error; what was on its way is lost.
runReturns ==
    /\ running
    /\ cur \notin open
    /\ running' = FALSE
    /\ beat' = NoBeat
    /\ toAgent' = [toAgent EXCEPT ![cur] = <<>>]
    /\ UNCHANGED <<callVars, entryVars, open, toCoord, cur, job, active, drift>>

\* The request is refused when as many as allowed have been counted; the
\* goroutine that is started otherwise counts itself later.
readLoop ==
    /\ running
    /\ toAgent[cur] # <<>>
    /\ toAgent' = [toAgent EXCEPT ![cur] = Tail(@)]
    /\ LET r == Head(toAgent[cur])
       IN  IF active >= MaxConcurrent
           THEN Room(cur) /\ toCoord' = write(cur, Reply(r)) /\ UNCHANGED job
           ELSE job' = [job EXCEPT ![r] = "spawned"] /\ UNCHANGED toCoord
    /\ UNCHANGED <<callVars, entryVars, open, cur, running, active, beat, drift>>

\* handleInference, handleEmbedding: count, ask the backend, ...
JobStarts(r) ==
    /\ job[r] = "spawned"
    /\ active' = active + 1
    /\ job' = [job EXCEPT ![r] = "running"]
    /\ UNCHANGED <<callVars, entryVars, wireVars, cur, running, beat, drift>>

\* Mutant: the answer goes to the latest session.
JobRepliesToLatest(r) ==
    /\ job[r] = "running"
    /\ Room(cur)
    /\ toCoord' = write(cur, Reply(r))
    /\ job' = [job EXCEPT ![r] = "replied"]
    /\ UNCHANGED <<callVars, entryVars, open, toAgent, cur, running, active,
                   beat, drift>>

\* ... write the result or the error to the session it came from, ...
JobReplies(r) ==
    /\ job[r] = "running"
    /\ Room(on[r])
    /\ toCoord' = write(on[r], Reply(r))
    /\ job' = [job EXCEPT ![r] = "replied"]
    /\ UNCHANGED <<callVars, entryVars, open, toAgent, cur, running, active,
                   beat, drift>>

\* Mutant: the counter is not decremented.
JobEndsCounted(r) ==
    /\ job[r] = "replied"
    /\ job' = [job EXCEPT ![r] = "ended"]
    /\ UNCHANGED <<callVars, entryVars, wireVars, cur, running, active, beat, drift>>

\* ... and, deferred, stop counting.
JobEnds(r) ==
    /\ job[r] = "replied"
    /\ active' = active - 1
    /\ job' = [job EXCEPT ![r] = "ended"]
    /\ UNCHANGED <<callVars, entryVars, wireVars, cur, running, beat, drift>>

\* The ticker fires: the counter is loaded, and written when the socket's
\* mutex is free.
heartbeatLoad ==
    /\ running
    /\ beat = NoBeat
    /\ beat' = active
    /\ UNCHANGED <<callVars, entryVars, wireVars, cur, running, job, active, drift>>

heartbeatWrite ==
    /\ running
    /\ beat # NoBeat
    /\ Room(cur)
    /\ toCoord' = write(cur, Heartbeat(beat))
    /\ beat' = NoBeat
    /\ UNCHANGED <<callVars, entryVars, open, toAgent, cur, running, job,
                   active, drift>>

\* The network fails.
Break ==
    /\ cur \in open
    /\ open' = open \ {cur}
    /\ UNCHANGED <<callVars, entryVars, toAgent, toCoord, agentVars, drift>>

-----------------------------------------------------------------------------

Init ==
    /\ call = [r \in Requests |-> "idle"]
    /\ on = [r \in Requests |-> 0]
    /\ slots = 0
    /\ reg = 0
    /\ serving = {}
    /\ open = {}
    /\ toAgent = [s \in Sessions |-> <<>>]
    /\ toCoord = [s \in Sessions |-> <<>>]
    /\ cur = 0
    /\ running = FALSE
    /\ job = [r \in Requests |-> "none"]
    /\ active = 0
    /\ beat = NoBeat
    /\ drift = FALSE

CallStep(r)    == Send(r) \/ release(r)
HandlerStep(s) == HandleHeartbeat(s) \/ HandleReply(s) \/ HandlerExits(s)
JobStep(r)     == JobStarts(r) \/ JobReplies(r) \/ JobEnds(r)
HeartbeatLoop  == heartbeatLoad \/ heartbeatWrite

\* The agent was told to stop.
Stopped ==
    /\ ~running /\ cur = MaxSessions
    /\ UNCHANGED vars

Next ==
    \/ \E r \in Requests : Reserve(r) \/ CallStep(r) \/ TimeOut(r) \/ JobStep(r)
    \/ \E s \in Sessions : HandlerStep(s)
    \/ run \/ runReturns \/ readLoop \/ HeartbeatLoop \/ Break \/ Stopped

Spec == Init /\ [][Next]_vars

\* Goroutines are scheduled, the ticker fires, the backend answers at last,
\* and who waits to write gets safeConn.mu in the end, however often the
\* heartbeat loop takes it (Go's mutex does not starve a waiter).  Nothing is
\* assumed of the network and of clients.
FairSpec ==
    /\ Spec
    /\ \A r \in Requests : WF_vars(CallStep(r)) /\ SF_vars(JobStep(r))
    /\ \A s \in Sessions : WF_vars(HandlerStep(s))
    /\ WF_vars(run) /\ WF_vars(runReturns)
    /\ SF_vars(readLoop) /\ SF_vars(HeartbeatLoop)

-----------------------------------------------------------------------------
(* Properties.                                                             *)

Counted == {r \in Requests : job[r] \in {"running", "replied"}}
Working == {r \in Requests : job[r] \in {"spawned", "running"}}

Messages == {Heartbeat(a) : a \in 0..Cardinality(Requests)}
              \cup {Reply(r) : r \in Requests}

\* The states of the two processes and the sockets between them; the agent's
\* counter counts its goroutines.
TypeOK ==
    /\ call \in [Requests -> {"idle", "send", "wait", "release", "done"}]
    /\ on \in [Requests -> 0..MaxSessions]
    /\ slots \in Nat
    /\ reg \in 0..MaxSessions
    /\ serving \subseteq Sessions /\ open \subseteq Sessions
    /\ toAgent \in [Sessions -> Seq(Requests)]
    /\ toCoord \in [Sessions -> Seq(Messages)]
    /\ \A s \in Sessions : Len(toCoord[s]) <= MaxWire
    /\ cur \in 0..MaxSessions
    /\ running \in BOOLEAN
    /\ job \in [Requests -> {"none", "spawned", "running", "replied", "ended"}]
    /\ active = Cardinality(Counted)
    /\ beat \in {NoBeat} \cup 0..Cardinality(Requests)
    /\ drift \in BOOLEAN

\* As long as no heartbeat has been applied, no request has timed out and the
\* agent has not reconnected, the coordinator's count alone keeps the node
\* within its limit, also the goroutines the agent has not counted yet.
CoordinatorKeepsLimit == ~drift => Cardinality(Working) <= MaxConcurrent

\* What a job answers reaches the coordinator on the session the request was
\* sent on, or not at all: a late answer is never delivered on the session of
\* a reconnected agent.
AnswersOnOwnSession ==
    \A s \in Sessions : \A i \in 1..Len(toCoord[s]) :
        toCoord[s][i].type = "reply" => on[toCoord[s][i].to] = s

\* The coordinator's count recovers from every drift: a node that stays
\* registered and is given no more work is in the end counted as idle, so its
\* slots are never lost for good.
SlotsRecover == <>[](reg # 0) => <>[](slots = 0)

=============================================================================
