-------------------------- MODULE NodeAgentProofs --------------------------
(***************************************************************************)
(* Proofs about NodeAgent, for any number of requests, sessions and slots. *)
(* A request is in one place at a time: queued for the agent, a goroutine  *)
(* of the agent, or an answer on the wire (WireOK).  As long as nothing    *)
(* has made the two counters differ, the registry's Active counts the      *)
(* calls, and a call does not end before its goroutine (CountOK).          *)
(***************************************************************************)
EXTENDS NodeAgent, FiniteSetTheorems, TLAPS

\* x is an element of the sequence q; no element of q occurs twice.
In(x, q)    == \E i \in 1..Len(q) : q[i] = x
Distinct(q) == \A i, j \in 1..Len(q) : q[i] = q[j] => i = j

\* The calls that hold a slot of the node.
Held == {r \in Requests : call[r] \in {"send", "wait", "release"}}

\* Where a request is on its way, and on which session: it waits for the agent
\* or its answer waits for the coordinator, never both, and only after Send.
WireOK ==
    /\ serving \subseteq 1..cur /\ (running => cur \in Sessions)
    /\ \A r \in Requests : call[r] # "idle" => on[r] \in Sessions
    /\ \A r \in Requests : job[r] # "none" => call[r] \notin {"idle", "send"}
    /\ \A s \in Sessions : Distinct(toAgent[s])
    /\ \A r \in Requests, s \in Sessions : In(r, toAgent[s]) =>
          /\ on[r] = s /\ call[r] \notin {"idle", "send"} /\ job[r] = "none"
          /\ \A t \in Sessions : ~In(Reply(r), toCoord[t])
    /\ \A r \in Requests, s \in Sessions : In(Reply(r), toCoord[s]) =>
          /\ on[r] = s /\ call[r] \notin {"idle", "send"}
          /\ job[r] \in {"none", "replied", "ended"}

\* Before anything has made the counters differ, Active counts the calls, and a
\* request that is queued or being worked on has a call that waits for it.
CountOK ==
    /\ drift => cur > 0
    /\ ~drift =>
          /\ IF cur = 0 THEN reg = 0 /\ \A r \in Requests : call[r] = "idle"
                        ELSE reg # 0
          /\ slots = Cardinality(Held) /\ slots <= MaxConcurrent
          /\ \A r \in Requests :
                \/ \E s \in Sessions : In(r, toAgent[s])
                \/ job[r] \in {"spawned", "running"}
                => call[r] = "wait"

\* The inductive invariant.
AgentInv == TypeOK /\ WireOK /\ CountOK

-----------------------------------------------------------------------------
(* Queues.                                                                 *)

\* What a write to a socket adds to a queue.
LEMMA InAppend ==
    ASSUME NEW S, NEW q \in Seq(S), NEW m \in S
    PROVE  /\ Append(q, m) \in Seq(S) /\ Len(Append(q, m)) = Len(q) + 1
           /\ \A x : In(x, Append(q, m)) <=> In(x, q) \/ x = m
           /\ Distinct(q) /\ ~In(m, q) => Distinct(Append(q, m))
<1>1. /\ Append(q, m) \in Seq(S) /\ Len(Append(q, m)) = Len(q) + 1
      /\ \A i \in 1..Len(q) : Append(q, m)[i] = q[i]
      /\ Append(q, m)[Len(q) + 1] = m
      /\ Len(q) \in Nat
  OBVIOUS
<1>2. \A i \in 1..(Len(q) + 1) : i \in 1..Len(q) \/ i = Len(q) + 1
  BY <1>1
<1>3. ASSUME NEW x PROVE In(x, Append(q, m)) <=> In(x, q) \/ x = m
  <2>1. In(x, Append(q, m)) => In(x, q) \/ x = m
    BY <1>1, <1>2 DEF In
  <2>2. In(x, q) => In(x, Append(q, m))
    BY <1>1 DEF In
  <2>3. x = m => In(x, Append(q, m))
    BY <1>1 DEF In
  <2> QED
    BY <2>1, <2>2, <2>3
<1>4. Distinct(q) /\ ~In(m, q) => Distinct(Append(q, m))
  BY <1>1, <1>2 DEF Distinct, In
<1> QED
  BY <1>1, <1>3, <1>4

\* What a read takes out of a queue.
LEMMA InTail ==
    ASSUME NEW S, NEW q \in Seq(S), q # <<>>
    PROVE  /\ Tail(q) \in Seq(S) /\ Len(Tail(q)) = Len(q) - 1
           /\ Head(q) \in S /\ In(Head(q), q)
           /\ \A x : In(x, Tail(q)) => In(x, q)
           /\ Distinct(q) => Distinct(Tail(q)) /\ ~In(Head(q), Tail(q))
<1>1. /\ Tail(q) \in Seq(S) /\ Len(Tail(q)) = Len(q) - 1
      /\ \A i \in 1..Len(Tail(q)) : Tail(q)[i] = q[i + 1]
      /\ Head(q) = q[1] /\ Head(q) \in S /\ Len(q) \in Nat /\ Len(q) > 0
  OBVIOUS
<1>2. In(Head(q), q)
  BY <1>1 DEF In
<1>3. \A x : In(x, Tail(q)) => In(x, q)
  BY <1>1 DEF In
<1>4. Distinct(q) => Distinct(Tail(q)) /\ ~In(Head(q), Tail(q))
  BY <1>1 DEF Distinct, In
<1> QED
  BY <1>1, <1>2, <1>3, <1>4

\* A queue that has been emptied.
LEMMA InEmpty == (\A x : ~In(x, <<>>)) /\ Distinct(<<>>)
  BY DEF In, Distinct

\* A write of the agent adds its message to the session's queue if the socket
\* works, and changes no other queue.
LEMMA Written ==
    ASSUME TypeOK, NEW s \in Sessions, NEW m \in Messages, Room(s)
    PROVE  /\ write(s, m) \in [Sessions -> Seq(Messages)]
           /\ \A t \in Sessions : Len(write(s, m)[t]) <= MaxWire
           /\ \A t \in Sessions : \A x :
                 In(x, write(s, m)[t]) => In(x, toCoord[t]) \/ (t = s /\ x = m)
<1>1. /\ toCoord \in [Sessions -> Seq(Messages)]
      /\ \A t \in Sessions : Len(toCoord[t]) <= MaxWire
  BY DEF TypeOK
<1>2. CASE s \notin open
  BY <1>1, <1>2 DEF write
<1>3. CASE s \in open
  <2>1. write(s, m) = [toCoord EXCEPT ![s] = Append(@, m)]
    BY <1>3 DEF write
  <2>2. /\ Append(toCoord[s], m) \in Seq(Messages)
        /\ Len(Append(toCoord[s], m)) = Len(toCoord[s]) + 1
        /\ \A x : In(x, Append(toCoord[s], m)) <=> In(x, toCoord[s]) \/ x = m
    BY <1>1, InAppend
  <2>3. /\ write(s, m)[s] = Append(toCoord[s], m)
        /\ \A t \in Sessions : t # s => write(s, m)[t] = toCoord[t]
    BY <1>1, <2>1
  <2>4. Len(toCoord[s]) < MaxWire /\ Len(toCoord[s]) \in Nat /\ MaxWire \in Nat
    BY <1>1, <1>3, NodeAgentAssumption DEF Room
  <2> QED
    BY <1>1, <2>1, <2>2, <2>3, <2>4
<1> QED
  BY <1>2, <1>3

\* The two kinds of messages are different, and a reply is to one request.
LEMMA MessageKinds ==
    /\ \A r \in Requests : Reply(r) \in Messages /\ Reply(r).type = "reply" /\ Reply(r).to = r
    /\ \A a \in 0..Cardinality(Requests) :
          Heartbeat(a) \in Messages /\ Heartbeat(a).type = "heartbeat"
    /\ \A m \in Messages : m.type = "reply" => m.to \in Requests /\ m = Reply(m.to)
    /\ \A m \in Messages : m.type = "heartbeat" => m.active \in 0..Cardinality(Requests)
<1>1. \A r \in Requests : Reply(r) \in Messages /\ Reply(r).type = "reply" /\ Reply(r).to = r
  BY DEF Messages, Reply
<1>2. \A a \in 0..Cardinality(Requests) :
         Heartbeat(a) \in Messages /\ Heartbeat(a).type = "heartbeat" /\ Heartbeat(a).active = a
  BY DEF Messages, Heartbeat
<1>3. ASSUME NEW m \in Messages
      PROVE  \/ \E r \in Requests : m = Reply(r)
             \/ \E a \in 0..Cardinality(Requests) : m = Heartbeat(a)
  BY DEF Messages
<1>4. ASSUME NEW m \in Messages, m.type = "reply"
      PROVE  m.to \in Requests /\ m = Reply(m.to)
  BY <1>1, <1>2, <1>3, <1>4
<1>5. ASSUME NEW m \in Messages, m.type = "heartbeat"
      PROVE  m.active \in 0..Cardinality(Requests)
  BY <1>1, <1>2, <1>3, <1>5
<1> QED
  BY <1>1, <1>2, <1>4, <1>5

-----------------------------------------------------------------------------
(* Every step keeps the invariant.                                         *)

\* The goroutines of the agent can be counted, and so can the calls.
LEMMA RequestSets ==
    ASSUME NEW S \in SUBSET Requests
    PROVE  /\ IsFiniteSet(S) /\ Cardinality(S) \in Nat
           /\ Cardinality(S) \in 0..Cardinality(Requests)
<1>1. IsFiniteSet(S) /\ Cardinality(S) <= Cardinality(Requests)
  BY NodeAgentAssumption, FS_Subset
<1>2. Cardinality(S) \in Nat /\ Cardinality(Requests) \in Nat
  BY <1>1, NodeAgentAssumption, FS_CardinalityType
<1> QED
  BY <1>1, <1>2

\* Steps of goroutines of the agent that neither count nor stop counting leave
\* agent.active equal to the number of counted goroutines.
LEMMA SameCounted ==
    ASSUME TypeOK, active' = active,
           \A r \in Requests : job'[r] \in {"running", "replied"}
                                 <=> job[r] \in {"running", "replied"}
    PROVE  active' = Cardinality(Counted)'
<1>1. Counted' = Counted
  BY DEF Counted
<1> QED
  BY <1>1 DEF TypeOK

\* Every step keeps the types, and agent.active counts the goroutines between
\* their increment and their deferred decrement.
LEMMA AgentType ==
    ASSUME TypeOK, WireOK, [Next]_vars
    PROVE  TypeOK'
<1> USE NodeAgentAssumption
<1>1. ASSUME NEW r \in Requests, Reserve(r) PROVE TypeOK'
  BY <1>1, SameCounted DEF Reserve, TypeOK, wireVars, agentVars, NoBeat
<1>2. ASSUME NEW r \in Requests, Send(r) PROVE TypeOK'
  <2>1. active' = Cardinality(Counted)'
    BY <1>2, SameCounted DEF Send, agentVars
  <2>2. toAgent' \in [Sessions -> Seq(Requests)]
    <3>1. on[r] \in Sessions
      BY <1>2 DEF Send, WireOK
    <3>2. Append(toAgent[on[r]], r) \in Seq(Requests)
      BY <3>1, InAppend DEF TypeOK
    <3> QED
      BY <1>2, <3>1, <3>2 DEF Send, TypeOK
  <2>3. call' \in [Requests -> {"idle", "send", "wait", "release", "done"}]
    BY <1>2 DEF Send, TypeOK
  <2> QED
    BY <1>2, <2>1, <2>2, <2>3 DEF Send, TypeOK, entryVars, agentVars, Messages
<1>3. ASSUME NEW r \in Requests, TimeOut(r) PROVE TypeOK'
  BY <1>3, SameCounted DEF TimeOut, TypeOK, entryVars, wireVars, agentVars
<1>4. ASSUME NEW r \in Requests, release(r) PROVE TypeOK'
  BY <1>4, SameCounted DEF release, TypeOK, wireVars, agentVars
<1>5. ASSUME NEW r \in Requests, JobStarts(r) PROVE TypeOK'
  <2>1. Counted' = Counted \cup {r} /\ r \notin Counted /\ Counted \in SUBSET Requests
    BY <1>5 DEF JobStarts, Counted, TypeOK
  <2>2. Cardinality(Counted') = Cardinality(Counted) + 1
    BY <2>1, RequestSets, FS_AddElement
  <2>3. job' \in [Requests -> {"none", "spawned", "running", "replied", "ended"}]
    BY <1>5 DEF JobStarts, TypeOK
  <2> QED
    BY <1>5, <2>2, <2>3 DEF JobStarts, TypeOK, callVars, entryVars, wireVars
<1>6. ASSUME NEW r \in Requests, JobReplies(r) PROVE TypeOK'
  <2>1. active' = Cardinality(Counted)'
    BY <1>6, SameCounted DEF JobReplies, TypeOK
  <2>2. on[r] \in Sessions
    BY <1>6 DEF JobReplies, WireOK
  <2>3. /\ toCoord' \in [Sessions -> Seq(Messages)]
        /\ \A s \in Sessions : Len(toCoord'[s]) <= MaxWire
    BY <1>6, <2>2, Written, MessageKinds DEF JobReplies
  <2>4. job' \in [Requests -> {"none", "spawned", "running", "replied", "ended"}]
    BY <1>6 DEF JobReplies, TypeOK
  <2> QED
    BY <1>6, <2>1, <2>3, <2>4 DEF JobReplies, TypeOK, callVars, entryVars
<1>7. ASSUME NEW r \in Requests, JobEnds(r) PROVE TypeOK'
  <2>1. Counted' = Counted \ {r} /\ r \in Counted /\ Counted \in SUBSET Requests
    BY <1>7 DEF JobEnds, Counted, TypeOK
  <2>2. Cardinality(Counted') = Cardinality(Counted) - 1
    BY <2>1, RequestSets, FS_RemoveElement
  <2>3. job' \in [Requests -> {"none", "spawned", "running", "replied", "ended"}]
    BY <1>7 DEF JobEnds, TypeOK
  <2> QED
    BY <1>7, <2>2, <2>3 DEF JobEnds, TypeOK, callVars, entryVars, wireVars
<1>8. ASSUME NEW s \in Sessions, HandleHeartbeat(s) PROVE TypeOK'
  <2>1. active' = Cardinality(Counted)'
    BY <1>8, SameCounted DEF HandleHeartbeat, agentVars
  <2>2. /\ Tail(toCoord[s]) \in Seq(Messages) /\ Head(toCoord[s]) \in Messages
        /\ Len(Tail(toCoord[s])) = Len(toCoord[s]) - 1
    BY <1>8, InTail DEF HandleHeartbeat, TypeOK
  <2>3. Head(toCoord[s]).active \in Nat
    BY <1>8, <2>2, MessageKinds DEF HandleHeartbeat
  <2>4. Len(toCoord[s]) \in Nat
    BY DEF TypeOK
  <2>5. /\ toCoord' \in [Sessions -> Seq(Messages)]
        /\ \A t \in Sessions : Len(toCoord'[t]) <= MaxWire
    BY <1>8, <2>2, <2>4 DEF HandleHeartbeat, TypeOK
  <2> QED
    BY <1>8, <2>1, <2>3, <2>5 DEF HandleHeartbeat, TypeOK, callVars, agentVars
<1>9. ASSUME NEW s \in Sessions, HandleReply(s) PROVE TypeOK'
  <2>1. active' = Cardinality(Counted)'
    BY <1>9, SameCounted DEF HandleReply, agentVars
  <2>2. /\ Tail(toCoord[s]) \in Seq(Messages) /\ Head(toCoord[s]) \in Messages
        /\ Len(Tail(toCoord[s])) = Len(toCoord[s]) - 1
    BY <1>9, InTail DEF HandleReply, TypeOK
  <2>3. Head(toCoord[s]).to \in Requests
    BY <1>9, <2>2, MessageKinds DEF HandleReply
  <2>4. Len(toCoord[s]) \in Nat
    BY DEF TypeOK
  <2>5. /\ toCoord' \in [Sessions -> Seq(Messages)]
        /\ \A t \in Sessions : Len(toCoord'[t]) <= MaxWire
    BY <1>9, <2>2, <2>4 DEF HandleReply, TypeOK
  <2>6. call' \in [Requests -> {"idle", "send", "wait", "release", "done"}]
    BY <1>9, <2>3 DEF HandleReply, TypeOK
  <2> QED
    BY <1>9, <2>1, <2>5, <2>6 DEF HandleReply, TypeOK, entryVars, agentVars
<1>10. ASSUME NEW s \in Sessions, HandlerExits(s) PROVE TypeOK'
  <2>1. active' = Cardinality(Counted)'
    BY <1>10, SameCounted DEF HandlerExits, agentVars
  <2>2. call' \in [Requests -> {"idle", "send", "wait", "release", "done"}]
    BY <1>10 DEF HandlerExits, Woken, TypeOK
  <2>3. /\ toCoord' \in [Sessions -> Seq(Messages)]
        /\ \A t \in Sessions : Len(toCoord'[t]) <= MaxWire
    BY <1>10 DEF HandlerExits, TypeOK
  <2>4. /\ slots' \in Nat /\ reg' \in 0..MaxSessions
        /\ serving' \subseteq Sessions /\ open' \subseteq Sessions
        /\ drift' \in BOOLEAN
    BY <1>10 DEF HandlerExits, TypeOK
  <2>5. UNCHANGED <<on, toAgent, cur, running, job, active, beat>>
    BY <1>10 DEF HandlerExits, agentVars
  <2> QED
    BY <2>1, <2>2, <2>3, <2>4, <2>5 DEF TypeOK
<1>11. CASE run
  BY <1>11, SameCounted DEF run, TypeOK, callVars, Sessions
<1>12. CASE runReturns
  <2>1. active' = Cardinality(Counted)'
    BY <1>12, SameCounted DEF runReturns
  <2>2. toAgent' \in [Sessions -> Seq(Requests)]
    <3>1. <<>> \in Seq(Requests) /\ cur \in Sessions
      BY <1>12 DEF runReturns, WireOK
    <3> QED
      BY <1>12, <3>1 DEF runReturns, TypeOK
  <2> QED
    BY <1>12, <2>1, <2>2 DEF runReturns, TypeOK, callVars, entryVars
<1>13. CASE readLoop
  <2> DEFINE r == Head(toAgent[cur])
  <2>1. cur \in Sessions
    BY <1>13 DEF readLoop, WireOK
  <2>2. /\ Tail(toAgent[cur]) \in Seq(Requests) /\ r \in Requests
        /\ In(r, toAgent[cur])
    BY <1>13, <2>1, InTail DEF readLoop, TypeOK
  <2>3. job[r] = "none"
    BY <2>1, <2>2 DEF WireOK
  <2>4. toAgent' \in [Sessions -> Seq(Requests)]
    BY <1>13, <2>2 DEF readLoop, TypeOK
  <2>5. CASE active >= MaxConcurrent
    <3>1. Room(cur) /\ toCoord' = write(cur, Reply(r)) /\ job' = job
      BY <1>13, <2>5 DEF readLoop
    <3>2. /\ toCoord' \in [Sessions -> Seq(Messages)]
          /\ \A s \in Sessions : Len(toCoord'[s]) <= MaxWire
      BY <2>1, <2>2, <3>1, Written, MessageKinds
    <3>3. active' = Cardinality(Counted)'
      BY <1>13, <3>1, SameCounted DEF readLoop
    <3> QED
      BY <1>13, <2>4, <3>1, <3>2, <3>3 DEF readLoop, TypeOK, callVars, entryVars
  <2>6. CASE ~(active >= MaxConcurrent)
    <3>1. job' = [job EXCEPT ![r] = "spawned"] /\ toCoord' = toCoord
      BY <1>13, <2>6 DEF readLoop
    <3>2. active' = Cardinality(Counted)'
      BY <1>13, <2>2, <2>3, <3>1, SameCounted DEF readLoop, TypeOK
    <3> QED
      BY <1>13, <2>4, <3>1, <3>2 DEF readLoop, TypeOK, callVars, entryVars
  <2> QED
    BY <2>5, <2>6
<1>14. CASE heartbeatLoad
  <2>1. active' = Cardinality(Counted)'
    BY <1>14, SameCounted DEF heartbeatLoad
  <2>2. active \in 0..Cardinality(Requests)
    BY RequestSets DEF TypeOK, Counted
  <2> QED
    BY <1>14, <2>1, <2>2 DEF heartbeatLoad, TypeOK, callVars, entryVars, wireVars
<1>15. CASE heartbeatWrite
  <2>1. active' = Cardinality(Counted)'
    BY <1>15, SameCounted DEF heartbeatWrite
  <2>2. cur \in Sessions
    BY <1>15 DEF heartbeatWrite, WireOK
  <2>3. Heartbeat(beat) \in Messages
    BY <1>15, MessageKinds DEF heartbeatWrite, TypeOK
  <2>4. /\ toCoord' \in [Sessions -> Seq(Messages)]
        /\ \A s \in Sessions : Len(toCoord'[s]) <= MaxWire
    BY <1>15, <2>2, <2>3, Written DEF heartbeatWrite, TypeOK
  <2> QED
    BY <1>15, <2>1, <2>4 DEF heartbeatWrite, TypeOK, callVars, entryVars
<1>16. CASE Break
  BY <1>16, SameCounted DEF Break, TypeOK, callVars, entryVars, agentVars
<1>17. CASE UNCHANGED vars
  BY <1>17, SameCounted DEF vars, TypeOK, callVars, entryVars, wireVars, agentVars
<1> QED
  BY <1>1, <1>2, <1>3, <1>4, <1>5, <1>6, <1>7, <1>8, <1>9, <1>10, <1>11, <1>12, <1>13, <1>14, <1>15, <1>16, <1>17
  DEF Next, CallStep, HandlerStep, JobStep, HeartbeatLoop, Stopped

\* Send queues a request that is nowhere else yet.
LEMMA WireSend ==
    ASSUME TypeOK, WireOK, NEW r \in Requests, Send(r)
    PROVE  WireOK'
<1> DEFINE s == on[r]
<1>1. call[r] = "send" /\ s \in Sessions
  BY DEF Send, WireOK
<1>2. /\ job[r] = "none"
      /\ \A t \in Sessions : ~In(r, toAgent[t]) /\ ~In(Reply(r), toCoord[t])
  BY <1>1 DEF WireOK
<1>3. UNCHANGED <<on, serving, cur, running, toCoord, job>>
  BY DEF Send, entryVars, agentVars
<1>4. /\ \A q \in Requests : q # r => call'[q] = call[q]
      /\ call'[r] \in {"wait", "release"}
  BY DEF Send, TypeOK
<1>5. CASE s \notin open
  <2>1. toAgent' = toAgent
    BY <1>5 DEF Send
  <2> QED
    BY <1>1, <1>3, <1>4, <2>1 DEF WireOK
<1>6. CASE s \in open
  <2>1. toAgent' = [toAgent EXCEPT ![s] = Append(@, r)]
    BY <1>6 DEF Send
  <2>2. /\ \A t \in Sessions : t # s => toAgent'[t] = toAgent[t]
        /\ toAgent'[s] = Append(toAgent[s], r)
    BY <1>1, <2>1 DEF TypeOK
  <2>3. /\ \A x : In(x, Append(toAgent[s], r)) <=> In(x, toAgent[s]) \/ x = r
        /\ Distinct(toAgent[s]) /\ ~In(r, toAgent[s]) => Distinct(Append(toAgent[s], r))
    BY <1>1, InAppend DEF TypeOK
  <2>4. \A t \in Sessions : Distinct(toAgent'[t])
    BY <1>1, <1>2, <2>2, <2>3 DEF WireOK
  <2>5. ASSUME NEW q \in Requests, NEW t \in Sessions, In(q, toAgent'[t])
        PROVE  In(q, toAgent[t]) \/ (q = r /\ t = s)
    BY <2>2, <2>3, <2>5
  <2> HIDE DEF s
  <2>6. ASSUME NEW q \in Requests, NEW t \in Sessions, In(q, toAgent'[t])
        PROVE  /\ on[q] = t /\ call'[q] \notin {"idle", "send"} /\ job[q] = "none"
               /\ \A u \in Sessions : ~In(Reply(q), toCoord[u])
    <3>1. CASE In(q, toAgent[t])
      BY <1>4, <3>1 DEF WireOK
    <3>2. CASE q = r /\ t = s
      BY <1>2, <1>4, <3>2 DEF s
    <3> QED
      BY <2>5, <2>6, <3>1, <3>2
  <2> QED
    BY <1>1, <1>3, <1>4, <2>4, <2>6 DEF WireOK
<1> QED
  BY <1>5, <1>6

\* An answer of request r is put on the wire of its session when the request is
\* no longer queued and its goroutine, if any, has finished its work.
LEMMA WireAnswer ==
    ASSUME TypeOK, WireOK, NEW r \in Requests, call[r] \notin {"idle", "send"},
           Room(on[r]), toCoord' = write(on[r], Reply(r)),
           UNCHANGED <<call, on, serving, cur, running>>,
           \A q \in Requests : q # r => job'[q] = job[q],
           job'[r] \in {"none", "replied"}, job[r] = "none" => job'[r] = "none",
           \A s \in Sessions : Distinct(toAgent'[s]) /\ ~In(r, toAgent'[s]),
           \A s \in Sessions : \A x : In(x, toAgent'[s]) => In(x, toAgent[s])
    PROVE  WireOK'
<1>1. on[r] \in Sessions
  BY DEF WireOK
<1>2. \A t \in Sessions : \A x :
         In(x, toCoord'[t]) => In(x, toCoord[t]) \/ (t = on[r] /\ x = Reply(r))
  <2>1. Reply(r) \in Messages
    BY MessageKinds
  <2>2. \A t \in Sessions : \A x : In(x, write(on[r], Reply(r))[t])
                                  => In(x, toCoord[t]) \/ (t = on[r] /\ x = Reply(r))
    BY <1>1, <2>1, Written
  <2> QED
    BY <2>2
<1>3. \A q \in Requests : Reply(q) = Reply(r) => q = r
  BY MessageKinds
<1>4. ASSUME NEW q \in Requests, NEW t \in Sessions, In(Reply(q), toCoord'[t])
      PROVE  /\ on[q] = t /\ call[q] \notin {"idle", "send"}
             /\ job'[q] \in {"none", "replied", "ended"}
  <2>1. CASE q = r
    BY <1>2, <1>4, <2>1 DEF WireOK
  <2>2. CASE q # r
    BY <1>2, <1>3, <1>4, <2>2 DEF WireOK
  <2> QED
    BY <2>1, <2>2
<1>5. ASSUME NEW q \in Requests, NEW t \in Sessions, In(q, toAgent'[t])
      PROVE  /\ on[q] = t /\ call[q] \notin {"idle", "send"} /\ job'[q] = "none"
             /\ \A u \in Sessions : ~In(Reply(q), toCoord'[u])
  <2>1. q # r
    BY <1>5
  <2>2. /\ on[q] = t /\ call[q] \notin {"idle", "send"} /\ job'[q] = "none"
    BY <1>5, <2>1 DEF WireOK
  <2>3. \A u \in Sessions : ~In(Reply(q), toCoord'[u])
    BY <1>2, <1>3, <1>5, <2>1 DEF WireOK
  <2> QED
    BY <2>2, <2>3
<1>6. \A q \in Requests : job'[q] # "none" => call[q] \notin {"idle", "send"}
  BY DEF WireOK
<1> QED
  BY <1>4, <1>5, <1>6 DEF WireOK

\* The agent's read loop takes a request off the wire and refuses it or starts
\* its goroutine.
LEMMA WireRead ==
    ASSUME TypeOK, WireOK, readLoop
    PROVE  WireOK'
<1> DEFINE r == Head(toAgent[cur])
<1>1. cur \in Sessions
  BY DEF readLoop, WireOK
<1>2. /\ r \in Requests /\ In(r, toAgent[cur])
      /\ \A x : In(x, Tail(toAgent[cur])) => In(x, toAgent[cur])
      /\ Distinct(Tail(toAgent[cur])) /\ ~In(r, Tail(toAgent[cur]))
  BY <1>1, InTail DEF readLoop, TypeOK, WireOK
<1>3. /\ toAgent'[cur] = Tail(toAgent[cur])
      /\ \A t \in Sessions : t # cur => toAgent'[t] = toAgent[t]
  BY <1>1 DEF readLoop, TypeOK
<1>4. /\ on[r] = cur /\ call[r] \notin {"idle", "send"} /\ job[r] = "none"
      /\ \A t \in Sessions : ~In(Reply(r), toCoord[t])
  BY <1>1, <1>2 DEF WireOK
<1>5. /\ \A t \in Sessions : Distinct(toAgent'[t]) /\ ~In(r, toAgent'[t])
      /\ \A t \in Sessions : \A x : In(x, toAgent'[t]) => In(x, toAgent[t])
  BY <1>2, <1>3, <1>4 DEF WireOK
<1>6. UNCHANGED <<call, on, serving, cur, running>>
  BY DEF readLoop, callVars, entryVars
<1>7. CASE active >= MaxConcurrent
  <2>1. Room(cur) /\ toCoord' = write(cur, Reply(r)) /\ job' = job
    BY <1>7 DEF readLoop
  <2> HIDE DEF r
  <2> QED
    BY <1>2, <1>4, <1>5, <1>6, <2>1, WireAnswer
<1>8. CASE ~(active >= MaxConcurrent)
  <2>1. job' = [job EXCEPT ![r] = "spawned"] /\ toCoord' = toCoord
    BY <1>8 DEF readLoop
  <2> HIDE DEF r
  <2>2. job'[r] = "spawned" /\ \A q \in Requests : q # r => job'[q] = job[q]
    BY <1>2, <2>1 DEF TypeOK
  <2> QED
    BY <1>2, <1>4, <1>5, <1>6, <2>1, <2>2 DEF WireOK
<1> QED
  BY <1>7, <1>8

\* Every step keeps each request in one place, and its answer on its session.
LEMMA AgentWire ==
    ASSUME TypeOK, WireOK, [Next]_vars
    PROVE  WireOK'
<1>1. ASSUME NEW r \in Requests, Reserve(r) PROVE WireOK'
  <2>1. reg \in Sessions /\ call[r] = "idle"
    BY <1>1, NodeAgentAssumption DEF Reserve, TypeOK, Sessions
  <2>2. /\ UNCHANGED <<serving, cur, running, toAgent, toCoord, job>>
        /\ call'[r] = "send" /\ on'[r] = reg
        /\ \A q \in Requests : q # r => call'[q] = call[q] /\ on'[q] = on[q]
    BY <1>1 DEF Reserve, wireVars, agentVars, TypeOK
  <2> QED
    BY <2>1, <2>2 DEF WireOK
<1>2. ASSUME NEW r \in Requests, Send(r) PROVE WireOK'
  BY <1>2, WireSend
<1>3. ASSUME NEW r \in Requests, TimeOut(r) \/ release(r) PROVE WireOK'
  <2>1. /\ UNCHANGED <<on, serving, cur, running, toAgent, toCoord, job>>
        /\ \A q \in Requests : call'[q] = call[q] \/ (call[q] \in {"wait", "release"}
                                                     /\ call'[q] \in {"release", "done"})
    BY <1>3 DEF TimeOut, release, entryVars, wireVars, agentVars, TypeOK
  <2> QED
    BY <2>1 DEF WireOK
<1>4. ASSUME NEW r \in Requests, JobStarts(r) \/ JobEnds(r) PROVE WireOK'
  <2>1. /\ UNCHANGED <<call, on, serving, cur, running, toAgent, toCoord>>
        /\ \A q \in Requests : q # r => job'[q] = job[q]
        /\ \/ job[r] = "spawned" /\ job'[r] = "running"
           \/ job[r] = "replied" /\ job'[r] = "ended"
    BY <1>4 DEF JobStarts, JobEnds, callVars, entryVars, wireVars, TypeOK
  <2> QED
    BY <2>1 DEF WireOK
<1>5. ASSUME NEW r \in Requests, JobReplies(r) PROVE WireOK'
  <2>1. /\ UNCHANGED <<call, on, serving, cur, running, toAgent>>
        /\ \A q \in Requests : q # r => job'[q] = job[q]
        /\ job[r] = "running" /\ job'[r] = "replied"
        /\ Room(on[r]) /\ toCoord' = write(on[r], Reply(r))
    BY <1>5 DEF JobReplies, callVars, entryVars, TypeOK
  <2>2. /\ call[r] \notin {"idle", "send"}
        /\ \A s \in Sessions : Distinct(toAgent'[s]) /\ ~In(r, toAgent'[s])
    BY <2>1 DEF WireOK
  <2> QED
    BY <2>1, <2>2, WireAnswer
<1>6. ASSUME NEW s \in Sessions, HandleHeartbeat(s) \/ HandleReply(s) \/ HandlerExits(s)
      PROVE  WireOK'
  <2>1. /\ UNCHANGED <<on, cur, running, toAgent, job>>
        /\ serving' \subseteq serving
        /\ \A q \in Requests : call'[q] = call[q] \/ (call[q] = "wait" /\ call'[q] = "release")
    BY <1>6
    DEF HandleHeartbeat, HandleReply, HandlerExits, Woken, callVars, entryVars,
        agentVars, TypeOK
  <2>2. \/ toCoord' = [toCoord EXCEPT ![s] = Tail(@)] /\ toCoord[s] # <<>>
        \/ toCoord' = [toCoord EXCEPT ![s] = <<>>]
    BY <1>6 DEF HandleHeartbeat, HandleReply, HandlerExits
  <2>3. \A t \in Sessions : \A x : In(x, toCoord'[t]) => In(x, toCoord[t])
    <3>1. CASE toCoord' = [toCoord EXCEPT ![s] = Tail(@)] /\ toCoord[s] # <<>>
      <4>1. \A x : In(x, Tail(toCoord[s])) => In(x, toCoord[s])
        BY <3>1, InTail DEF TypeOK
      <4> QED
        BY <3>1, <4>1 DEF TypeOK
    <3>2. CASE toCoord' = [toCoord EXCEPT ![s] = <<>>]
      BY <3>2, InEmpty DEF TypeOK
    <3> QED
      BY <2>2, <3>1, <3>2
  <2> QED
    BY <2>1, <2>3 DEF WireOK
<1>7. CASE run
  <2>1. /\ UNCHANGED <<call, on, toAgent, toCoord, job>>
        /\ cur' = cur + 1 /\ cur' \in Sessions /\ serving' = serving \cup {cur'}
    BY <1>7, NodeAgentAssumption DEF run, callVars, TypeOK, Sessions
  <2>2. serving' \subseteq 1..cur'
    BY <2>1 DEF WireOK, Sessions, TypeOK
  <2> QED
    BY <2>1, <2>2 DEF WireOK
<1>8. CASE runReturns
  <2>1. /\ UNCHANGED <<call, on, serving, cur, toCoord, job>>
        /\ running' = FALSE /\ cur \in Sessions
        /\ toAgent' = [toAgent EXCEPT ![cur] = <<>>]
    BY <1>8 DEF runReturns, callVars, entryVars, WireOK
  <2>2. \A t \in Sessions : toAgent'[t] = toAgent[t] \/ toAgent'[t] = <<>>
    BY <2>1 DEF TypeOK
  <2>3. \A t \in Sessions : \A x : In(x, toAgent'[t]) => In(x, toAgent[t])
    BY <2>2, InEmpty
  <2>4. \A t \in Sessions : Distinct(toAgent'[t])
    BY <2>2, InEmpty DEF WireOK
  <2> QED
    BY <2>1, <2>3, <2>4 DEF WireOK
<1>9. CASE readLoop
  BY <1>9, WireRead
<1>10. CASE heartbeatWrite
  <2>1. /\ UNCHANGED <<call, on, serving, cur, running, toAgent, job>>
        /\ Room(cur) /\ toCoord' = write(cur, Heartbeat(beat))
        /\ cur \in Sessions
    BY <1>10 DEF heartbeatWrite, callVars, entryVars, WireOK
  <2>2. Heartbeat(beat) \in Messages /\ Heartbeat(beat).type = "heartbeat"
    BY <1>10, MessageKinds DEF heartbeatWrite, TypeOK
  <2>3. \A t \in Sessions, q \in Requests : In(Reply(q), toCoord'[t]) => In(Reply(q), toCoord[t])
    <3>1. \A t \in Sessions : \A x : In(x, write(cur, Heartbeat(beat))[t])
                                   => In(x, toCoord[t]) \/ (t = cur /\ x = Heartbeat(beat))
      BY <2>1, <2>2, Written
    <3>2. \A q \in Requests : Reply(q) # Heartbeat(beat)
      BY <2>2, MessageKinds
    <3> QED
      BY <2>1, <3>1, <3>2
  <2> QED
    BY <2>1, <2>3 DEF WireOK
<1>11. CASE heartbeatLoad \/ Break \/ UNCHANGED vars
  <2>1. UNCHANGED <<call, on, serving, cur, running, toAgent, toCoord, job>>
    BY <1>11
    DEF heartbeatLoad, Break, vars, callVars, entryVars, wireVars, agentVars
  <2> QED
    BY <2>1 DEF WireOK
<1> QED
  BY <1>1, <1>2, <1>3, <1>4, <1>5, <1>6, <1>7, <1>8, <1>9, <1>10, <1>11
  DEF Next, CallStep, HandlerStep, JobStep, HeartbeatLoop, Stopped

\* A step that moves no call, queues nothing and starts no goroutine keeps the
\* counts.
LEMMA CountKept ==
    ASSUME TypeOK, CountOK, UNCHANGED <<call, slots, reg, cur, drift>>,
           \A r \in Requests : job'[r] \in {"spawned", "running"} =>
              \/ job[r] \in {"spawned", "running"}
              \/ \E s \in Sessions : In(r, toAgent[s]),
           \A s \in Sessions : \A x : In(x, toAgent'[s]) => In(x, toAgent[s])
    PROVE  CountOK'
<1>1. Held' = Held
  BY DEF Held
<1>2. ~drift => \A r \in Requests :
         \/ \E s \in Sessions : In(r, toAgent'[s])
         \/ job'[r] \in {"spawned", "running"}
         => call[r] = "wait"
  BY DEF CountOK
<1> QED
  BY <1>1, <1>2 DEF CountOK

\* Every step keeps Active equal to the number of calls as long as nothing makes
\* them differ: Reserve and release change both, HandleReply ends a wait only
\* when the goroutine has answered.
LEMMA AgentCount ==
    ASSUME TypeOK, WireOK, CountOK, [Next]_vars
    PROVE  CountOK'
<1>1. ASSUME NEW r \in Requests, Reserve(r) PROVE CountOK'
  <2>1. /\ UNCHANGED <<reg, cur, toAgent, job, drift>>
        /\ call[r] = "idle" /\ call'[r] = "send"
        /\ \A q \in Requests : q # r => call'[q] = call[q]
        /\ slots' = slots + 1 /\ slots < MaxConcurrent /\ reg # 0
    BY <1>1 DEF Reserve, wireVars, agentVars, TypeOK
  <2>2. Held' = Held \cup {r} /\ r \notin Held /\ Held \in SUBSET Requests
    BY <2>1 DEF Held
  <2>3. Cardinality(Held') = Cardinality(Held) + 1
    BY <2>2, RequestSets, FS_AddElement
  <2>4. job[r] = "none" /\ \A s \in Sessions : ~In(r, toAgent[s])
    BY <2>1 DEF WireOK
  <2>5. ~drift => slots' = Cardinality(Held') /\ slots' <= MaxConcurrent /\ cur # 0
    BY <2>1, <2>3, NodeAgentAssumption DEF CountOK, TypeOK
  <2> QED
    BY <2>1, <2>4, <2>5 DEF CountOK
<1>2. ASSUME NEW r \in Requests, Send(r) PROVE CountOK'
  <2>1. /\ UNCHANGED <<slots, reg, cur, job, drift>>
        /\ call[r] = "send"
        /\ \A q \in Requests : q # r => call'[q] = call[q]
        /\ \/ call'[r] = "wait"
           \/ call'[r] = "release" /\ toAgent' = toAgent
    BY <1>2 DEF Send, entryVars, agentVars, TypeOK
  <2>2. Held' = Held
    BY <2>1 DEF Held
  <2>3. job[r] = "none" /\ \A s \in Sessions : ~In(r, toAgent[s])
    BY <2>1 DEF WireOK
  <2>4. \A q \in Requests, s \in Sessions : q # r /\ In(q, toAgent'[s]) => In(q, toAgent[s])
    <3>1. on[r] \in Sessions
      BY <2>1 DEF WireOK
    <3>2. \A x : In(x, Append(toAgent[on[r]], r)) <=> In(x, toAgent[on[r]]) \/ x = r
      BY <3>1, InAppend DEF TypeOK
    <3>3. toAgent' = toAgent \/ toAgent' = [toAgent EXCEPT ![on[r]] = Append(@, r)]
      BY <1>2 DEF Send
    <3> QED
      BY <3>1, <3>2, <3>3 DEF TypeOK
  <2>5. ~drift => cur # 0
    BY <2>1 DEF CountOK
  <2>6. ASSUME ~drift, NEW q \in Requests,
               \/ \E s \in Sessions : In(q, toAgent'[s])
               \/ job[q] \in {"spawned", "running"}
        PROVE  call'[q] = "wait"
    <3>1. CASE q = r
      BY <2>1, <2>3, <2>6, <3>1
    <3>2. CASE q # r
      BY <2>1, <2>4, <2>6, <3>2 DEF CountOK
    <3> QED
      BY <3>1, <3>2
  <2> QED
    BY <2>1, <2>2, <2>5, <2>6 DEF CountOK
<1>3. ASSUME NEW r \in Requests, TimeOut(r) PROVE CountOK'
  <2>1. drift' = TRUE /\ cur' = cur /\ call[r] = "wait"
    BY <1>3 DEF TimeOut, agentVars
  <2>2. cur > 0
    BY <2>1 DEF CountOK, TypeOK
  <2> QED
    BY <2>1, <2>2 DEF CountOK
<1>4. ASSUME NEW r \in Requests, release(r) PROVE CountOK'
  <2>1. /\ UNCHANGED <<reg, cur, toAgent, job, drift>>
        /\ call[r] = "release" /\ call'[r] = "done"
        /\ \A q \in Requests : q # r => call'[q] = call[q]
        /\ slots' = IF reg # 0 /\ slots > 0 THEN slots - 1 ELSE slots
    BY <1>4 DEF release, wireVars, agentVars, TypeOK
  <2>2. Held' = Held \ {r} /\ r \in Held /\ Held \in SUBSET Requests
    BY <2>1 DEF Held
  <2>3. /\ Cardinality(Held') = Cardinality(Held) - 1
        /\ Cardinality(Held) \in Nat /\ Cardinality(Held') \in Nat
    BY <2>2, RequestSets, FS_RemoveElement
  <2>4. ~drift => cur # 0 /\ reg # 0
    BY <2>1 DEF CountOK
  <2>5. ~drift => slots' = Cardinality(Held') /\ slots' <= MaxConcurrent
    BY <2>1, <2>3, <2>4, NodeAgentAssumption DEF CountOK, TypeOK
  <2>6. ~drift => job[r] \notin {"spawned", "running"} /\ \A s \in Sessions : ~In(r, toAgent[s])
    BY <2>1 DEF CountOK
  <2> QED
    BY <2>1, <2>4, <2>5, <2>6 DEF CountOK
<1>5. ASSUME NEW r \in Requests, JobStep(r) PROVE CountOK'
  <2>1. /\ UNCHANGED <<call, slots, reg, cur, drift, toAgent>>
        /\ \A q \in Requests : job'[q] \in {"spawned", "running"} =>
              job[q] \in {"spawned", "running"}
    BY <1>5
    DEF JobStep, JobStarts, JobReplies, JobEnds, callVars, entryVars, wireVars, TypeOK
  <2> QED
    BY <2>1, CountKept
<1>6. ASSUME NEW s \in Sessions, HandleHeartbeat(s) \/ HandlerExits(s)
      PROVE  CountOK'
  <2>1. drift' = TRUE /\ cur' = cur /\ s \in serving
    BY <1>6 DEF HandleHeartbeat, HandlerExits, agentVars
  <2>2. cur > 0
    BY <2>1 DEF WireOK, TypeOK
  <2> QED
    BY <2>1, <2>2 DEF CountOK
<1>7. ASSUME NEW s \in Sessions, HandleReply(s) PROVE CountOK'
  <2> DEFINE r == Head(toCoord[s]).to
  <2>1. /\ UNCHANGED <<slots, reg, cur, toAgent, job, drift>>
        /\ call' = call \/ (call[r] = "wait" /\ call' = [call EXCEPT ![r] = "release"])
    BY <1>7 DEF HandleReply, entryVars, agentVars
  <2>2. Head(toCoord[s]) \in Messages /\ In(Head(toCoord[s]), toCoord[s])
    BY <1>7, InTail DEF HandleReply, TypeOK
  <2>3. r \in Requests /\ Head(toCoord[s]) = Reply(r)
    BY <1>7, <2>2, MessageKinds DEF HandleReply
  <2>4. In(Reply(r), toCoord[s])
    BY <2>2, <2>3
  <2> HIDE DEF r
  <2>5. job[r] \notin {"spawned", "running"} /\ \A t \in Sessions : ~In(r, toAgent[t])
    BY <2>3, <2>4 DEF WireOK
  <2>6. CASE call' = call
    BY <2>1, <2>6, CountKept
  <2>7. CASE call[r] = "wait" /\ call' = [call EXCEPT ![r] = "release"]
    <3>1. call'[r] = "release" /\ \A q \in Requests : q # r => call'[q] = call[q]
      BY <2>3, <2>7 DEF TypeOK
    <3>2. Held' = Held
      BY <2>7, <3>1 DEF Held
    <3>3. ~drift => cur # 0
      BY <2>3, <2>7 DEF CountOK
    <3>4. ASSUME ~drift, NEW q \in Requests,
                 \/ \E t \in Sessions : In(q, toAgent[t])
                 \/ job[q] \in {"spawned", "running"}
          PROVE  call'[q] = "wait"
      BY <2>5, <3>1, <3>4 DEF CountOK
    <3> QED
      BY <2>1, <3>2, <3>3, <3>4 DEF CountOK
  <2> QED
    BY <2>1, <2>6, <2>7
<1>8. CASE run
  <2>1. /\ UNCHANGED <<call, toAgent, job>> /\ slots' = 0 /\ reg' = cur'
        /\ cur' = cur + 1 /\ drift' = (cur > 0)
    BY <1>8 DEF run, callVars
  <2>2. cur \in Nat
    BY NodeAgentAssumption DEF TypeOK
  <2>3. CASE cur > 0
    <3>1. drift'
      BY <2>1, <2>3
    <3> QED
      BY <2>1, <2>2, <2>3, <3>1 DEF CountOK
  <2>4. CASE cur = 0
    <3>1. ~drift /\ \A r \in Requests : call[r] = "idle"
      BY <2>4 DEF CountOK
    <3>2. Held' = {}
      BY <2>1, <3>1 DEF Held
    <3>3. \A r \in Requests : job[r] = "none" /\ \A s \in Sessions : ~In(r, toAgent[s])
      BY <3>1 DEF WireOK
    <3>4. Cardinality(Held') = 0
      BY <3>2, FS_EmptySet
    <3> QED
      BY <2>1, <2>4, <3>3, <3>4, NodeAgentAssumption DEF CountOK
  <2> QED
    BY <2>2, <2>3, <2>4
<1>9. CASE runReturns
  <2>1. /\ UNCHANGED <<call, slots, reg, cur, drift, job>> /\ cur \in Sessions
        /\ toAgent' = [toAgent EXCEPT ![cur] = <<>>]
    BY <1>9 DEF runReturns, callVars, entryVars, WireOK
  <2>2. \A t \in Sessions : toAgent'[t] = toAgent[t] \/ toAgent'[t] = <<>>
    BY <2>1 DEF TypeOK
  <2>3. \A t \in Sessions : \A x : In(x, toAgent'[t]) => In(x, toAgent[t])
    BY <2>2, InEmpty
  <2> QED
    BY <2>1, <2>3, CountKept
<1>10. CASE readLoop
  <2> DEFINE r == Head(toAgent[cur])
  <2>1. /\ UNCHANGED <<call, slots, reg, cur, drift>> /\ cur \in Sessions
        /\ toAgent' = [toAgent EXCEPT ![cur] = Tail(@)]
        /\ job' = job \/ job' = [job EXCEPT ![r] = "spawned"]
    BY <1>10 DEF readLoop, callVars, entryVars, WireOK
  <2>2. /\ r \in Requests /\ In(r, toAgent[cur])
        /\ \A x : In(x, Tail(toAgent[cur])) => In(x, toAgent[cur])
    BY <1>10, <2>1, InTail DEF readLoop, TypeOK
  <2> HIDE DEF r
  <2>3. \A t \in Sessions : \A x : In(x, toAgent'[t]) => In(x, toAgent[t])
    BY <2>1, <2>2 DEF TypeOK
  <2>4. \A q \in Requests : job'[q] \in {"spawned", "running"} =>
           job[q] \in {"spawned", "running"} \/ \E s \in Sessions : In(q, toAgent[s])
    BY <2>1, <2>2 DEF TypeOK
  <2> QED
    BY <2>1, <2>3, <2>4, CountKept
<1>11. CASE HeartbeatLoop \/ Break \/ UNCHANGED vars
  <2>1. UNCHANGED <<call, slots, reg, cur, drift, toAgent, job>>
    BY <1>11
    DEF HeartbeatLoop, heartbeatLoad, heartbeatWrite, Break, vars, callVars,
        entryVars, wireVars, agentVars
  <2> QED
    BY <2>1, CountKept
<1> QED
  BY <1>1, <1>2, <1>3, <1>4, <1>5, <1>6, <1>7, <1>8, <1>9, <1>10, <1>11
  DEF Next, CallStep, HandlerStep, Stopped

-----------------------------------------------------------------------------
(* Results.                                                                *)

\* For any number of requests, slots and reconnections, every request is in one
\* place, agent.active counts the agent's goroutines, and the registry's Active
\* counts the calls until something makes them differ.
THEOREM AgentInvariant == Spec => []AgentInv
<1>1. Init => AgentInv
  <2> SUFFICES ASSUME Init PROVE AgentInv
    OBVIOUS
  <2>1. Counted = {} /\ Held = {}
    BY DEF Init, Counted, Held
  <2>2. Cardinality(Counted) = 0 /\ Cardinality(Held) = 0
    BY <2>1, FS_EmptySet
  <2>3. /\ toAgent \in [Sessions -> Seq(Requests)]
        /\ toCoord \in [Sessions -> Seq(Messages)]
        /\ \A s \in Sessions : Len(toCoord[s]) <= MaxWire
        /\ \A s \in Sessions : toAgent[s] = <<>> /\ toCoord[s] = <<>>
    BY NodeAgentAssumption DEF Init
  <2>4. TypeOK
    <3>1. /\ call \in [Requests -> {"idle"}] /\ job \in [Requests -> {"none"}]
          /\ on \in [Requests -> 0..MaxSessions]
      BY NodeAgentAssumption DEF Init
    <3>2. /\ slots \in Nat /\ reg \in 0..MaxSessions /\ cur \in 0..MaxSessions
          /\ serving = {} /\ open = {} /\ running = FALSE /\ drift = FALSE
          /\ active = 0 /\ beat = NoBeat
      BY NodeAgentAssumption DEF Init
    <3> QED
      BY <2>2, <2>3, <3>1, <3>2 DEF TypeOK
  <2>5. WireOK
    BY <2>3, InEmpty DEF Init, WireOK
  <2>6. CountOK
    BY <2>2, <2>3, InEmpty, NodeAgentAssumption DEF Init, CountOK
  <2> QED
    BY <2>4, <2>5, <2>6 DEF AgentInv
<1>2. AgentInv /\ [Next]_vars => AgentInv'
  BY AgentType, AgentWire, AgentCount DEF AgentInv
<1> QED
  BY <1>1, <1>2, PTL DEF Spec

\* Until a heartbeat is applied, a request times out or the agent reconnects,
\* the coordinator's count alone keeps the node within max_concurrent, the
\* goroutines that the agent has not counted yet included.
THEOREM LimitIsKept == Spec => []CoordinatorKeepsLimit
<1>1. AgentInv => CoordinatorKeepsLimit
  <2> SUFFICES ASSUME AgentInv, ~drift PROVE Cardinality(Working) <= MaxConcurrent
    BY DEF CoordinatorKeepsLimit
  <2>1. Working \subseteq Held
    BY DEF AgentInv, CountOK, Working, Held
  <2>2. Held \in SUBSET Requests /\ Working \in SUBSET Requests
    BY DEF Held, Working
  <2>3. /\ IsFiniteSet(Held) /\ Cardinality(Held) \in Nat /\ Cardinality(Working) \in Nat
    BY <2>2, RequestSets
  <2>4. Cardinality(Working) <= Cardinality(Held)
    BY <2>1, <2>3, FS_Subset
  <2> QED
    BY <2>3, <2>4, NodeAgentAssumption DEF AgentInv, CountOK
<1> QED
  BY <1>1, AgentInvariant, PTL

\* An answer travels on the session its request was sent on, whatever the agent
\* has reconnected to meanwhile.
THEOREM AnswersStayOnTheirSession == Spec => []AnswersOnOwnSession
<1>1. AgentInv => AnswersOnOwnSession
  <2> SUFFICES ASSUME AgentInv, NEW s \in Sessions, NEW i \in 1..Len(toCoord[s]),
                      toCoord[s][i].type = "reply"
               PROVE  on[toCoord[s][i].to] = s
    BY DEF AnswersOnOwnSession
  <2>1. toCoord[s][i] \in Messages
    BY DEF AgentInv, TypeOK
  <2>2. toCoord[s][i].to \in Requests /\ toCoord[s][i] = Reply(toCoord[s][i].to)
    BY <2>1, MessageKinds
  <2>3. In(Reply(toCoord[s][i].to), toCoord[s])
    BY <2>2 DEF In
  <2> QED
    BY <2>2, <2>3 DEF AgentInv, WireOK
<1> QED
  BY <1>1, AgentInvariant, PTL

=============================================================================
