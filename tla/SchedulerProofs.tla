-------------------------- MODULE SchedulerProofs --------------------------
(***************************************************************************)
(* Proofs about Scheduler, for any nodes, sessions, requests, tiers and    *)
(* slots.  What is hard is that dispatch and the session handlers work on  *)
(* node IDs: between two steps of a dispatch the ID may have come to name  *)
(* another session's registration, or none.                                *)
(***************************************************************************)
EXTENDS Scheduler, FiniteSetTheorems, TLAPS

-----------------------------------------------------------------------------
(* The inductive invariant.                                                *)

\* What a client has been sent so far, and by whom.
AnswerOK(r) ==
    /\ outs[r] \subseteq {at[r]}
    /\ pc[r] \in {"idle", "pick"} => outs[r] = {}
    /\ pc[r] \in InAttempt /\ ~sent[r] => outs[r] = {}

\* Every attempt but the current one is accounted for by a node in tried.
TriesOK(r) ==
    /\ attempts[r] <= Cardinality(Nodes)
    /\ pc[r] \in {"idle", "pick"} => attempts[r] <= Cardinality(tried[r])
    /\ pc[r] \in InAttempt =>
          /\ NodeOf[at[r]] \notin tried[r]
          /\ attempts[r] <= Cardinality(tried[r]) + 1

\* The session of an attempt was chosen for the tier and the target, and the
\* target is only set before there is one.
ChosenOK(r) ==
    /\ at[r] # NoSession =>
          /\ TierOf[r] \in TiersOf[at[r]]
          /\ target[r] \in {AnyProvider, ProviderOf[NodeOf[at[r]]]}
    /\ pc[r] = "idle" => at[r] = NoSession

DispatchOK == \A r \in Requests : AnswerOK(r) /\ TriesOK(r) /\ ChosenOK(r)

\* Where a handler stands that has not removed its node yet.
Serving == {"up", "down", "removing"}

\* A registration belongs to a session whose handler still runs, so that the
\* handler will remove it before it closes the connection; a handler that waits
\* in Remove does so for its own node.
RegistrationOK ==
    /\ \A n \in Nodes : Registered(n) =>
          /\ nodes[n].conn \notin shut /\ NodeOf[nodes[n].conn] = n
          /\ sess[nodes[n].conn] \in Serving
    /\ \A s \in Sessions : s \in shut => sess[s] # "off"
    /\ \A s \in Sessions : sess[s] = "removing" => NodeOf[s] \in removing

SchedulerInv == TypeOK /\ DispatchOK /\ RegistrationOK /\ SlotsNotLeaked

-----------------------------------------------------------------------------
(* Node records.                                                           *)

\* The registry after some node's record was changed but not its session.
SameSessions ==
    /\ nodes' \in [Nodes -> NodeRecords \cup {NoNode}]
    /\ \A m \in Nodes :
          /\ nodes'[m] = NoNode <=> nodes[m] = NoNode
          /\ nodes'[m].conn = nodes[m].conn

\* A missing entry of the registry differs from every node.
LEMMA NoNodeIsNone == NoNode \notin NodeRecords
<1>1. NoNode.conn = "none"
  BY DEF NoNode
<1>2. \A x \in NodeRecords : x.conn \in Sessions
  BY DEF NodeRecords
<1> QED
  BY <1>1, <1>2, SchedulerAssumption

\* A new record for the same connection changes no session.
LEMMA NodeUpdated ==
    ASSUME nodes \in [Nodes -> NodeRecords \cup {NoNode}],
           NEW n \in Nodes, Registered(n), NEW x \in NodeRecords,
           x.conn = nodes[n].conn, nodes' = [nodes EXCEPT ![n] = x]
    PROVE  SameSessions
<1>1. nodes[n] # NoNode /\ x # NoNode
  BY NoNodeIsNone DEF Registered
<1> QED
  BY <1>1 DEF SameSessions

\* Nor does an unchanged registry.
LEMMA NodesUnchanged ==
    ASSUME nodes \in [Nodes -> NodeRecords \cup {NoNode}], UNCHANGED nodes
    PROVE  SameSessions
  BY DEF SameSessions

\* The slots, the heartbeat and the cooldown of a registered node.
LEMMA NodeEdits ==
    ASSUME TypeOK, NEW n \in Nodes, Registered(n)
    PROVE  /\ nodes[n] \in NodeRecords /\ nodes[n].active \in Nat
           /\ \A a \in Nat, b \in BOOLEAN :
                 LET x == [nodes[n] EXCEPT !.active = a, !.fresh = b]
                 IN  x \in NodeRecords /\ x.conn = nodes[n].conn /\ x.active = a
           /\ \A a \in Nat :
                 LET x == [nodes[n] EXCEPT !.active = a]
                 IN  x \in NodeRecords /\ x.conn = nodes[n].conn /\ x.active = a
           /\ \A b \in BOOLEAN :
                 /\ LET x == [nodes[n] EXCEPT !.fresh = b]
                    IN  /\ x \in NodeRecords /\ x.conn = nodes[n].conn
                        /\ x.active = nodes[n].active
                 /\ LET x == [nodes[n] EXCEPT !.cool = b]
                    IN  /\ x \in NodeRecords /\ x.conn = nodes[n].conn
                        /\ x.active = nodes[n].active
<1>1. nodes[n] \in NodeRecords
  BY DEF TypeOK, Registered
<1> QED
  BY <1>1 DEF NodeRecords

\* The active count of a registered node is a number.
LEMMA ActiveCounts ==
    ASSUME TypeOK, NEW n \in Nodes, Registered(n)
    PROVE  nodes[n] \in NodeRecords /\ nodes[n].active \in Nat
<1>1. nodes[n] \in NodeRecords
  BY DEF TypeOK, Registered
<1> QED
  BY <1>1 DEF NodeRecords

\* Such a change keeps registrations and sessions together.
LEMMA SameRegistrations ==
    ASSUME TypeOK, RegistrationOK, SameSessions, UNCHANGED <<sess, shut, removing>>
    PROVE  RegistrationOK'
  BY DEF RegistrationOK, SameSessions, Registered

-----------------------------------------------------------------------------
(* Slots.                                                                  *)

\* Only finitely many requests hold a slot.
LEMMA HoldersFinite ==
    ASSUME NEW n
    PROVE  IsFiniteSet(Holders(n)) /\ Cardinality(Holders(n)) \in Nat
<1>1. Holders(n) \subseteq Requests
  BY DEF Holders
<1> QED
  BY <1>1, SchedulerAssumption, FS_Subset, FS_CardinalityType

\* A step that neither takes nor gives back a slot, and counts one only where a
\* heartbeat reports it.
LEMMA SlotsKept ==
    ASSUME SlotsNotLeaked,
           \A n \in Nodes : Holders(n)' = Holders(n),
           \A n \in Nodes : nodes'[n] # NoNode =>
               \/ /\ nodes[n] # NoNode /\ nodes'[n].active = nodes[n].active
                  /\ reported'[n] = reported[n]
               \/ nodes'[n].active = reported'[n] /\ reported'[n] \in Nat
    PROVE  SlotsNotLeaked'
<1> SUFFICES ASSUME NEW n \in Nodes, nodes'[n] # NoNode
             PROVE  nodes'[n].active <= reported'[n] + Cardinality(Holders(n)')
  BY DEF SlotsNotLeaked, Registered
<1>1. CASE /\ nodes[n] # NoNode /\ nodes'[n].active = nodes[n].active
           /\ reported'[n] = reported[n]
  <2>1. nodes[n].active <= reported[n] + Cardinality(Holders(n))
    BY <1>1 DEF SlotsNotLeaked, Registered
  <2> QED
    BY <1>1, <2>1
<1>2. CASE nodes'[n].active = reported'[n] /\ reported'[n] \in Nat
  BY <1>2, HoldersFinite
<1> QED
  BY <1>1, <1>2

-----------------------------------------------------------------------------
(* The steps of sessions.                                                  *)

\* Nothing is registered at first.
LEMMA SchedulerInit == Init => SchedulerInv
<1> SUFFICES ASSUME Init PROVE SchedulerInv
  OBVIOUS
<1>1. TypeOK
  BY DEF Init, TypeOK, Locations, InAttempt, HandlerPlaces
<1>2. DispatchOK
  <2>1. Cardinality({}) = 0 /\ Cardinality(Nodes) \in Nat
    BY SchedulerAssumption, FS_EmptySet, FS_CardinalityType
  <2> QED
    BY <2>1 DEF Init, DispatchOK, AnswerOK, TriesOK, ChosenOK, InAttempt
<1>3. RegistrationOK /\ SlotsNotLeaked
  BY DEF Init, RegistrationOK, SlotsNotLeaked, Registered
<1> QED
  BY <1>1, <1>2, <1>3 DEF SchedulerInv

\* What a step that leaves the dispatches alone leaves of the invariant.
LEMMA DispatchesAlone ==
    ASSUME SchedulerInv, UNCHANGED dispatchVars
    PROVE  DispatchOK' /\ \A n \in Nodes : Holders(n)' = Holders(n)
<1>1. UNCHANGED <<pc, target, at, tried, attempts, sent, err, outs>>
  BY DEF dispatchVars
<1>2. DispatchOK'
  BY <1>1 DEF SchedulerInv, DispatchOK, AnswerOK, TriesOK, ChosenOK
<1>3. \A n \in Nodes : Holders(n)' = Holders(n)
  BY <1>1 DEF Holders
<1> QED
  BY <1>2, <1>3

\* A new session takes its node over.
LEMMA RegisterStep ==
    ASSUME SchedulerInv, NEW s \in Sessions, Register(s)
    PROVE  SchedulerInv'
<1> DEFINE n == NodeOf[s]
           x == [conn |-> s, active |-> 0, fresh |-> TRUE, cool |-> FALSE]
<1>1. n \in Nodes
  BY SchedulerAssumption
<1>2. x \in NodeRecords /\ x.conn = s /\ x.active = 0
  BY DEF NodeRecords
<1>3. TypeOK /\ sess[s] = "off" /\ s \notin shut
  BY DEF SchedulerInv, RegistrationOK, Register
<1>4. /\ nodes' = [nodes EXCEPT ![n] = x] /\ sess' = [sess EXCEPT ![s] = "up"]
      /\ reported' = [reported EXCEPT ![n] = 0]
      /\ UNCHANGED <<shut, full, removing, expired>> /\ UNCHANGED dispatchVars
  BY DEF Register, closeVars
<1> HIDE DEF x, n
<1>5. TypeOK'
  BY <1>1, <1>2, <1>3, <1>4 DEF TypeOK, dispatchVars, HandlerPlaces
<1>6. DispatchOK' /\ \A m \in Nodes : Holders(m)' = Holders(m)
  BY <1>4, DispatchesAlone
<1>7. RegistrationOK'
  <2>1. ASSUME NEW m \in Nodes, nodes'[m] # NoNode
        PROVE  /\ nodes'[m].conn \notin shut' /\ NodeOf[nodes'[m].conn] = m
               /\ sess'[nodes'[m].conn] \in Serving
    <3>1. CASE m = n
      BY <1>1, <1>2, <1>3, <1>4, <3>1 DEF TypeOK, n, Serving
    <3>2. CASE m # n
      <4>1. nodes'[m] = nodes[m]
        BY <1>1, <1>3, <1>4, <3>2 DEF TypeOK
      <4>2. /\ nodes[m].conn \notin shut /\ NodeOf[nodes[m].conn] = m
            /\ sess[nodes[m].conn] \in Serving
        BY <2>1, <4>1 DEF SchedulerInv, RegistrationOK, Registered
      <4>3. nodes[m].conn # s
        BY <3>2, <4>2 DEF n
      <4> QED
        BY <1>3, <1>4, <4>1, <4>2, <4>3 DEF TypeOK
    <3> QED
      BY <3>1, <3>2
  <2>2. \A u \in Sessions : /\ u \in shut' => sess'[u] # "off"
                            /\ sess'[u] = "removing" => NodeOf[u] \in removing'
    BY <1>3, <1>4 DEF SchedulerInv, RegistrationOK, TypeOK
  <2> QED
    BY <2>1, <2>2 DEF RegistrationOK, Registered
<1>8. SlotsNotLeaked'
  <2>1. ASSUME NEW m \in Nodes, nodes'[m] # NoNode
        PROVE  \/ /\ nodes[m] # NoNode /\ nodes'[m].active = nodes[m].active
                  /\ reported'[m] = reported[m]
               \/ nodes'[m].active = reported'[m] /\ reported'[m] \in Nat
    BY <1>1, <1>2, <1>3, <1>4, <2>1 DEF TypeOK
  <2> QED
    BY <1>6, <2>1, SlotsKept DEF SchedulerInv
<1> QED
  BY <1>5, <1>6, <1>7, <1>8 DEF SchedulerInv

\* Heartbeats and the passing of time change no registration.
LEMMA NodeStateSteps ==
    ASSUME SchedulerInv,
           \/ \E s \in Sessions : Heartbeat(s)
           \/ \E n \in Nodes : GoStale(n) \/ CooldownEnds(n)
    PROVE  SchedulerInv'
<1> SUFFICES ASSUME NEW n \in Nodes, Registered(n), NEW x \in NodeRecords,
                    x.conn = nodes[n].conn, nodes' = [nodes EXCEPT ![n] = x],
                    UNCHANGED <<sess, shut, full, removing, expired>>,
                    UNCHANGED dispatchVars,
                    \/ reported' = [reported EXCEPT ![n] = x.active]
                    \/ reported' = reported /\ x.active = nodes[n].active
             PROVE  SchedulerInv'
  <2>1. CASE \E s \in Sessions : Heartbeat(s)
    <3>1. PICK s \in Sessions : Heartbeat(s)
      BY <2>1
    <3> DEFINE n == NodeOf[s]
    <3>2. n \in Nodes /\ Registered(n)
      BY <3>1, SchedulerAssumption DEF Heartbeat
    <3>3. PICK a \in 0..MaxReported :
            /\ nodes' = [nodes EXCEPT ![n].active = a, ![n].fresh = TRUE]
            /\ reported' = [reported EXCEPT ![n] = a]
      BY <3>1 DEF Heartbeat
    <3> DEFINE x == [nodes[n] EXCEPT !.active = a, !.fresh = TRUE]
    <3>4. a \in Nat
      BY SchedulerAssumption
    <3>5. x \in NodeRecords /\ x.conn = nodes[n].conn /\ x.active = a
      BY <3>2, <3>4, NodeEdits DEF SchedulerInv
    <3>6. nodes' = [nodes EXCEPT ![n] = x] /\ reported' = [reported EXCEPT ![n] = x.active]
      BY <3>3, <3>5
    <3> HIDE DEF x, n
    <3>7. UNCHANGED <<sess, shut, full, removing, expired>> /\ UNCHANGED dispatchVars
      BY <3>1 DEF Heartbeat, sessionVars, closeVars, n
    <3> QED
      BY <3>2, <3>5, <3>6, <3>7
  <2>2. CASE \E n \in Nodes : GoStale(n) \/ CooldownEnds(n)
    <3>1. PICK n \in Nodes : GoStale(n) \/ CooldownEnds(n)
      BY <2>2
    <3>2. /\ Registered(n) /\ UNCHANGED <<sess, shut, full, removing, expired, reported>>
          /\ UNCHANGED dispatchVars
      BY <3>1 DEF GoStale, CooldownEnds, sessionVars, closeVars
    <3>3. CASE GoStale(n)
      <4> DEFINE x == [nodes[n] EXCEPT !.fresh = FALSE]
      <4>1. x \in NodeRecords /\ x.conn = nodes[n].conn /\ x.active = nodes[n].active
        BY <3>2, NodeEdits DEF SchedulerInv
      <4>2. nodes' = [nodes EXCEPT ![n] = x]
        BY <3>3 DEF GoStale
      <4> HIDE DEF x
      <4> QED
        BY <3>2, <4>1, <4>2
    <3>4. CASE CooldownEnds(n)
      <4> DEFINE x == [nodes[n] EXCEPT !.cool = FALSE]
      <4>1. x \in NodeRecords /\ x.conn = nodes[n].conn /\ x.active = nodes[n].active
        BY <3>2, NodeEdits DEF SchedulerInv
      <4>2. nodes' = [nodes EXCEPT ![n] = x]
        BY <3>4 DEF CooldownEnds
      <4> HIDE DEF x
      <4> QED
        BY <3>2, <4>1, <4>2
    <3> QED
      BY <3>1, <3>3, <3>4
  <2> QED
    BY <2>1, <2>2
<1>1. SameSessions
  BY NodeUpdated DEF SchedulerInv, TypeOK
<1>2. TypeOK'
  <2>1. x.active \in Nat
    BY DEF NodeRecords
  <2> QED
    BY <1>1, <2>1 DEF SchedulerInv, TypeOK, SameSessions, dispatchVars
<1>3. DispatchOK' /\ \A m \in Nodes : Holders(m)' = Holders(m)
  BY DispatchesAlone
<1>4. RegistrationOK'
  BY <1>1, SameRegistrations DEF SchedulerInv
<1>5. SlotsNotLeaked'
  <2>1. ASSUME NEW m \in Nodes, nodes'[m] # NoNode
        PROVE  \/ /\ nodes[m] # NoNode /\ nodes'[m].active = nodes[m].active
                  /\ reported'[m] = reported[m]
               \/ nodes'[m].active = reported'[m] /\ reported'[m] \in Nat
    <3>1. nodes[m] # NoNode /\ nodes'[m] = IF m = n THEN x ELSE nodes[m]
      BY <1>1, <2>1 DEF SameSessions, SchedulerInv, TypeOK
    <3>2. reported' \in [Nodes -> Nat] /\ reported \in [Nodes -> Nat]
      BY <1>2 DEF SchedulerInv, TypeOK
    <3> QED
      BY <3>1, <3>2
  <2> QED
    BY <1>3, <2>1, SlotsKept DEF SchedulerInv
<1> QED
  BY <1>2, <1>3, <1>4, <1>5 DEF SchedulerInv

\* The link of a session fails.
LEMMA DisconnectStep ==
    ASSUME SchedulerInv, NEW s \in Sessions, Disconnect(s)
    PROVE  SchedulerInv'
<1>1. /\ sess[s] = "up" /\ sess' = [sess EXCEPT ![s] = "down"]
      /\ UNCHANGED <<shut, nodes, reported, full, removing, expired>>
      /\ UNCHANGED dispatchVars
  BY DEF Disconnect, registryVars, closeVars
<1>2. TypeOK'
  BY <1>1 DEF SchedulerInv, TypeOK, dispatchVars, HandlerPlaces
<1>3. DispatchOK' /\ \A n \in Nodes : Holders(n)' = Holders(n)
  BY <1>1, DispatchesAlone
<1>4. RegistrationOK'
  BY <1>1 DEF SchedulerInv, TypeOK, RegistrationOK, Registered, Serving
<1>5. SlotsNotLeaked'
  BY <1>1, <1>3, SlotsKept DEF SchedulerInv
<1> QED
  BY <1>2, <1>3, <1>4, <1>5 DEF SchedulerInv

\* Closing sessions is safe when those of the nodes that stay registered are
\* left alone, and no handler waits in Remove any more when the registry is free.
LEMMA ClosingKeeps ==
    ASSUME SchedulerInv, NEW S \in SUBSET Sessions, NEW N \in SUBSET Nodes,
           NEW h \in [Sessions -> HandlerPlaces], CloseSessions(S, h),
           nodes' = [n \in Nodes |-> IF n \in N THEN NoNode ELSE nodes[n]],
           UNCHANGED <<reported, full, expired>>, UNCHANGED dispatchVars,
           removing' \in SUBSET Nodes,
           \A n \in Nodes \ N : Registered(n) =>
               nodes[n].conn \notin S /\ h[nodes[n].conn] = sess[nodes[n].conn],
           \A s \in Sessions : h[s] = "off" => sess[s] = "off" /\ s \notin S,
           \A s \in Sessions : h[s] = "removing" => NodeOf[s] \in removing'
    PROVE  SchedulerInv'
<1>1. /\ shut' = shut \cup S
      /\ sess' = [s \in Sessions |->
                     IF s \in S /\ h[s] = "up" THEN "down" ELSE h[s]]
  BY DEF CloseSessions
<1>2. nodes' \in [Nodes -> NodeRecords \cup {NoNode}]
  BY DEF SchedulerInv, TypeOK
<1>3. sess' \in [Sessions -> HandlerPlaces]
  BY <1>1 DEF HandlerPlaces
<1>4. TypeOK'
  BY <1>1, <1>2, <1>3 DEF SchedulerInv, TypeOK, dispatchVars
<1>5. DispatchOK' /\ \A n \in Nodes : Holders(n)' = Holders(n)
  BY DispatchesAlone
<1>6. RegistrationOK'
  <2>1. ASSUME NEW n \in Nodes, nodes'[n] # NoNode
        PROVE  /\ nodes'[n].conn \notin shut' /\ NodeOf[nodes'[n].conn] = n
               /\ sess'[nodes'[n].conn] \in Serving
    <3>1. n \notin N /\ nodes'[n] = nodes[n] /\ Registered(n)
      BY <2>1 DEF Registered
    <3>2. nodes[n].conn \in Sessions
      BY <3>1 DEF Registered, SchedulerInv, TypeOK, NodeRecords
    <3>3. /\ nodes[n].conn \notin shut /\ NodeOf[nodes[n].conn] = n
          /\ sess[nodes[n].conn] \in Serving
      BY <3>1 DEF SchedulerInv, RegistrationOK
    <3> QED
      BY <1>1, <3>1, <3>2, <3>3
  <2>2. ASSUME NEW s \in Sessions, s \in shut'
        PROVE  sess'[s] # "off"
    <3>1. h[s] # "off"
      BY <1>1, <2>2 DEF SchedulerInv, RegistrationOK
    <3> QED
      BY <1>1, <3>1
  <2>3. \A s \in Sessions : sess'[s] = "removing" => NodeOf[s] \in removing'
    BY <1>1
  <2> QED
    BY <2>1, <2>2, <2>3 DEF RegistrationOK, Registered
<1>7. SlotsNotLeaked'
  <2>1. \A n \in Nodes : nodes'[n] # NoNode => nodes[n] = nodes'[n]
    OBVIOUS
  <2> QED
    BY <1>5, <2>1, SlotsKept DEF SchedulerInv
<1> QED
  BY <1>4, <1>5, <1>6, <1>7 DEF SchedulerInv

\* Registry.Remove and RemoveProvider close the sessions of the nodes they
\* forget and of no others.
LEMMA RemovingKeeps ==
    ASSUME SchedulerInv, NEW N \in SUBSET Nodes, NEW h \in [Sessions -> HandlerPlaces],
           RemoveNodes(N, h), UNCHANGED <<reported, full, expired>>,
           UNCHANGED dispatchVars,
           \A s \in Sessions :
               h[s] # sess[s] => h[s] = "exiting" /\ NodeOf[s] \in N,
           \A s \in Sessions : h[s] # "removing"
    PROVE  SchedulerInv'
<1> DEFINE S == {s \in Sessions : \E n \in N : nodes[n].conn = s}
<1>1. /\ CloseSessions(S, h) /\ removing' = {}
      /\ nodes' = [n \in Nodes |-> IF n \in N THEN NoNode ELSE nodes[n]]
  BY DEF RemoveNodes, ConnsOf
<1>2. ASSUME NEW s \in S
      PROVE  NodeOf[s] \in N /\ sess[s] \in Serving
  <2>1. PICK n \in N : nodes[n].conn = s
    OBVIOUS
  <2>2. Registered(n)
    BY <2>1, SchedulerAssumption DEF Registered, NoNode
  <2> QED
    BY <2>1, <2>2 DEF SchedulerInv, RegistrationOK
<1>3. ASSUME NEW n \in Nodes \ N, Registered(n)
      PROVE  nodes[n].conn \notin S /\ h[nodes[n].conn] = sess[nodes[n].conn]
  <2>1. nodes[n].conn \in Sessions /\ NodeOf[nodes[n].conn] = n
    BY <1>3 DEF Registered, SchedulerInv, TypeOK, NodeRecords, RegistrationOK
  <2> QED
    BY <1>2, <2>1
<1>4. \A s \in Sessions : h[s] = "off" => sess[s] = "off" /\ s \notin S
  BY <1>2 DEF Serving
<1>5. S \in SUBSET Sessions /\ removing' \in SUBSET Nodes
  BY <1>1
<1>6. \A s \in Sessions : h[s] = "removing" => NodeOf[s] \in removing'
  OBVIOUS
<1> HIDE DEF S
<1> QED
  BY <1>1, <1>3, <1>4, <1>5, <1>6, ClosingKeeps

\* A handler or an operator who begins to wait for room changes nothing yet.
LEMMA AwaitingKeeps ==
    ASSUME SchedulerInv, NEW N \in SUBSET Nodes, NEW h \in [Sessions -> HandlerPlaces],
           AwaitRoom(N, h), UNCHANGED <<reported, full, expired>>,
           UNCHANGED dispatchVars,
           \A s \in Sessions : h[s] # sess[s] => sess[s] = "down" /\ h[s] = "removing",
           \A s \in Sessions : h[s] = "removing" => NodeOf[s] \in N
    PROVE  SchedulerInv'
<1>1. removing' = N /\ sess' = h /\ UNCHANGED <<shut, nodes>>
  BY DEF AwaitRoom
<1>2. TypeOK'
  BY <1>1 DEF SchedulerInv, TypeOK, dispatchVars
<1>3. DispatchOK' /\ \A n \in Nodes : Holders(n)' = Holders(n)
  BY DispatchesAlone
<1>4. RegistrationOK'
  <2>1. ASSUME NEW n \in Nodes, Registered(n)
        PROVE  h[nodes[n].conn] \in Serving
    <3>1. nodes[n].conn \in Sessions /\ sess[nodes[n].conn] \in Serving
      BY <2>1 DEF Registered, SchedulerInv, TypeOK, NodeRecords, RegistrationOK
    <3> QED
      BY <3>1 DEF Serving
  <2>2. \A s \in Sessions : s \in shut => h[s] # "off"
    BY DEF SchedulerInv, RegistrationOK
  <2> QED
    BY <1>1, <2>1, <2>2 DEF SchedulerInv, RegistrationOK, Registered
<1>5. SlotsNotLeaked'
  BY <1>1, <1>3, SlotsKept DEF SchedulerInv
<1> QED
  BY <1>2, <1>3, <1>4, <1>5 DEF SchedulerInv

\* The handler's way out, and the removal of a provider.
LEMMA ClosingSteps ==
    ASSUME SchedulerInv,
           \/ \E s \in Sessions : HandlerRemove(s) \/ HandlerClose(s)
           \/ \E p \in Providers : RemoveProvider(p)
           \/ FinishRemove
    PROVE  SchedulerInv'
<1>1. /\ sess \in [Sessions -> HandlerPlaces] /\ removing \in SUBSET Nodes
      /\ \A s \in Sessions : sess[s] = "removing" => NodeOf[s] \in removing
  BY DEF SchedulerInv, TypeOK, RegistrationOK
<1>2. ASSUME NEW s \in Sessions, HandlerRemove(s)
      PROVE  SchedulerInv'
  <2> DEFINE N == {NodeOf[s]}
             h == [sess EXCEPT ![s] = "exiting"]
             w == [sess EXCEPT ![s] = "removing"]
  <2>1. N \in SUBSET Nodes /\ NodeOf[s] \in N
    BY SchedulerAssumption
  <2>2. /\ sess[s] = "down" /\ removing = {}
        /\ RemoveNodes(N, h) \/ AwaitRoom(N, w)
        /\ UNCHANGED <<reported, full, expired>> /\ UNCHANGED dispatchVars
    BY <1>2 DEF HandlerRemove, RegistryFree
  <2>3. \A u \in Sessions : sess[u] # "removing"
    BY <1>1, <2>2
  <2>4. /\ h \in [Sessions -> HandlerPlaces] /\ w \in [Sessions -> HandlerPlaces]
        /\ h[s] = "exiting" /\ w[s] = "removing"
        /\ \A u \in Sessions : u # s => h[u] = sess[u] /\ w[u] = sess[u]
    BY <1>1 DEF HandlerPlaces
  <2> HIDE DEF N, h, w
  <2>5. /\ \A u \in Sessions : h[u] # sess[u] => h[u] = "exiting" /\ NodeOf[u] \in N
        /\ \A u \in Sessions : h[u] # "removing"
        /\ \A u \in Sessions : w[u] # sess[u] => sess[u] = "down" /\ w[u] = "removing"
        /\ \A u \in Sessions : w[u] = "removing" => NodeOf[u] \in N
    BY <2>1, <2>2, <2>3, <2>4
  <2> QED
    BY <2>1, <2>2, <2>4, <2>5, RemovingKeeps, AwaitingKeeps
<1>3. ASSUME NEW s \in Sessions, sess[s] \in {"exiting", "closing"},
             CloseSessions({s}, [sess EXCEPT ![s] = "gone"]), HandlerClose(s)
      PROVE  SchedulerInv'
  <2> DEFINE h == [sess EXCEPT ![s] = "gone"]
             S == {s}
             N == {}
  <2>1. /\ CloseSessions(S, h)
        /\ UNCHANGED <<nodes, reported, full, removing, expired>>
        /\ UNCHANGED dispatchVars
    BY <1>3 DEF HandlerClose, registryVars, closeVars
  <2>2. /\ h \in [Sessions -> HandlerPlaces]
        /\ h[s] = "gone" /\ \A u \in Sessions : u # s => h[u] = sess[u]
    BY <1>1 DEF HandlerPlaces
  <2> HIDE DEF h
  <2>3. \A n \in Nodes : Registered(n) => nodes[n].conn \in Sessions /\ nodes[n].conn # s
    BY <1>3 DEF Registered, SchedulerInv, TypeOK, NodeRecords, RegistrationOK, Serving
  <2>4. nodes' = [n \in Nodes |-> IF n \in N THEN NoNode ELSE nodes[n]]
    BY <2>1 DEF SchedulerInv, TypeOK
  <2>5. \A n \in Nodes \ N : Registered(n) =>
          nodes[n].conn \notin S /\ h[nodes[n].conn] = sess[nodes[n].conn]
    BY <2>2, <2>3
  <2>6. \A u \in Sessions : h[u] = "off" => sess[u] = "off" /\ u \notin S
    BY <2>2
  <2>7. \A u \in Sessions : h[u] = "removing" => NodeOf[u] \in removing'
    BY <1>1, <2>1, <2>2
  <2>8. S \in SUBSET Sessions /\ N \in SUBSET Nodes /\ removing' \in SUBSET Nodes
    BY <1>1, <2>1
  <2>9. /\ CloseSessions(S, h) /\ h \in [Sessions -> HandlerPlaces]
        /\ UNCHANGED <<reported, full, expired>> /\ UNCHANGED dispatchVars
    BY <2>1, <2>2
  <2> HIDE DEF S, N
  <2> QED
    BY <2>4, <2>5, <2>6, <2>7, <2>8, <2>9, ClosingKeeps
<1>4. ASSUME NEW s \in Sessions, HandlerClose(s)
      PROVE  SchedulerInv'
  <2>1. CASE /\ sess[s] \in {"exiting", "closing"}
             /\ CloseSessions({s}, [sess EXCEPT ![s] = "gone"])
    BY <1>3, <1>4, <2>1
  <2>2. CASE /\ sess[s] = "exiting" /\ sess' = [sess EXCEPT ![s] = "closing"]
             /\ UNCHANGED shut
    <3>1. UNCHANGED <<nodes, reported, full, removing, expired>> /\ UNCHANGED dispatchVars
      BY <1>4 DEF HandlerClose, registryVars, closeVars
    <3>2. TypeOK'
      BY <2>2, <3>1 DEF SchedulerInv, TypeOK, dispatchVars, HandlerPlaces
    <3>3. DispatchOK' /\ \A n \in Nodes : Holders(n)' = Holders(n)
      BY <3>1, DispatchesAlone
    <3>4. RegistrationOK'
      BY <2>2, <3>1 DEF SchedulerInv, TypeOK, RegistrationOK, Registered, Serving
    <3>5. SlotsNotLeaked'
      BY <3>1, <3>3, SlotsKept DEF SchedulerInv
    <3> QED
      BY <3>2, <3>3, <3>4, <3>5 DEF SchedulerInv
  <2> QED
    BY <1>4, <2>1, <2>2 DEF HandlerClose
<1>5. ASSUME NEW p \in Providers, RemoveProvider(p)
      PROVE  SchedulerInv'
  <2> DEFINE N == {n \in Nodes : ProviderOf[n] = p}
  <2>1. /\ N \in SUBSET Nodes /\ removing = {}
        /\ RemoveNodes(N, sess) \/ AwaitRoom(N, sess)
        /\ UNCHANGED <<reported, full, expired>> /\ UNCHANGED dispatchVars
    BY <1>5 DEF RemoveProvider, RegistryFree
  <2>2. \A u \in Sessions : sess[u] # "removing"
    BY <1>1, <2>1
  <2> HIDE DEF N
  <2> QED
    BY <1>1, <2>1, <2>2, RemovingKeeps, AwaitingKeeps
<1>6. CASE FinishRemove
  <2> DEFINE h == [s \in Sessions |->
                      IF sess[s] = "removing" THEN "exiting" ELSE sess[s]]
  <2>1. /\ RemoveNodes(removing, h)
        /\ UNCHANGED <<reported, full, expired>> /\ UNCHANGED dispatchVars
    BY <1>6 DEF FinishRemove
  <2>2. /\ h \in [Sessions -> HandlerPlaces]
        /\ \A s \in Sessions :
              h[s] # sess[s] => h[s] = "exiting" /\ NodeOf[s] \in removing
        /\ \A s \in Sessions : h[s] # "removing"
    BY <1>1 DEF HandlerPlaces
  <2> HIDE DEF h
  <2> QED
    BY <1>1, <2>1, <2>2, RemovingKeeps
<1> QED
  BY <1>2, <1>4, <1>5, <1>6

-----------------------------------------------------------------------------
(* The steps of dispatches.                                                *)

\* Every goroutine works on its own variables.
LocalTo(r) ==
    \A q \in Requests \ {r} :
        /\ pc'[q] = pc[q] /\ target'[q] = target[q] /\ at'[q] = at[q]
        /\ tried'[q] = tried[q] /\ attempts'[q] = attempts[q]
        /\ sent'[q] = sent[q] /\ outs'[q] = outs[q]

Holding == {"send", "wait", "sink", "unregister", "release"}

\* A step of one dispatch leaves the others as they were.
LEMMA OthersAlone ==
    ASSUME SchedulerInv, NEW r \in Requests, LocalTo(r),
           AnswerOK(r)', TriesOK(r)', ChosenOK(r)'
    PROVE  DispatchOK'
<1> SUFFICES ASSUME NEW q \in Requests
             PROVE  AnswerOK(q)' /\ TriesOK(q)' /\ ChosenOK(q)'
  BY DEF DispatchOK
<1>1. CASE q = r
  BY <1>1
<1>2. CASE q # r
  <2>1. AnswerOK(q) /\ TriesOK(q) /\ ChosenOK(q)
    BY DEF SchedulerInv, DispatchOK
  <2>2. /\ pc'[q] = pc[q] /\ target'[q] = target[q] /\ at'[q] = at[q]
        /\ tried'[q] = tried[q] /\ attempts'[q] = attempts[q]
        /\ sent'[q] = sent[q] /\ outs'[q] = outs[q]
    BY <1>2 DEF LocalTo
  <2> QED
    BY <2>1, <2>2 DEF AnswerOK, TriesOK, ChosenOK
<1> QED
  BY <1>1, <1>2

\* A step of dispatch that takes no slot and gives none back.
LEMMA SlotlessStep ==
    ASSUME SchedulerInv, NEW r \in Requests, TypeOK', LocalTo(r),
           AnswerOK(r)', TriesOK(r)', ChosenOK(r)',
           SameSessions,
           \A n \in Nodes : nodes'[n] # NoNode => nodes'[n].active = nodes[n].active,
           UNCHANGED <<sess, shut, reported, removing>>,
           pc[r] \in Holding <=> pc'[r] \in Holding,
           pc[r] \in Holding => at'[r] = at[r]
    PROVE  SchedulerInv'
<1>1. DispatchOK'
  BY OthersAlone
<1>2. RegistrationOK'
  BY SameRegistrations DEF SchedulerInv
<1>3. ASSUME NEW n \in Nodes
      PROVE  Holders(n)' = Holders(n)
  <2>1. ASSUME NEW q \in Requests
        PROVE  pc'[q] \in Holding /\ NodeOf[at'[q]] = n
                 <=> pc[q] \in Holding /\ NodeOf[at[q]] = n
    BY DEF LocalTo
  <2> QED
    BY <2>1 DEF Holders, Holding
<1>4. SlotsNotLeaked'
  <2>1. \A n \in Nodes : nodes'[n] # NoNode =>
          /\ nodes[n] # NoNode /\ nodes'[n].active = nodes[n].active
          /\ reported'[n] = reported[n]
    BY DEF SameSessions
  <2> QED
    BY <1>3, <2>1, SlotsKept DEF SchedulerInv
<1> QED
  BY <1>1, <1>2, <1>4 DEF SchedulerInv

\* The same, for one that leaves the registry alone.
LEMMA RegistryAlone ==
    ASSUME SchedulerInv, NEW r \in Requests, TypeOK', LocalTo(r),
           AnswerOK(r)', TriesOK(r)', ChosenOK(r)',
           UNCHANGED <<sess, shut, nodes, reported, removing>>,
           pc[r] \in Holding <=> pc'[r] \in Holding,
           pc[r] \in Holding => at'[r] = at[r]
    PROVE  SchedulerInv'
<1>1. SameSessions
  BY NodesUnchanged DEF SchedulerInv, TypeOK
<1>2. UNCHANGED <<sess, shut, reported, removing>>
  OBVIOUS
<1>3. \A n \in Nodes : nodes'[n] # NoNode => nodes'[n].active = nodes[n].active
  OBVIOUS
<1> QED
  BY <1>1, <1>2, <1>3, SlotlessStep

\* The beginning and the end of the search for a node.
LEMMA SearchSteps ==
    ASSUME SchedulerInv, NEW r \in Requests, Dispatch(r) \/ NoCandidate(r)
    PROVE  SchedulerInv'
<1>1. TypeOK'
  BY DEF SchedulerInv, TypeOK, Locations, InAttempt, Dispatch, NoCandidate,
         sessionVars, registryVars, closeVars
<1>2. LocalTo(r) /\ UNCHANGED <<sess, shut, nodes, reported, removing>>
  BY DEF SchedulerInv, TypeOK, LocalTo, Dispatch, NoCandidate, sessionVars, registryVars,
         closeVars
<1>3. AnswerOK(r) /\ TriesOK(r) /\ ChosenOK(r)
  BY DEF SchedulerInv, DispatchOK
<1>4. AnswerOK(r)' /\ TriesOK(r)' /\ ChosenOK(r)'
  BY <1>3 DEF SchedulerInv, TypeOK, AnswerOK, TriesOK, ChosenOK, InAttempt, Dispatch,
              NoCandidate
<1>5. pc[r] \notin Holding /\ pc'[r] \notin Holding
  BY DEF SchedulerInv, TypeOK, Holding, Dispatch, NoCandidate
<1> QED
  BY <1>1, <1>2, <1>4, <1>5, RegistryAlone

\* The exchange with the node, until Send has returned.
LEMMA ExchangeSteps ==
    ASSUME SchedulerInv, NEW r \in Requests,
           \/ Send(r) \/ WriteFails(r) \/ Chunk(r) \/ NodeDone(r) \/ NodeError(r)
           \/ SinkReturns(r) \/ SinkFails(r) \/ Disconnected(r) \/ ContextDone(r)
           \/ Unregister(r)
    PROVE  SchedulerInv'
<1>1. AnswerOK(r) /\ TriesOK(r) /\ ChosenOK(r)
  BY DEF SchedulerInv, DispatchOK
<1>2. CASE Send(r) \/ SinkReturns(r) \/ Unregister(r)
  <2>1. PICK l \in {"wait", "release"} :
          /\ pc[r] \in {"send", "sink", "unregister"} /\ pc' = [pc EXCEPT ![r] = l]
          /\ full' \subseteq full
          /\ UNCHANGED <<target, at, tried, attempts, sent, err, outs, expired>>
          /\ UNCHANGED <<sess, shut, nodes, reported, removing>>
    BY <1>2 DEF Send, SinkReturns, Unregister, sessionVars, registryVars, closeVars
  <2>2. TypeOK'
    BY <2>1 DEF SchedulerInv, TypeOK, Locations, InAttempt
  <2>3. LocalTo(r)
    BY <2>1 DEF SchedulerInv, TypeOK, LocalTo
  <2>4. AnswerOK(r)' /\ TriesOK(r)' /\ ChosenOK(r)'
    BY <1>1, <2>1 DEF SchedulerInv, TypeOK, AnswerOK, TriesOK, ChosenOK, InAttempt
  <2>5. pc[r] \in Holding /\ pc'[r] \in Holding /\ at'[r] = at[r]
    BY <2>1 DEF SchedulerInv, TypeOK, Holding
  <2> QED
    BY <2>1, <2>2, <2>3, <2>4, <2>5, RegistryAlone
<1>3. CASE Chunk(r)
  <2>1. TypeOK'
    BY <1>3 DEF SchedulerInv, TypeOK, Locations, InAttempt, Chunk, sessionVars, registryVars
  <2>2. LocalTo(r) /\ UNCHANGED <<sess, shut, nodes, reported, removing>>
    BY <1>3 DEF SchedulerInv, TypeOK, LocalTo, Chunk, sessionVars, registryVars
  <2>3. AnswerOK(r)' /\ TriesOK(r)' /\ ChosenOK(r)'
    BY <1>1, <1>3 DEF SchedulerInv, TypeOK, AnswerOK, TriesOK, ChosenOK, InAttempt, Chunk
  <2>4. pc[r] \in Holding /\ pc'[r] \in Holding /\ at'[r] = at[r]
    BY <1>3 DEF SchedulerInv, TypeOK, Holding, Chunk
  <2> QED
    BY <2>1, <2>2, <2>3, <2>4, RegistryAlone
<1>4. CASE \/ WriteFails(r) \/ NodeDone(r) \/ NodeError(r) \/ SinkFails(r)
           \/ Disconnected(r) \/ ContextDone(r)
  <2>1. PICK e \in {"nil", "retryable", "final"} :
          /\ pc[r] \in {"send", "wait", "sink"} /\ Return(r, e)
          /\ full' \subseteq full
          /\ UNCHANGED <<target, at, tried, attempts, sent, outs, expired>>
          /\ UNCHANGED <<sess, shut, nodes, reported, removing>>
    BY <1>4 DEF WriteFails, NodeDone, NodeError, SinkFails, Disconnected, ContextDone,
                sessionVars, registryVars, closeVars
  <2>2. TypeOK'
    BY <2>1 DEF SchedulerInv, TypeOK, Locations, InAttempt, Return
  <2>3. LocalTo(r)
    BY <2>1 DEF SchedulerInv, TypeOK, LocalTo, Return
  <2>4. AnswerOK(r)' /\ TriesOK(r)' /\ ChosenOK(r)'
    BY <1>1, <2>1 DEF SchedulerInv, TypeOK, AnswerOK, TriesOK, ChosenOK, InAttempt, Return
  <2>5. pc[r] \in Holding /\ pc'[r] \in Holding /\ at'[r] = at[r]
    BY <2>1 DEF SchedulerInv, TypeOK, Holding, Return
  <2> QED
    BY <2>1, <2>2, <2>3, <2>4, <2>5, RegistryAlone
<1> QED
  BY <1>2, <1>3, <1>4

\* A node that is picked has not been tried, so that one more attempt is still
\* no more than one per node, and its session is right for the request.
LEMMA reserveFilteredStep ==
    ASSUME SchedulerInv, NEW r \in Requests, reserveFiltered(r)
    PROVE  SchedulerInv'
<1>1. PICK n \in Nodes :
        /\ Candidate(r, n)
        /\ nodes' = [nodes EXCEPT ![n].active = @ + 1]
        /\ at' = [at EXCEPT ![r] = nodes[n].conn]
  BY DEF reserveFiltered
<1>2. /\ pc[r] = "pick" /\ pc' = [pc EXCEPT ![r] = "send"]
      /\ attempts' = [attempts EXCEPT ![r] = @ + 1]
      /\ sent' = [sent EXCEPT ![r] = FALSE]
      /\ err' = [err EXCEPT ![r] = "nil"]
      /\ UNCHANGED <<target, tried, outs, reported, sess, shut, full, removing, expired>>
  BY DEF reserveFiltered, sessionVars, closeVars
<1>3. /\ Registered(n) /\ n \notin tried[r]
      /\ target[r] \in {AnyProvider, ProviderOf[n]}
      /\ TierOf[r] \in TiersOf[nodes[n].conn]
  BY <1>1 DEF Candidate, acceptsPrivacy
<1> DEFINE x == [nodes[n] EXCEPT !.active = nodes[n].active + 1]
<1>4. /\ x \in NodeRecords /\ x.conn = nodes[n].conn /\ x.active = nodes[n].active + 1
      /\ nodes[n].active \in Nat /\ nodes[n] \in NodeRecords
  <2>1. nodes[n].active \in Nat /\ nodes[n] \in NodeRecords
    BY <1>3, ActiveCounts DEF SchedulerInv
  <2>2. nodes[n].active + 1 \in Nat
    BY <2>1
  <2> QED
    BY <1>3, <2>1, <2>2, NodeEdits DEF SchedulerInv
<1>5. nodes' = [nodes EXCEPT ![n] = x]
  BY <1>1
<1> HIDE DEF x
<1>6. nodes[n].conn \in Sessions /\ NodeOf[nodes[n].conn] = n /\ nodes[n].conn # NoSession
  BY <1>3, <1>4, SchedulerAssumption DEF SchedulerInv, RegistrationOK, NodeRecords, NoSession
<1>7. SameSessions
  BY <1>3, <1>4, <1>5, NodeUpdated DEF SchedulerInv, TypeOK
<1>8. TypeOK'
  BY <1>1, <1>2, <1>6, <1>7
  DEF SchedulerInv, TypeOK, Locations, InAttempt, SameSessions
<1>9. DispatchOK'
  <2>1. LocalTo(r)
    BY <1>1, <1>2 DEF SchedulerInv, TypeOK, LocalTo
  <2>2. /\ AnswerOK(r) /\ TriesOK(r) /\ ChosenOK(r)
        /\ tried[r] \subseteq Nodes /\ attempts[r] \in Nat
    BY DEF SchedulerInv, DispatchOK, TypeOK
  <2>3. /\ pc'[r] = "send" /\ at'[r] = nodes[n].conn /\ attempts'[r] = attempts[r] + 1
        /\ tried'[r] = tried[r] /\ target'[r] = target[r] /\ outs'[r] = outs[r]
    BY <1>1, <1>2 DEF SchedulerInv, TypeOK
  <2>4. /\ Cardinality(tried[r]) \in Nat /\ Cardinality(Nodes) \in Nat
        /\ Cardinality(tried[r]) + 1 <= Cardinality(Nodes)
    <3>1. IsFiniteSet(tried[r]) /\ IsFiniteSet(Nodes)
      BY <2>2, SchedulerAssumption, FS_Subset
    <3>2. Cardinality(tried[r] \cup {n}) = Cardinality(tried[r]) + 1
      BY <1>3, <3>1, FS_AddElement
    <3>3. tried[r] \cup {n} \subseteq Nodes
      BY <2>2
    <3>4. Cardinality(tried[r] \cup {n}) <= Cardinality(Nodes)
      BY <3>1, <3>3, FS_Subset
    <3> QED
      BY <3>1, <3>2, <3>4, FS_CardinalityType
  <2>5. AnswerOK(r)'
    BY <1>2, <2>2, <2>3 DEF AnswerOK
  <2>6. TriesOK(r)'
    BY <1>2, <1>3, <1>6, <2>2, <2>3, <2>4 DEF TriesOK
  <2>7. ChosenOK(r)'
    BY <1>3, <1>6, <2>3 DEF ChosenOK
  <2> QED
    BY <2>1, <2>5, <2>6, <2>7, OthersAlone
<1>10. RegistrationOK'
  BY <1>2, <1>7, SameRegistrations DEF SchedulerInv
<1>11. SlotsNotLeaked'
  <2>1. ASSUME NEW m \in Nodes
        PROVE  Holders(m)' = IF m = n THEN Holders(m) \cup {r} ELSE Holders(m)
    <3>1. \A q \in Requests \ {r} : pc'[q] = pc[q] /\ at'[q] = at[q]
      BY <1>1, <1>2 DEF SchedulerInv, TypeOK
    <3>2. pc'[r] = "send" /\ NodeOf[at'[r]] = n
      BY <1>1, <1>2, <1>6 DEF SchedulerInv, TypeOK
    <3> QED
      BY <1>2, <3>1, <3>2 DEF Holders
  <2>2. r \notin Holders(n)
    BY <1>2 DEF Holders
  <2>3. Cardinality(Holders(n) \cup {r}) = Cardinality(Holders(n)) + 1
    BY <2>2, HoldersFinite, FS_AddElement
  <2> SUFFICES ASSUME NEW m \in Nodes, nodes'[m] # NoNode
               PROVE  nodes'[m].active <= reported'[m] + Cardinality(Holders(m)')
    BY DEF SlotsNotLeaked, Registered
  <2>4. /\ nodes[m].active <= reported[m] + Cardinality(Holders(m))
        /\ reported'[m] = reported[m] /\ reported[m] \in Nat
    BY <1>2, <1>7 DEF SchedulerInv, TypeOK, SlotsNotLeaked, Registered, SameSessions
  <2>5. CASE m = n
    <3>1. nodes'[n].active = nodes[n].active + 1
      BY <1>4, <1>5 DEF SchedulerInv, TypeOK
    <3>2. Cardinality(Holders(n)) \in Nat /\ Holders(m)' = Holders(n) \cup {r}
      BY <2>1, <2>5, HoldersFinite
    <3> QED
      BY <1>4, <2>3, <2>4, <2>5, <3>1, <3>2
  <2>6. CASE m # n
    <3>1. nodes'[m] = nodes[m]
      BY <1>5, <2>6 DEF SchedulerInv, TypeOK
    <3> QED
      BY <2>1, <2>4, <2>6, <3>1
  <2> QED
    BY <2>5, <2>6
<1> QED
  BY <1>8, <1>9, <1>10, <1>11 DEF SchedulerInv

\* A slot goes back to the registration that the node ID names now; when that
\* is a new one there may be nothing to give back.
LEMMA releaseStep ==
    ASSUME SchedulerInv, NEW r \in Requests, release(r)
    PROVE  SchedulerInv'
<1> DEFINE n == NodeOf[at[r]]
<1>1. /\ pc[r] = "release" /\ pc' = [pc EXCEPT ![r] = "record"]
      /\ nodes' = IF Registered(n) /\ nodes[n].active > 0
                  THEN [nodes EXCEPT ![n].active = @ - 1] ELSE nodes
      /\ UNCHANGED <<target, at, tried, attempts, sent, err, outs, reported, sess, shut,
                     full, removing, expired>>
  BY DEF release, sessionVars, closeVars
<1>2. n \in Nodes
  BY <1>1, SchedulerAssumption DEF SchedulerInv, TypeOK, InAttempt
<1> HIDE DEF n
<1>3. /\ SameSessions
      /\ \A m \in Nodes : m # n => nodes'[m] = nodes[m]
      /\ nodes'[n] # NoNode =>
            /\ nodes[n].active \in Nat
            /\ nodes'[n].active = IF nodes[n].active = 0 THEN 0 ELSE nodes[n].active - 1
  <2>1. CASE Registered(n) /\ nodes[n].active > 0
    <3> DEFINE x == [nodes[n] EXCEPT !.active = nodes[n].active - 1]
    <3>1. nodes[n].active \in Nat \ {0} /\ nodes[n].active - 1 \in Nat
      <4>1. nodes[n].active \in Nat
        BY <1>2, <2>1, ActiveCounts DEF SchedulerInv
      <4> QED
        BY <2>1, <4>1
    <3>2. x \in NodeRecords /\ x.conn = nodes[n].conn /\ x.active = nodes[n].active - 1
      BY <1>2, <2>1, <3>1, NodeEdits DEF SchedulerInv
    <3>3. nodes' = [nodes EXCEPT ![n] = x]
      BY <1>1, <2>1
    <3> HIDE DEF x
    <3>4. SameSessions
      BY <1>2, <2>1, <3>2, <3>3, NodeUpdated DEF SchedulerInv, TypeOK
    <3>5. nodes'[n] = x /\ \A m \in Nodes : m # n => nodes'[m] = nodes[m]
      BY <1>2, <3>3 DEF SchedulerInv, TypeOK
    <3> QED
      BY <3>1, <3>2, <3>4, <3>5
  <2>2. CASE ~(Registered(n) /\ nodes[n].active > 0)
    <3>1. UNCHANGED nodes
      BY <1>1, <2>2
    <3>2. SameSessions
      BY <3>1, NodesUnchanged DEF SchedulerInv, TypeOK
    <3>3. Registered(n) => nodes[n].active = 0
      <4>1. Registered(n) => nodes[n].active \in Nat
        BY <1>2, ActiveCounts DEF SchedulerInv
      <4> QED
        BY <2>2, <4>1
    <3> QED
      BY <3>1, <3>2, <3>3 DEF Registered
  <2> QED
    BY <2>1, <2>2
<1>4. TypeOK'
  BY <1>1, <1>3 DEF SchedulerInv, TypeOK, Locations, InAttempt, SameSessions
<1>5. DispatchOK'
  <2>1. LocalTo(r)
    BY <1>1 DEF SchedulerInv, TypeOK, LocalTo
  <2>2. AnswerOK(r)' /\ TriesOK(r)' /\ ChosenOK(r)'
    BY <1>1 DEF SchedulerInv, DispatchOK, TypeOK, AnswerOK, TriesOK, ChosenOK, InAttempt
  <2> QED
    BY <2>1, <2>2, OthersAlone
<1>6. RegistrationOK'
  BY <1>1, <1>3, SameRegistrations DEF SchedulerInv
<1>7. SlotsNotLeaked'
  <2>1. ASSUME NEW m \in Nodes
        PROVE  Holders(m)' = IF m = n THEN Holders(m) \ {r} ELSE Holders(m)
    <3>1. \A q \in Requests \ {r} : pc'[q] = pc[q]
      BY <1>1 DEF SchedulerInv, TypeOK
    <3>2. pc'[r] = "record" /\ NodeOf[at[r]] = n /\ UNCHANGED at
      BY <1>1 DEF SchedulerInv, TypeOK, n
    <3> QED
      BY <3>1, <3>2 DEF Holders
  <2>2. r \in Holders(n)
    BY <1>1 DEF Holders, n
  <2>3. Cardinality(Holders(n) \ {r}) = Cardinality(Holders(n)) - 1
    BY <2>2, HoldersFinite, FS_RemoveElement
  <2>4. Cardinality(Holders(n) \ {r}) \in Nat
    BY HoldersFinite, FS_RemoveElement, FS_CardinalityType
  <2> SUFFICES ASSUME NEW m \in Nodes, nodes'[m] # NoNode
               PROVE  nodes'[m].active <= reported'[m] + Cardinality(Holders(m)')
    BY DEF SlotsNotLeaked, Registered
  <2>5. /\ nodes[m].active <= reported[m] + Cardinality(Holders(m))
        /\ reported'[m] = reported[m] /\ reported[m] \in Nat
    BY <1>1, <1>3 DEF SchedulerInv, TypeOK, SlotsNotLeaked, Registered, SameSessions
  <2>6. CASE m = n
    <3>1. Cardinality(Holders(n)) \in Nat /\ Holders(m)' = Holders(n) \ {r}
      BY <2>1, <2>6, HoldersFinite
    <3> QED
      BY <1>3, <2>3, <2>4, <2>5, <2>6, <3>1
  <2>7. CASE m # n
    BY <1>3, <2>1, <2>5, <2>7
  <2> QED
    BY <2>6, <2>7
<1> QED
  BY <1>4, <1>5, <1>6, <1>7 DEF SchedulerInv

\* What is written down after an attempt.  A node that failed before the first
\* token has not been tried before: it now accounts for the attempt.
LEMMA RecordSteps ==
    ASSUME SchedulerInv, NEW r \in Requests,
           \/ recordSuccess(r) \/ recordPreTokenFailure(r)
           \/ recordPostTokenFailure(r) \/ recordPreTokenTerminalFailure(r)
    PROVE  SchedulerInv'
<1> DEFINE n == NodeOf[at[r]]
<1>1. pc[r] = "record"
  BY DEF recordSuccess, recordPreTokenFailure, recordPostTokenFailure,
         recordPreTokenTerminalFailure
<1>2. AnswerOK(r) /\ TriesOK(r) /\ ChosenOK(r) /\ n \in Nodes
  BY <1>1, SchedulerAssumption DEF SchedulerInv, DispatchOK, TypeOK, InAttempt
<1>3. ASSUME NEW b \in BOOLEAN,
             nodes' = IF Registered(n) THEN [nodes EXCEPT ![n].cool = b] ELSE nodes
      PROVE  /\ SameSessions
             /\ \A m \in Nodes : nodes'[m] # NoNode => nodes'[m].active = nodes[m].active
  <2>1. CASE Registered(n)
    <3> DEFINE x == [nodes[n] EXCEPT !.cool = b]
    <3>1. x \in NodeRecords /\ x.conn = nodes[n].conn /\ x.active = nodes[n].active
      BY <1>2, <2>1, NodeEdits DEF SchedulerInv
    <3>2. nodes' = [nodes EXCEPT ![n] = x]
      BY <1>3, <2>1
    <3> HIDE DEF x, n
    <3>3. SameSessions
      BY <1>2, <2>1, <3>1, <3>2, NodeUpdated DEF SchedulerInv, TypeOK
    <3>4. nodes'[n] = x /\ \A m \in Nodes : m # n => nodes'[m] = nodes[m]
      BY <1>2, <3>2 DEF SchedulerInv, TypeOK
    <3> QED
      BY <3>1, <3>3, <3>4
  <2>2. CASE ~Registered(n)
    BY <1>3, <2>2, NodesUnchanged DEF SchedulerInv, TypeOK
  <2> QED
    BY <2>1, <2>2
<1>4. CASE recordSuccess(r)
  <2>1. /\ pc' = [pc EXCEPT ![r] = "ok"]
        /\ nodes' = IF Registered(n) THEN [nodes EXCEPT ![n].cool = FALSE] ELSE nodes
        /\ UNCHANGED <<target, at, tried, attempts, sent, err, outs, reported, sess, shut,
                       full, removing, expired>>
    BY <1>4 DEF recordSuccess, sessionVars, closeVars
  <2>2. /\ SameSessions
        /\ \A m \in Nodes : nodes'[m] # NoNode => nodes'[m].active = nodes[m].active
    BY <1>3, <2>1
  <2> HIDE DEF n
  <2>3. TypeOK'
    BY <1>1, <2>1, <2>2 DEF SchedulerInv, TypeOK, Locations, InAttempt, SameSessions
  <2>4. LocalTo(r)
    BY <2>1 DEF SchedulerInv, TypeOK, LocalTo
  <2>5. AnswerOK(r)' /\ TriesOK(r)' /\ ChosenOK(r)'
    BY <1>2, <2>1 DEF SchedulerInv, TypeOK, AnswerOK, TriesOK, ChosenOK, InAttempt
  <2>6. pc[r] \notin Holding /\ pc'[r] \notin Holding
    BY <1>1, <2>1 DEF SchedulerInv, TypeOK, Holding
  <2> QED
    BY <2>1, <2>2, <2>3, <2>4, <2>5, <2>6, SlotlessStep
<1>5. CASE recordPreTokenFailure(r)
  <2>1. /\ ~sent[r] /\ pc' = [pc EXCEPT ![r] = "pick"]
        /\ tried' = [tried EXCEPT ![r] = @ \cup {n}]
        /\ nodes' = IF Registered(n) THEN [nodes EXCEPT ![n].cool = TRUE] ELSE nodes
        /\ at' = [at EXCEPT ![r] = NoSession]
        /\ UNCHANGED <<target, attempts, sent, err, outs, reported, sess, shut,
                       full, removing, expired>>
    BY <1>5 DEF recordPreTokenFailure, sessionVars, closeVars
  <2>2. /\ SameSessions
        /\ \A m \in Nodes : nodes'[m] # NoNode => nodes'[m].active = nodes[m].active
    BY <1>3, <2>1
  <2>3. n \notin tried[r]
    BY <1>1, <1>2 DEF TriesOK, InAttempt
  <2> HIDE DEF n
  <2>4. TypeOK'
    BY <1>1, <1>2, <2>1, <2>2 DEF SchedulerInv, TypeOK, Locations, InAttempt, SameSessions
  <2>5. LocalTo(r)
    BY <2>1 DEF SchedulerInv, TypeOK, LocalTo
  <2>6. /\ pc'[r] = "pick" /\ tried'[r] = tried[r] \cup {n}
        /\ at'[r] = NoSession /\ outs'[r] = outs[r] /\ attempts'[r] = attempts[r]
        /\ target'[r] = target[r]
    BY <2>1 DEF SchedulerInv, TypeOK
  <2>7. Cardinality(tried[r] \cup {n}) = Cardinality(tried[r]) + 1
    <3>1. IsFiniteSet(tried[r])
      BY SchedulerAssumption, FS_Subset DEF SchedulerInv, TypeOK
    <3> QED
      BY <2>3, <3>1, FS_AddElement
  <2>8. AnswerOK(r)'
    BY <1>1, <1>2, <2>1, <2>6 DEF AnswerOK, InAttempt
  <2>9. TriesOK(r)'
    BY <1>1, <1>2, <2>6, <2>7 DEF TriesOK, InAttempt
  <2>10. ChosenOK(r)'
    BY <2>6 DEF ChosenOK
  <2>11. pc[r] \notin Holding /\ pc'[r] \notin Holding
    BY <1>1, <2>6 DEF Holding
  <2> QED
    BY <2>1, <2>2, <2>4, <2>5, <2>8, <2>9, <2>10, <2>11, SlotlessStep
<1>6. CASE recordPostTokenFailure(r) \/ recordPreTokenTerminalFailure(r)
  <2>1. /\ pc' = [pc EXCEPT ![r] = "failed"]
        /\ UNCHANGED <<target, at, tried, attempts, sent, err, outs, full, expired>>
        /\ UNCHANGED <<nodes, reported, sess, shut, removing>>
    BY <1>6 DEF recordPostTokenFailure, recordPreTokenTerminalFailure, sessionVars,
                registryVars, closeVars
  <2> HIDE DEF n
  <2>2. TypeOK'
    BY <2>1 DEF SchedulerInv, TypeOK, Locations, InAttempt
  <2>3. LocalTo(r)
    BY <2>1 DEF SchedulerInv, TypeOK, LocalTo
  <2>4. AnswerOK(r)' /\ TriesOK(r)' /\ ChosenOK(r)'
    BY <1>2, <2>1 DEF SchedulerInv, TypeOK, AnswerOK, TriesOK, ChosenOK, InAttempt
  <2>5. pc[r] \notin Holding /\ pc'[r] \notin Holding
    BY <1>1, <2>1 DEF SchedulerInv, TypeOK, Holding
  <2> QED
    BY <2>1, <2>2, <2>3, <2>4, <2>5, RegistryAlone
<1> QED
  BY <1>4, <1>5, <1>6

-----------------------------------------------------------------------------
(* The theorems.                                                           *)

\* Every step of sessions, nodes and dispatches keeps the invariant.
LEMMA SchedulerStep ==
    ASSUME SchedulerInv, [Next]_vars
    PROVE  SchedulerInv'
<1>1. CASE UNCHANGED vars
  <2>1. /\ UNCHANGED <<sess, shut, nodes, reported, full, removing, expired>>
        /\ UNCHANGED dispatchVars
    BY <1>1 DEF vars, sessionVars, registryVars, closeVars
  <2>2. TypeOK' /\ RegistrationOK'
    BY <2>1 DEF SchedulerInv, TypeOK, RegistrationOK, Registered, dispatchVars
  <2>3. DispatchOK' /\ \A n \in Nodes : Holders(n)' = Holders(n)
    BY <2>1, DispatchesAlone
  <2>4. SlotsNotLeaked'
    BY <2>1, <2>3, SlotsKept DEF SchedulerInv
  <2> QED
    BY <2>2, <2>3, <2>4 DEF SchedulerInv
<1>2. CASE SessionStep
  BY <1>2, RegisterStep, NodeStateSteps, DisconnectStep, ClosingSteps DEF SessionStep
<1>3. ASSUME NEW r \in Requests,
             Dispatch(r) \/ NodeStep(r) \/ ClientStep(r) \/ GoroutineStep(r)
      PROVE  SchedulerInv'
  BY <1>3, SearchSteps, ExchangeSteps, reserveFilteredStep, releaseStep, RecordSteps
  DEF NodeStep, ClientStep, GoroutineStep
<1>4. ASSUME NEW r \in Requests, Expire(r) \/ Fill(r)
      PROVE  SchedulerInv'
  <2>1. /\ UNCHANGED <<sess, shut, nodes, reported, removing>>
        /\ UNCHANGED dispatchVars
        /\ expired' \subseteq expired \cup {r} /\ full' \subseteq full \cup {r}
    BY <1>4 DEF Expire, Fill, sessionVars, registryVars, closeVars
  <2>2. TypeOK' /\ RegistrationOK'
    BY <2>1 DEF SchedulerInv, TypeOK, RegistrationOK, Registered, dispatchVars
  <2>3. DispatchOK' /\ \A n \in Nodes : Holders(n)' = Holders(n)
    BY <2>1, DispatchesAlone
  <2>4. SlotsNotLeaked'
    BY <2>1, <2>3, SlotsKept DEF SchedulerInv
  <2> QED
    BY <2>2, <2>3, <2>4 DEF SchedulerInv
<1> QED
  BY <1>1, <1>2, <1>3, <1>4 DEF Next, Quiet

\* The inductive invariant of the registry and of all dispatches holds always.
THEOREM SchedulerInvariant == Spec => []SchedulerInv
<1>1. SchedulerInv /\ [Next]_vars => SchedulerInv'
  BY SchedulerStep
<1> QED
  BY <1>1, SchedulerInit, PTL DEF Spec

\* dispatch fails over before the first token only: however nodes fail and
\* reconnect, all output of a request is from the session it ends with.
THEOREM AnswersFromOneNode == Spec => []OneNodePerAnswer
<1>1. SchedulerInv => OneNodePerAnswer
  BY DEF SchedulerInv, DispatchOK, AnswerOK, OneNodePerAnswer
<1> QED
  BY <1>1, SchedulerInvariant, PTL

\* dispatch makes at most one attempt per node ID and never returns to a node
\* that failed, although IDs are registered again under it.
THEOREM OneAttemptPerNode == Spec => []NodeTriedOnce
<1>1. SchedulerInv => NodeTriedOnce
  BY DEF SchedulerInv, DispatchOK, TriesOK, NodeTriedOnce
<1> QED
  BY <1>1, SchedulerInvariant, PTL

\* A request only goes to sessions that accept its tier and that belong to the
\* provider it is meant for.
THEOREM PrivacyIsKept == Spec => []PrivacyKept
<1>1. SchedulerInv => PrivacyKept
  BY DEF SchedulerInv, DispatchOK, ChosenOK, PrivacyKept
<1> QED
  BY <1>1, SchedulerInvariant, PTL

\* The registry holds no connection that has been closed, whatever the order
\* in which the handlers of an agent's sessions end.
THEOREM RegistryHoldsOpenConnections == Spec => []RoutableIsOpen
<1>1. SchedulerInv => RoutableIsOpen
  BY DEF SchedulerInv, RegistrationOK, RoutableIsOpen
<1> QED
  BY <1>1, SchedulerInvariant, PTL

\* reserveFiltered and release stay in balance on every path of dispatch.
THEOREM NoSlotLeaks == Spec => []SlotsNotLeaked
<1>1. SchedulerInv => SlotsNotLeaked
  BY DEF SchedulerInv
<1> QED
  BY <1>1, SchedulerInvariant, PTL

=============================================================================
