---------------------------- MODULE Challenges ----------------------------
(***************************************************************************)
(* Synthetic challenges: the runner's ticker and operators' requests call  *)
(* runSyntheticChallenge concurrently.  Each call takes a snapshot of the  *)
(* registry, then the next provider from the rotation index they share,    *)
(* dispatches a prompt and records the verdict; nodes come, go, fill up    *)
(* and change hands in between.  How a dispatch works inside is in         *)
(* Scheduler, what becomes of the events in Ledgers.                       *)
(*                                                                         *)
(* Providers and models are numbers in the order of their names; 0 is the  *)
(* empty name.                                                             *)
(***************************************************************************)
EXTENDS Privacy, Integers, Sequences, FiniteSets

CONSTANTS
    Nodes,
    OwnersOf,   \* the providers a node may register for
    ModelsOf,   \* the models a node serves
    TiersOf,    \* the tiers it accepts
    Runner,     \* the goroutine of the challenge runner
    Operators,  \* requests of POST /admin/challenges/run
    RunnerAsk,  \* the configured challenge: model, tier and provider
    Asks        \* what operators ask for

Callers   == {Runner} \cup Operators
Providers == UNION {OwnersOf[n] : n \in Nodes}
Models    == UNION {ModelsOf[n] : n \in Nodes}

ASSUME ChallengesAssumption ==
    /\ IsFiniteSet(Nodes)
    /\ OwnersOf \in [Nodes -> SUBSET (Nat \ {0})]
    /\ ModelsOf \in [Nodes -> SUBSET (Nat \ {0})]
    /\ \A n \in Nodes : OwnersOf[n] # {}
    /\ Runner \notin Operators
    /\ Asks \cup {RunnerAsk} \subseteq
          [model : Models \cup {0}, tier : Tiers \cup {""}, provider : Providers \cup {0}]

VARIABLES
    status,     \* of each node: "gone" (or unhealthy), "busy" (or cooling down), "free"
    owner,      \* the provider it is registered for
    next,       \* server.nextChallengeProvider
    at,         \* where each caller stands
    job,        \* the local variables of its call
    prev        \* history: the list and the choice of the last pick

vars == <<status, owner, next, at, job, prev>>

NoJob == [model |-> 0, tier |-> "", list |-> <<>>, target |-> 0, tried |-> {},
          ran |-> <<>>, event |-> <<>>]

-----------------------------------------------------------------------------
(* What the registry shows.                                                *)

healthyModels == UNION {ModelsOf[n] : n \in {m \in Nodes : status[m] # "gone"}}

Serves(n, model, tier) ==
    status[n] = "free" /\ model \in ModelsOf[n] /\ Accepts(TiersOf[n], tier)

\* sort.Strings on the keys of a map: each of them once, in order.
sorted(S) ==
    CHOOSE list \in [1..Cardinality(S) -> S] :
        \A i, j \in 1..Cardinality(S) : i < j => list[i] < list[j]

challengeProviderCandidates(model, tier) ==
    sorted({owner[n] : n \in {m \in Nodes : Serves(m, model, tier)}})

\* The defaults of a challenge: the first model of any healthy node, whatever
\* tiers that node accepts, and the public tier.
challengeModel(ask) ==
    IF ask.model # 0 \/ healthyModels = {} THEN ask.model
    ELSE CHOOSE x \in healthyModels : \A y \in healthyModels : x <= y

challengeTier(ask) == IF ask.tier = "" THEN "public" ELSE ask.tier

-----------------------------------------------------------------------------
(* runSyntheticChallenge.                                                  *)

Goto(c, stage) == at' = [at EXCEPT ![c] = stage]

Returns(c) == Goto(c, "idle") /\ job' = [job EXCEPT ![c] = NoJob]

Begin(c, ask) ==
    /\ at[c] = "idle"
    /\ challengeModel(ask) # 0
    /\ Goto(c, IF ask.provider = 0 THEN "choosing" ELSE "dispatching")
    /\ job' = [job EXCEPT ![c].model = challengeModel(ask),
                          ![c].tier = challengeTier(ask), ![c].target = ask.provider]
    /\ UNCHANGED <<status, owner, next, prev>>

\* No model is named and no node is healthy.
BeginFails(c, ask) ==
    /\ at[c] = "idle"
    /\ challengeModel(ask) = 0
    /\ UNCHANGED vars

\* Without a provider the call takes a snapshot to choose one from; when it
\* is empty any node will do.
Snapshot(c) ==
    LET list == challengeProviderCandidates(job[c].model, job[c].tier)
    IN  /\ at[c] = "choosing"
        /\ Goto(c, IF list = <<>> THEN "dispatching" ELSE "picking")
        /\ job' = [job EXCEPT ![c].list = list]
        /\ UNCHANGED <<status, owner, next, prev>>

\* Mutant: the last candidate is never reached.
PickSkipsLast(c) ==
    LET list == job[c].list
        i    == IF next >= Len(list) - 1 THEN 0 ELSE next
    IN  /\ at[c] = "picking"
        /\ next' = (i + 1) % Len(list)
        /\ job' = [job EXCEPT ![c].target = list[i + 1], ![c].list = <<>>]
        /\ prev' = [list |-> list, target |-> list[i + 1]]
        /\ Goto(c, "dispatching")
        /\ UNCHANGED <<status, owner>>

\* Mutant: the index only moves on for the runner.
PickAdvancesRunner(c) ==
    LET list == job[c].list
        i    == IF next >= Len(list) THEN 0 ELSE next
    IN  /\ at[c] = "picking"
        /\ next' = IF c = Runner THEN (i + 1) % Len(list) ELSE i
        /\ job' = [job EXCEPT ![c].target = list[i + 1], ![c].list = <<>>]
        /\ prev' = [list |-> list, target |-> list[i + 1]]
        /\ Goto(c, "dispatching")
        /\ UNCHANGED <<status, owner>>

\* The critical section of nextSyntheticChallengeProvider.
nextSyntheticChallengeProvider(c) ==
    LET list == job[c].list
        i    == IF next >= Len(list) THEN 0 ELSE next
    IN  /\ at[c] = "picking"
        /\ next' = (i + 1) % Len(list)
        /\ job' = [job EXCEPT ![c].target = list[i + 1], ![c].list = <<>>]
        /\ prev' = [list |-> list, target |-> list[i + 1]]
        /\ Goto(c, "dispatching")
        /\ UNCHANGED <<status, owner>>

Candidate(c, n) ==
    /\ n \notin job[c].tried
    /\ job[c].target # 0 => owner[n] = job[c].target
    /\ Serves(n, job[c].model, job[c].tier)

\* Dispatch or DispatchToProvider reserves a node; ran is what the Node it
\* keeps says of the provider.
Reserve(c, n) ==
    /\ at[c] = "dispatching"
    /\ Candidate(c, n)
    /\ job' = [job EXCEPT ![c].ran = <<n, owner[n]>>]
    /\ Goto(c, "running")
    /\ UNCHANGED <<status, owner, next, prev>>

\* ErrNoNode, at once or after retries, comes without a provider: nothing is
\* recorded.
NoNode(c) ==
    /\ at[c] = "dispatching"
    /\ \A n \in Nodes : ~Candidate(c, n)
    /\ Returns(c)
    /\ UNCHANGED <<status, owner, next, prev>>

\* A retryable failure before the first token.
Retry(c) ==
    /\ at[c] = "running"
    /\ job' = [job EXCEPT ![c].tried = @ \cup {job[c].ran[1]}, ![c].ran = <<>>]
    /\ Goto(c, "dispatching")
    /\ UNCHANGED <<status, owner, next, prev>>

Event(c, provider, passed, score) ==
    [node |-> job[c].ran[1], provider |-> provider, passed |-> passed, score |-> score]

\* The node answers, as expected or not.
Judge(c, passed) ==
    /\ at[c] = "running"
    /\ job' = [job EXCEPT ![c].event =
                  Event(c, job[c].ran[2], passed, IF passed THEN 100 ELSE 40)]
    /\ Goto(c, "recording")
    /\ UNCHANGED <<status, owner, next, prev>>

\* Mutant: the provider is looked up again when the dispatch has failed.
DispatchFailsLookup(c) ==
    /\ at[c] = "running"
    /\ job' = [job EXCEPT ![c].event = Event(c, owner[job[c].ran[1]], FALSE, 0)]
    /\ Goto(c, "recording")
    /\ UNCHANGED <<status, owner, next, prev>>

\* Any other failure, a timeout included, counts against the provider: a
\* registered node always has one.
DispatchFails(c) ==
    /\ at[c] = "running"
    /\ job' = [job EXCEPT ![c].event = Event(c, job[c].ran[2], FALSE, 0)]
    /\ Goto(c, "recording")
    /\ UNCHANGED <<status, owner, next, prev>>

\* challenges.Record has returned, with the event or with an error that the
\* runner logs and an operator is told.
Recorded(c) ==
    /\ at[c] = "recording"
    /\ Returns(c)
    /\ UNCHANGED <<status, owner, next, prev>>

-----------------------------------------------------------------------------

\* Heartbeats, removals, cooldowns after failures and the slots that other
\* requests take, abstracted to what they make of a node: any change may happen.
StatusChanges(n, s) ==
    /\ status[n] \notin {s, "gone"}
    /\ status' = [status EXCEPT ![n] = s]
    /\ UNCHANGED <<owner, next, at, job, prev>>

\* An agent registers, for the provider its token belongs to this time; a
\* registration that is still there is replaced.
Register(n, p) ==
    /\ status[n] = "gone" \/ owner[n] # p
    /\ status' = [status EXCEPT ![n] = "free"]
    /\ owner' = [owner EXCEPT ![n] = p]
    /\ UNCHANGED <<next, at, job, prev>>

Init ==
    /\ status = [n \in Nodes |-> "gone"]
    /\ owner \in [Nodes -> Providers] /\ \A n \in Nodes : owner[n] \in OwnersOf[n]
    /\ next = 0
    /\ at = [c \in Callers |-> "idle"]
    /\ job = [c \in Callers |-> NoJob]
    /\ prev = [list |-> <<>>, target |-> 0]

CallerStep(c) ==
    \/ Snapshot(c) \/ nextSyntheticChallengeProvider(c)
    \/ \E n \in Nodes : Reserve(c, n)
    \/ NoNode(c) \/ Retry(c) \/ DispatchFails(c) \/ Recorded(c)
    \/ \E passed \in BOOLEAN : Judge(c, passed)

\* startChallengeRunner: the ticker fires again and again.
startChallengeRunner ==
    Begin(Runner, RunnerAsk) \/ BeginFails(Runner, RunnerAsk) \/ CallerStep(Runner)

adminRunChallenge(c) ==
    \/ \E ask \in Asks : Begin(c, ask) \/ BeginFails(c, ask)
    \/ CallerStep(c)

Next ==
    \/ startChallengeRunner
    \/ \E c \in Operators : adminRunChallenge(c)
    \/ \E n \in Nodes, s \in {"gone", "busy", "free"} : StatusChanges(n, s)
    \/ \E n \in Nodes : \E p \in OwnersOf[n] : Register(n, p)

\* The runner is a goroutine of its own and every call has a timeout; nothing
\* is assumed of operators and nodes.
Spec == Init /\ [][Next]_vars /\ WF_vars(startChallengeRunner)

-----------------------------------------------------------------------------
(* Properties.                                                             *)

\* An event is about the provider whose node was asked, also when the node
\* has been registered for another one since, and a challenge that was aimed
\* at a provider is never counted for another.
RightProviderJudged ==
    \A c \in Callers : at[c] = "recording" =>
        /\ job[c].event.provider = job[c].ran[2]
        /\ job[c].target # 0 => job[c].event.provider = job[c].target

Lists == {sorted(S) : S \in SUBSET Providers \ {{}}}

\* The candidate after p, the first one after the last.
After(list, p) ==
    LET i == CHOOSE k \in 1..Len(list) : list[k] = p
    IN  list[(i % Len(list)) + 1]

\* As long as the callers choose from the same list they take turns: each
\* choice is the one after the last choice, whoever made that and whatever
\* happened between the snapshot and the lock.
TakesTurns ==
    [][\A c \in Callers :
          at[c] = "picking" /\ at'[c] = "dispatching" /\ job[c].list = prev.list =>
              job'[c].target = After(prev.list, prev.target)]_vars

\* Whatever calls and lists came before: once all choices are made from one
\* list and the providers on it stay, each of them is chosen again and again.
EveryCandidateChallenged ==
    \A list \in Lists :
        <>[](/\ challengeProviderCandidates(challengeModel(RunnerAsk),
                                            challengeTier(RunnerAsk)) = list
             /\ prev.list = list)
          => \A i \in 1..Len(list) : []<>(prev.target = list[i])

=============================================================================
