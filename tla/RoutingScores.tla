--------------------------- MODULE RoutingScores ---------------------------
(***************************************************************************)
(* How reputation reaches routing.  The refresher's ticker and every GET   *)
(* /admin/reputation take four snapshots one after the other (market,      *)
(* settlement, challenges, registry), build a report from them and replace *)
(* the scores of the registry.  Nothing is locked across these steps, so   *)
(* the parts of a report need not belong together and an old report may    *)
(* replace a newer one.  The sources themselves are in Accounts, Ledgers   *)
(* and Scheduler; here they only change.                                   *)
(***************************************************************************)
EXTENDS Reputation, ChallengeEvents, FiniteSets

CONSTANTS
    Providers,      \* providers the market and the ledgers may know
    Nodes,
    Views,          \* what the registry may show of a node; an agent without a
                    \* provider ID is registered under its node ID
    Balances,       \* what the settlement ledger may hold of a provider, in order
    Verdicts,       \* what a challenge may record
    Refresher,      \* the goroutine of startReputationRefresher
    Requests,       \* requests of GET /admin/reputation
    MaxChallenges,  \* bound on the challenges that are recorded
    None

Reporters == {Refresher} \cup Requests

ASSUME RoutingScoresAssumption ==
    /\ Challenged = Providers
    /\ \A v \in Views : v.provider \in Providers \cup Nodes
    /\ Refresher \notin Requests /\ MaxChallenges \in Nat

VARIABLES
    account,    \* the market: "unknown", "active" or "disabled"
    balance,    \* position in Balances of each provider, 0 for no event
    verdicts,   \* the challenge ledger
    nodes,      \* Registry.nodes
    scores,     \* Registry.providerScores
    at,         \* the snapshot each reporter takes next
    seen        \* the snapshots it has taken, and the report made of them

sources == <<account, balance, verdicts, nodes>>
vars    == <<account, balance, verdicts, nodes, scores, at, seen>>

NothingSeen == [account |-> None, balance |-> None, summary |-> None, report |-> None]

-----------------------------------------------------------------------------
(* Build.                                                                  *)

nodesOf(ns, p) == {n \in Nodes : ns[n] # None /\ ns[n].provider = p}

NoBalance == [events |-> 0, tokens |-> 0, penalty |-> 0]

\* A name that only the registry knows has no account, balance or challenges.
providerItem(acc, bal, sum, ns, p) ==
    LET known == p \in Providers
        paid  == IF known /\ bal[p] # 0 THEN Balances[bal[p]] ELSE NoBalance
        tried == IF known THEN sum[p] ELSE NoSummary
        mine  == nodesOf(ns, p)
    IN  [disabled   |-> known /\ acc[p] = "disabled",
         events     |-> paid.events,
         tokens     |-> paid.tokens,
         penalty    |-> paid.penalty,
         challenges |-> tried.challenges,
         passRate   |-> passRateBPS(tried),
         score      |-> tried.score,
         total      |-> Cardinality(mine),
         healthy    |-> Cardinality({n \in mine : ns[n].healthy}),
         cooldown   |-> Cardinality({n \in mine : ns[n].cooldown}),
         streak     |-> FoldSet(LAMBDA n, k : ns[n].streak + k, 0, mine)]

\* A report lists whoever one of its sources knows.
Reported(acc, bal, sum, ns) ==
    {p \in Providers : acc[p] # "unknown" \/ bal[p] # 0 \/ sum[p] # NoSummary}
      \cup {ns[n].provider : n \in {m \in Nodes : ns[m] # None}}

Build(acc, bal, sum, ns) ==
    [p \in Reported(acc, bal, sum, ns) |-> score(providerItem(acc, bal, sum, ns, p))]

-----------------------------------------------------------------------------
(* reputationReport and applyProviderScores.                               *)

StageAfter ==
    [market |-> "settlement", settlement |-> "challenges", challenges |-> "registry",
     registry |-> "apply", apply |-> "market"]

Advances(r) == at' = [at EXCEPT ![r] = StageAfter[@]]

SnapshotMarket(r) ==
    /\ at[r] = "market"
    /\ seen' = [seen EXCEPT ![r].account = account]
    /\ Advances(r)
    /\ UNCHANGED <<sources, scores>>

SnapshotSettlement(r) ==
    /\ at[r] = "settlement"
    /\ seen' = [seen EXCEPT ![r].balance = balance]
    /\ Advances(r)
    /\ UNCHANGED <<sources, scores>>

SnapshotChallenges(r) ==
    /\ at[r] = "challenges"
    /\ seen' = [seen EXCEPT ![r].summary = summaries(verdicts)]
    /\ Advances(r)
    /\ UNCHANGED <<sources, scores>>

\* The last snapshot; the report is built from local values only.
SnapshotRegistry(r) ==
    /\ at[r] = "registry"
    /\ seen' = [seen EXCEPT ![r] = [NothingSeen EXCEPT
                  !.report = Build(seen[r].account, seen[r].balance, seen[r].summary, nodes)]]
    /\ Advances(r)
    /\ UNCHANGED <<sources, scores>>

\* Mutants: the new scores are added to the old ones; only better ones count.
SetProviderScoresAdded(r) ==
    /\ at[r] = "apply"
    /\ scores' = [p \in DOMAIN scores \cup DOMAIN seen[r].report |->
                    IF p \in DOMAIN seen[r].report THEN seen[r].report[p] ELSE scores[p]]
    /\ seen' = [seen EXCEPT ![r] = NothingSeen]
    /\ Advances(r)
    /\ UNCHANGED sources

SetProviderScoresBetter(r) ==
    /\ at[r] = "apply"
    /\ scores' = [p \in DOMAIN seen[r].report |->
                    IF p \in DOMAIN scores /\ scores[p] > seen[r].report[p]
                    THEN scores[p] ELSE seen[r].report[p]]
    /\ seen' = [seen EXCEPT ![r] = NothingSeen]
    /\ Advances(r)
    /\ UNCHANGED sources

\* The scores of the report replace all that were there.
SetProviderScores(r) ==
    /\ at[r] = "apply"
    /\ scores' = seen[r].report
    /\ seen' = [seen EXCEPT ![r] = NothingSeen]
    /\ Advances(r)
    /\ UNCHANGED sources

\* What dispatch goes by; a provider without a score is taken for average.
providerScoreLocked(p) == IF p \in DOMAIN scores THEN scores[p] ELSE 70

-----------------------------------------------------------------------------
(* The sources change.                                                     *)

CreateProvider(p) ==
    /\ account[p] = "unknown"
    /\ account' = [account EXCEPT ![p] = "active"]
    /\ UNCHANGED <<balance, verdicts, nodes, scores, at, seen>>

\* There is no way back.
DisableProvider(p) ==
    /\ account[p] = "active"
    /\ account' = [account EXCEPT ![p] = "disabled"]
    /\ UNCHANGED <<balance, verdicts, nodes, scores, at, seen>>

RecordSettlement(p) ==
    /\ balance[p] < Len(Balances)
    /\ balance' = [balance EXCEPT ![p] = @ + 1]
    /\ UNCHANGED <<account, verdicts, nodes, scores, at, seen>>

\* The runner, an operator's run or adminRecordChallenge.
RecordChallenge(v) ==
    /\ Len(verdicts) < MaxChallenges
    /\ verdicts' = Append(verdicts, challengeBody(v))
    /\ UNCHANGED <<account, balance, nodes, scores, at, seen>>

\* Registrations, heartbeats, removals and failures, abstracted to what a
\* snapshot shows of a node: any change may happen.
NodeChanges(n, view) ==
    /\ nodes[n] # view
    /\ nodes' = [nodes EXCEPT ![n] = view]
    /\ UNCHANGED <<account, balance, verdicts, scores, at, seen>>

Init ==
    /\ account \in [Providers -> {"unknown", "active"}]
    /\ balance = [p \in Providers |-> 0]
    /\ verdicts = <<>>
    /\ nodes = [n \in Nodes |-> None]
    /\ scores = Build(account, balance, summaries(verdicts), nodes)
    /\ at = [r \in Reporters |-> "market"]
    /\ seen = [r \in Reporters |-> NothingSeen]

adminReputation(r) ==
    SnapshotMarket(r) \/ SnapshotSettlement(r) \/ SnapshotChallenges(r)
      \/ SnapshotRegistry(r) \/ SetProviderScores(r)

Next ==
    \/ \E r \in Reporters : adminReputation(r)
    \/ \E p \in Providers : CreateProvider(p) \/ DisableProvider(p) \/ RecordSettlement(p)
    \/ \E v \in Verdicts : RecordChallenge(v)
    \/ \E n \in Nodes, view \in Views \cup {None} : NodeChanges(n, view)

\* The ticker goes on, and a handler that has begun a report applies it: no
\* step of it waits for anything but a mutex.  Only adminReputation changes at.
Fairness ==
    /\ WF_at(Advances(Refresher))
    /\ \A r \in Requests : WF_at(at[r] # "market" /\ Advances(r))

Spec == Init /\ [][Next]_vars /\ Fairness

-----------------------------------------------------------------------------
(* Properties.                                                             *)

Current == Build(account, balance, summaries(verdicts), nodes)

\* Once the sources stop changing, routing goes by the scores they make for
\* good: reports that were under way, and mixed what was never true together,
\* do not survive.
ScoresCatchUp == <>[][UNCHANGED sources]_sources => <>[](scores = Current)

\* A disabled provider ends up with the lowest score and stays there, however
\* often its nodes, balances and challenges change and whatever older reports
\* are still to be applied.
DisabledSinks ==
    \A p \in Providers :
        account[p] = "disabled" ~> [](providerScoreLocked(p) = 0)

=============================================================================
