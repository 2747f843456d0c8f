# A TLA+ model of mi's coordinator and node agent

mi routes OpenAI-style requests from consumers to inference nodes that
providers run at home. A *coordinator* authenticates consumers, reserves their
quota, picks a node, forwards the request over the node's WebSocket, bills what
was used and appends a settlement event to a hash chain. A *node agent* keeps
one WebSocket to the coordinator, reports its load and runs the requests it is
given. This directory holds TLA+ models of both, the TLC runs that check them on
small instances and TLAPS proofs of the results that matter most.

    tlc -workers 2 -config MCChatRetry.cfg MCChatBilling   # one run
    tlapm ChatBillingProofs.tla                            # the proofs of a module

## 1. The system

| component | state it keeps | operations | where |
|---|---|---|---|
| chat, streaming and embedding handlers | per request: reservation, claimed key, result | quota gate, `Begin`, reserve, dispatch, `RecordReserved`, settle, `Complete`/`Abort`, answer | `coordinator/cmd/coordinator/main.go` |
| idempotency store | SQLite table of keys: in progress / completed, created_at | `Begin`, `Complete`, `Abort` | `internal/idempotency/store.go` |
| city market, usage and quota | `reservedUse` (memory only), `consumerUse`, `providerUse` (saved) | `CheckConsumerQuota`, `ReserveConsumerQuota`, `ReleaseReservation`, `RecordReserved` | `internal/city/market.go` |
| city market, accounts | accounts, plain and hashed secrets, the store, the configuration file | create, rotate, disable, restart | `internal/city/market.go` |
| node registry and dispatch | `Registry.nodes`: connection, active count, heartbeat age, cooldown | `Register`, `Heartbeat`, `Remove`, `RemoveProvider`, the dispatch loop | `internal/scheduler/registry.go` |
| node connection | pending channels, two mutexes, the socket | `SendInference`, `SendEmbedding`, `deliver`, `Close`, the read loop | `coordinator/cmd/coordinator/main.go` |
| node agent | the session, `active`, request goroutines | `run`, `readLoop`, heartbeats, request handlers | `node-agent/cmd/node-agent/main.go` |
| node enrolment and removal | the handler's stage, the registry | `AuthenticateProvider`, `EnforceProviderPrivacy`, `Register`; `adminDisableProvider` in two steps | `main.go`, `internal/city/market.go` |
| settlement ledger | events and last hash in memory; SQLite table or JSONL file | `New`, `Record`, `Verify`, balances | `internal/settlement/ledger.go` |
| challenge ledger | events and last hash in memory; JSONL file | `New`, `Record`, `Verify`, summaries | `internal/challenge/ledger.go` |
| synthetic challenge runner | the rotation index `nextChallengeProvider` | list candidates, pick one, dispatch, record the verdict; from a ticker and from operators | `main.go` |
| reputation refresher | the registry's `providerScores` | four snapshots, `Build`, `SetProviderScores` | `internal/reputation`, `main.go`, `registry.go` |
| privacy tiers, model catalog | none | pure functions | `internal/privacy`, `internal/modelcatalog` |
| backends, configuration, dashboard, metrics | none of their own | I/O and read-only views | several |

How they interact. Every HTTP request and every node session has a goroutine of
its own. A request's goroutine calls the market, the idempotency store, the
registry, a node connection and the ledger one after the other; each takes its
own lock or transaction, and nothing spans two of them. A session's goroutine
registers its node, delivers messages into the channels of waiting requests and
unregisters the node when it ends, possibly after the agent has registered
again. Operators create, rotate and disable accounts at any time. Two tickers
run beside them: one challenges providers and records verdicts, the other turns
accounts, balances, verdicts and node states into the scores that dispatch ranks
by; operators can start both by hand. A crash may fall between any two of these
steps; reservations, registrations, scores and the rotation index die with the
process, the stores survive it.

What is hard, in short: four stores without a common transaction; claims that
expire while their owner runs; releases keyed by node ID rather than by session;
a count of active requests that two processes keep and one overwrites; channels
that fill up under a mutex; appends that fail half-way; checks of a provider
that is disabled before its node is registered; an index into a list that was
taken before the lock; reports made of snapshots that never were true together.
`PROJECT.json` lists
every hazard with its line and the properties aimed at it.

## 2. Modules

Each component has a module with its state, its actions and its properties. An
`MC*` module and its `.cfg` files give it small constants. The theorems of a
component are in a `*Proofs` module that extends it. Operators commented
"Mutant" are deliberately wrong versions of the definition that follows them; no
specification uses them. Substituted for that definition they must make TLC
find the property named in `PROJECT.json` violated, which shows that the
property depends on the code.

**ChatBilling** models handlers, idempotency store and market usage together,
because the properties are about what they leave in one another. `pc[r]` is the
place of request r's goroutine; every action is the code between two accesses to
shared state. The four shared things are `reserved` and `usage` (the market's
memory), `saved` (the city database), `row` (the key table) and `ledger`. Every
store write may fail where the code handles an error: a failed save of the usage
or of the settlement event is only logged, a failed `Abort` is ignored, a failed
`Complete` answers 500. `Crash` loses all goroutines and reservations and
reloads `usage` from `saved`. Dispatch is a single step here; its inside is
Scheduler. Histories (`billed`, `reclaims`, `lostSave`, `botched`) record what
properties speak of and no guard reads them.

**Scheduler** models the registry, the lifecycle of sessions and the dispatch
loop: pick, send, wait, `release`, record, try another node. A session is one
connection of an agent; several may name the same node ID. The cost function
only ranks candidates, so any candidate may be picked. `target` is the provider
filter of challenges. Of the channels in NodeConn it keeps which requests have a
full one (`full`), because `Close` waits for room: `Remove` and `RemoveProvider`
then stand with `Registry.mu` and `nodeConn.mu` held (`removing`), and everything
that needs one of them waits (`RegistryFree`, `Closing`). A request reads its
channel only in the select (`pc = "wait"`), not while it writes to its client
("sink") and not after it has left the loop ("unregister"). `reported` is a
history, the count in the last heartbeat of a registration.

**NodeConn** opens one session up: the channel of every request, `nodeConn.mu`
and `Registry.mu`, the read loop, and `Close` as it is called by the handler
(twice) and by `RemoveProvider`. `Cap` stands for the capacity 128. **Answers** is
the abstract specification, what a caller of `SendInference` may rely on: chunks
sent, whether the node has finished, chunks passed on to the client, and the
call's outcome, with no channel, lock or socket. NodeConn implements it with
`sent <- nodeSent`, `finished <- nodeFin`, `passed <- got` and `outcome <- res`.

**NodeAgent** composes the agent with the coordinator's count of its active
requests: the sessions' two message queues, the read loop's capacity check, the
goroutine of each request, the heartbeat loop in its two steps (load the
counter, write the message). What the coordinator's handler does when it returns,
`Remove` and then `Close`, is one step here, as no count depends on what is
between them; Scheduler and NodeConn have both.

**Ledgers** models both ledgers, `kind` saying which one and with which store. A
hash is the sequence of everything hashed so far: SHA-256 without collisions.
The JSONL file is a sequence of lines that may lack their newline or hold a
fragment. What is computed from the events is in modules of operators:
**Settlement** (debits, rewards, penalties, balances), **ChallengeEvents**
(clamped marks, running means, pass rates) and **Reputation** (`score`).
**AppendLog** is the abstract specification, a list that only grows; Ledgers
implements it with `log <- bodiesOf(published)`, the bodies of the chain that
could be read last. An entry whose writer was told of an error may still appear
after a restart, at most one of them; nothing that was shown disappears.

**Accounts** models consumers and providers, their secrets in memory, the store
and the merge with the configuration at every start. Here and in ChatBilling a
store is configured (`sqlite_path` or `usage_store_path`). Without one, as in
configs/coordinator.yaml, `persistLocked` returns success and saves nothing
(market.go:785-787): usage and admin changes are gone after a restart, and
`UsageCoversSettlement`, `DisabledStaysOut`, `RotatedOutForGood` and
`CurrentSecretWorks` then hold between two starts only.

**Privacy** holds the modes and tiers and their normalisation. **Enrollment**
composes Accounts with the `nodeWebSocket` handlers up to their read loop and
with the registry: authenticate, narrow the tiers, register, and on the other
side disable the account, then remove its nodes. Each is a step of its own and
nothing is locked between them. `removed` and `slipped` are histories. Provider
tokens are required; without them the market lets every agent in.

**Challenges** models `runSyntheticChallenge`, which the runner and operators
call concurrently: snapshot of the candidates, the index under its lock,
dispatch with retries, verdict, record. Nodes come, go, fill up and change hands
in between. Providers and models are numbers in the order of their names, since
the candidate list is sorted; 0 is the empty name. A registered node always has
a provider, because `AuthenticateProvider` falls back to the node ID. `prev` is a
history.

**RoutingScores** models the refresher and `GET /admin/reputation`: a snapshot
each of the market, the settlement ledger, the challenge ledger and the
registry, then `SetProviderScores` with the report made of them; between any two
of these steps everyone else may run. The four sources only change here; how they do is in their modules.

Scheduler refines the step `DispatchSucceeds`/`DispatchFails` of ChatBilling, and
NodeConn the steps `Send` to `Return` of Scheduler. These two relations are stated
here and not checked; see the plan. Answers is what Scheduler takes from NodeConn:
output only while the call runs, and success only when it is complete.

## 3. Runs

| run | instance | what it shows |
|---|---|---|
| chat_billing | 2 requests of six kinds, 1 crash, stores may fail, fair goroutines | `ReservationsExact`: the reserved tokens are exactly what running requests hold. `UsageCoversSettlement`: the usage accounts never fall behind the ledger unless a crash lost an unsaved record. `EveryRequestAnswered`, `ReservationsDrain`: every request ends with an answer and its reservation given back, except those whose Dispatch never returns. Also `BillingInv`, the inductive invariant of the proofs |
| chat_retry | 3 requests of one limited account, two kinds, one key, 1 crash, stores may fail | `QuotaBound`: the limit is exceeded by at most `Overshoot` per billed request. `ChargesBounded`: a key is charged once, plus once per takeover of a stale claim. `OneAnswerPerKey`, `CompletedIsFinal`: what replays return. `NoOrphanClaim`: a claim is left behind only by a crash or a failed store write |
| chat_once | 2 attempts, one key, nothing fails | finding 1: two charges for one key |
| failover | 1 request or challenge, 2 nodes of 1 slot, 3 sessions, fair goroutines | `OneNodePerAnswer`: no output of two nodes in one answer. `NodeTriedOnce`. `PrivacyKept`: tier and target hold when the request is sent. `SlotsNotLeaked`: no path keeps a slot; a count exceeds what the last heartbeat reported by at most the requests that hold one. `RoutableIsOpen`: the registry never holds a closed connection. `EveryDispatchEnds`: a dispatch ends unless, for ever, its context is not done and its node is silent or goes on, its client does not read, or a `Close` that waits for room holds it up |
| node_conn | 2 requests, 2 chunks, capacity 2 | `StreamInOrder`: nothing is lost, repeated or reordered for a pending request. `ImplementsAnswers`: the connection implements Answers, so a call that returns nil has passed on everything its node sent, and none passes anything on after it has returned. `NobodyStranded`: nobody waits on a dead connection |
| embed_live | 2 requests of one message, capacity 3, fair goroutines | `WaiterReturns`: a waiting request returns as long as no channel is full |
| node_conn_hang | 1 request, capacity 2, fair goroutines | finding 2: a request that never returns |
| ledgers | settlement in SQLite, settlement in JSONL, challenges; 3 writes, 2 faults | `ImplementsLog`: whatever fails, a chain that is accepted extends every chain that was shown. `ChainValid`, `SqliteRestarts`. `DebitsCoverRewards`, `AveragesInRange`: the rounded arithmetic of balances and summaries. `FailureNeverHelps`: a failed challenge does not raise a score |
| enrollment | 1 consumer and 2 providers, some configured, 1 agent, saves may fail, restarts | `DisabledStaysOut`, `RotatedOutForGood`, `CurrentSecretWorks`, and `AccountsInv`, the inductive invariant. `DisabledNotRouted`: after `adminDisableProvider` answered, no node of the provider is routed to, except one that had passed its last check. `TiersWithinPolicy` |
| challenges | the runner and 1 operator, 2 nodes, one changing hands between 2 providers | `RightProviderJudged`: an event is about the provider that was asked. `TakesTurns`: picks from the same list go round. `EveryCandidateChallenged`: with a stable list, every provider again and again |
| routing_scores | the refresher and 1 request, 1 provider, 1 node | `ScoresCatchUp`: mixed and late reports do not survive. `DisabledSinks`: a disabled provider ends at the lowest score even if everything else keeps changing |
| node_agent | 2 requests, 1 slot, 2 sessions, fair | `CoordinatorKeepsLimit`: without timeouts, heartbeats and reconnections the coordinator's count suffices. `AnswersOnOwnSession`. `SlotsRecover`: heartbeats repair the count in the end |

Bounds, and why they are enough:

- *Requests* (2 or 3): the races are between two requests for a row, a slot, a
  channel or a limit. The third in chat_retry is the one that replays or takes
  over what two others left. Limit 4 fits two estimates of 2 and not three.
- *MaxEstimate*, *Overshoot*: tokens matter only by comparison with the limit;
  1 and 2 tokens and an overshoot of 1 give every order. The proofs have no bound.
- *MaxCrashes* = 1: the stores a second crash would find are stores a first one
  can find.
- *MaxReported* = 0 in failover: with a single request a full node is one that
  cannot be picked, and a heartbeat that reports 0 while the request is counted
  is the stale one that could make `release` go wrong. Two requests for one slot
  are in node_agent.
- *Sessions*: two of one node show every race between an old handler and a new
  registration.
- *Cap* (128 in the code) only matters relative to the number of messages; 2
  with up to four messages fills up, 3 with at most one chunk-free answer and
  the errors of two closers is full only rarely.
- *MaxWire* = 1 or 2 messages to the coordinator: one delayed heartbeat is what
  makes a count stale.
- *MaxWrites* = 3, *MaxFaults* = 2: a damaged line, an append after it and one
  more; two crashes, or a failed write and a crash.
- *MaxIssued* = 2: the current secret and one that was rotated out. One agent is
  enough for every order of its handler's steps and the admin's; it may hold a
  secret of either provider and come back after a restart.
- *Challenges*: candidate lists of length 0, 1 and 2, so that the index is reset
  when the list shrinks and both callers pick between the other's snapshot and
  pick. The index is bounded by the list.
- *MaxChallenges* = 1 and one balance: each source changes at least once while
  both reporters are between two snapshots; nodes change without a bound.

Symmetry is used for requests in chat_retry and node_conn, which check safety
only, and in no run with liveness. Deadlock is checked except where the modelled
system stops: NodeConn when connection and requests have ended, Ledgers when
the writes are used up or a restart was refused. The type invariants are part of
the inductive invariants of section 4; the runs check those of ChatBilling
(`BillingInv`) and Accounts (`AccountsInv`), and the proofs the others. Those of
Enrollment and Challenges are in their `*Proofs` modules; RoutingScores, about
which nothing is proved, has none.

Fairness, and what justifies it. Goroutines that can run do run (weak fairness of
handler and dispatch steps); where they share a mutex or a select, Go passes none
of them over for ever (strong fairness of the dispatch steps in Scheduler and of
the steps that share a socket in NodeAgent). Writing to a node's socket returns.

A context being done, a node answering, a client reading or a dispatch returning
is not assumed in Scheduler and ChatBilling: `scheduler.request_timeout` is off
unless configured, and even with it a request can hang (finding 2). What may hold
a dispatch up for ever is written into `EveryDispatchEnds` as three alternatives,
and the run fails when any of them is dropped. `EveryRequestAnswered` and
`ReservationsDrain` leave out exactly the requests that stay in Dispatch. Only
embed_live assumes that contexts end, so it is about coordinators with a timeout;
its `WaiterReturns` also asks that no channel is full.

In NodeAgent the heartbeat ticker fires and the backend answers. The challenge
runner is a goroutine of its own whose every call ends by `challengeTimeout` (30 s
unless configured), and its output goes to memory, so that it always reads its
channel until then: weak fairness of its steps. A reputation report waits for
nothing but mutexes, and the refresher's ticker goes on: weak fairness of both
reporters' steps, and none that a request is ever made. Challenges and
RoutingScores thereby assume that no `Close` holds `Registry.mu` for ever; with
finding 2 they stop like everything else that needs it. Nothing is assumed of
clients, networks, crashes, nodes or operators.

## 4. Proofs

Every safety property that a run checks is a theorem of a `*Proofs` module, for
all values of the constants that satisfy the module's assumptions. For each module one invariant is shown to be inductive: it
holds initially, each action keeps it (one step of the proof per action), and the
properties follow from it. TLC checked every inductive invariant on the instance
of the component's run before it was proved. The bounds of the runs are constants
here, so the results hold for any of them.

**ChatBillingProofs**: for any finite, non-empty set of requests, any accounts,
keys, jobs, limits and number of crashes (`BillingAssumption`), `BillingInv` is an
invariant (`BillingInvariant`). None of the properties is inductive by itself.
`CoreInv`, which is inductive without the rest, gives `TypeCorrect`,
`ReservationsAreExact`, `QuotaIsBounded` and `ChargesAreBounded`:

- `ReservationHeld`: a request holds its whole estimate exactly between reserve
  and release or record. Without it a release could return another amount than
  was added, and `ReservationsExact` would not survive the step. Exactness in
  turn makes the clamp in `releaseReservationLocked` harmless.
- `WorkBounded`: what is recorded is within `Overshoot` of the estimate, which
  was reserved; so `RecordReserved` trades reserved for used tokens and
  `QuotaBound` survives.
- `SavedBound`: the same bound for the database, for the step `Crash`.
- `BilledPlace`, `ClaimsCounted`, `AbortKeyed`: every request that holds a claim
  of a key or was billed for it is paid for by the key's row or by a takeover.
  `Begin` adds a claimant only with one of them; `Abort` removes the row and a
  claimant that cannot have been billed; hence `ChargesBounded`.

On top of it, `BilledBefore` says that a completion is billed before anyone gets
it. Together with `ChargesBounded` (one charge if there was no takeover) it gives
`OneAnswer`. `NoOrphanClaim` is inductive given `CoreInv` (`ClaimsHaveOwners`).
`StoredResponsesStay` proves the action property `CompletedIsFinal`: a `Complete`
on a completed row needs a second claimant, which `ClaimsCounted` only allows after
a takeover. `SettlementDue` counts the event of a request between
`RecordReserved` and `settlement.Record` as if it were recorded already; without
that the step `RecordSettlement` could overtake the usage (`UsageIsSettled`). Sums
of tokens are cardinalities of sets of pairs, one pair per token, for which lemmas
about adding and removing pairs are enough.

**AccountsProofs**: `AccountsInv` for any accounts and configuration
(`AccountsAssumption`), and from it `DisabledAccountsStayOut`,
`RotatedSecretsStayOut` and `CurrentSecretsWork`. The strengthening says that
secrets are numbered below the next one to be issued (a generated secret is
new), that the store already knows what was disabled and rotated out, and that
what an admin was last given would survive a crash now.

**EnrollmentProofs**: `ImplementsAccounts` shows step by step that the composition
is an Accounts specification, so that everything proved of Accounts holds in it
(`SecretsInComposition`). `EnrollInv` adds that a provider that is being removed
is dead in the store (so no handler passes its last check for it any more), that
a handler which had passed it is known as `slipped`, that a registration stands
under its own agent's node ID, and that the last check left a tier. From it
`DisabledProvidersNotRouted` and `TiersAreWithinPolicy`, the latter through lemmas
about the normalisation of tiers in Privacy.

**SchedulerProofs**: `SchedulerInv` for any nodes, sessions (none of them called
"none", which stands for a missing one), requests, tiers and slots. `AnswerOK`:
before output was seen there is none, so a dispatch that goes on to another node
has sent nothing. `TriesOK`: every attempt but the current one is paid for by a
node in `tried`, which bounds attempts by the number of nodes. `ChosenOK`: tier
and target of the session that was reserved, not of what the node ID names now.
`RegistrationOK`: a registration belongs to a session whose handler still runs and
will remove it, and a handler that waits inside `Remove` is waiting for its own
node ID, without which `RoutableIsOpen` would not survive a `Remove` that had to
wait (`AwaitingKeeps` is about its beginning). `SlotsNotLeaked` is inductive with
the types: `reserve` adds a holder, `release` removes one and takes one from the
count unless it is 0, and a heartbeat sets the count to what it reports.
Theorems: `AnswersFromOneNode`, `OneAttemptPerNode`, `PrivacyIsKept`,
`RegistryHoldsOpenConnections`, `NoSlotLeaks`.

**NodeConnProofs**: `ConnInv` for any requests, any capacity above 0 and streams of
any length. `StreamOf`: the chunks in a channel follow what was passed on, in
order, and without gap while the request is pending. `DoneOf`: nothing of the
stream follows a done message, and all of it is in front unless the error of
Close comes first; so a client that reaches the done message has everything, even
when it was dropped from the map meanwhile and later chunks were thrown away.
`WakeOf`: whoever receives has a pending entry or the error of Close in its
channel, in the middle of Close too. `LockOK`: who holds `nodeConn.mu` and
`Registry.mu`, and that a handler on its way out has closed the socket or left it
to a newer session. The proofs rest on lemmas about sending to and receiving from
a channel (`SendOther`, `SendChunk`, `SendGone`, `Taken`). Theorems:
`StreamsAreInOrder`, `NoTruncatedSuccess`, `NobodyIsStranded`, and
`ConnectionImplementsAnswers`, the refinement of Answers. Its step simulation
(`CallerStep`) has one case per action: reading a message is `Send` or `Finish`, receiving one
is `Pass`, `Succeed` or `Fail`, leaving on an error or a timeout is `Fail`, and all
the rest, Close and its locks included, stutters. Two facts carry it: a call that has
not left its loop has no outcome (`OutcomeOK`, an invariant of its own), and nothing
is passed on that was not sent, and after a success nothing is missing (`CallerOK`,
which follows from `ConnInv` and is used in the state after the step).

**NodeAgentProofs**: `AgentInv` for any requests, sessions and slots. `WireOK`: a
request is in one place, in a queue to the agent, a goroutine, or an answer on the
wire, always of the session it was sent on. `CountOK`: until a heartbeat, a timeout
or a reconnection makes the counters differ, the registry's count is the number of
calls, and everything that is queued or being worked on has a call that waits.
Theorems: `LimitIsKept`, `AnswersStayOnTheirSession`.

**LedgersProofs**: `LedgersInv` for any inputs, prices, number of writes and
faults. `DiskOK` is the heart: the disk holds the chain that was shown, or that
and one event more, or damage that every later start refuses and no later write
repairs. `SqliteOK` excludes the damage for the SQLite store. Theorems:
`ChainStaysValid`, `SqliteAlwaysRestarts`, and `LedgersAppendOnly`, the refinement
of AppendLog: initial states map to initial states and every step appends to the
abstract list or leaves it alone; a start appends the event that a failed or
interrupted write left behind.

The other three theorems of the module are about what is computed from a chain, of
any length, and need induction over its events. Consumers and providers are finite
sets and the standings natural numbers (`SettlementAssumption`,
`LedgersAssumption`). The induction is made on sets: a set of naturals that holds 0 and with each number the next one
holds all (`UpTo`, `UpToSet`), hence a set of event sequences that holds the empty
one and is closed under appending an event holds them all (`EventByEvent`). The folds over events are shown to satisfy their one-event-more
equation (`FoldExists` to `FoldOneMore`, then `SummariesAppend` and `BalancesAppend`),
and sums over accounts to change by what one account changes (`SumChanges`).

- `DebitsAreCovered`: a reward and the penalty of the same event never exceed its
  debit although each is rounded by itself (`RewardBounded`, `PenaltyBounded`); so one
  event more keeps the sums in order (`CoveredAppend`).
- `AveragesStayInRange`: a mean that is rounded at every event stays between the old
  mean and the new value (`MeanBetween`), so it never leaves the range of what was
  recorded. The induction needs more than the property: no provider has passed more
  challenges than it had, and one without events has a count of 0, so that its
  first value replaces the initial mean (`SummariesInRange`, `BalancesInRange`).
- `FailuresNeverHelp`: a failure marked no better than the mean raises neither the
  rounded mean (`MeanBetween`) nor the pass rate (`DivByMore`), and the score, clamped
  or not, grows with both (`PointsGrow`, `ScoreFollowsPoints`).

**ChallengesProofs**: `ChallengesInv` for any finite set of nodes, any providers,
models and operators. `CallsOK`: what was reserved for a call stays with it, so the
verdict does not read the registry again. `IndexFollows`: the shared index is the
place after the last choice in the list it was made from; lists have no
duplicates. Theorems: `EventsJudgeTheRightProvider` and the action property
`ChoicesTakeTurns`. That `sorted` lists every element of a finite set once needs an
induction over the size of the set, which is made by looking at a least
counterexample.

Only model-checked:

- all liveness (`EveryRequestAnswered`, `ReservationsDrain`, `EveryDispatchEnds`,
  `WaiterReturns`, `EveryCandidateChallenged`, `ScoresCatchUp`, `DisabledSinks`,
  `SlotsRecover`): fairness and ENABLED are beyond the prover; RoutingScores has
  no other properties. Every safety property and action property of the passing
  runs is proved.

## 5. Findings

1. *A key can be charged twice* (chat_once). docs/idempotency.md:73 promises at
   most one successful charge per key. `Begin` hands out a claim that is older
   than the TTL although its owner may still run, and neither `RecordReserved`
   nor `Complete` asks who holds the claim. `ChargesBounded` is what does hold.
2. *Close can hang a request* (node_conn_hang). `Close` sends to every pending
   channel with `nodeConn.mu` held. When a channel is full and its request has
   left the loop on its timeout, the request waits for that mutex and `Close` for
   room in the channel; the comment at main.go:948 says a stuck node cannot hang
   the client. `WaiterReturns` is what does hold. The request is never answered and
   its reservation never returned; when the `Close` was called by `Remove` or
   `RemoveProvider`, `Registry.mu` stays held and every dispatch, registration and
   heartbeat of the coordinator waits with it. These are the exceptions in
   `EveryDispatchEnds`, `EveryRequestAnswered` and `ReservationsDrain`.

Smaller observations, which no run states:

- A node can exceed `max_concurrent` (docs/metrics.md:41: "Maximum concurrent
  requests accepted by the node."). The agent compares `active` with the limit
  and counts the request later, in its goroutine, and the coordinator may have
  given the slot away after a timeout or a stale heartbeat, or by a release into a
  registration that never counted the request: `SlotsNotLeaked` bounds the count
  from above only.
  `CoordinatorKeepsLimit` is what does hold.
- A streaming client that stops reading makes the channel of its request fill up;
  a `Close` of the node's connection then waits for that client as well, with
  `Registry.mu` held: the same exception in `EveryDispatchEnds`.
- A handler that stands between `EnforceProviderPrivacy` and `Register` while its
  provider is disabled still registers its node, which `RemoveProvider` no longer
  sees: the exception in `DisabledNotRouted`. A node that enters in this way is
  routed to until its session ends. When the save of a disabled account fails,
  the admin gets an error and the provider's nodes stay registered.
- docs/city-network.md:386 says that the runner rotates across eligible
  providers. The index counts positions in a list that changes: a provider that
  is always eligible can be passed over while another one comes and goes in step
  with the ticker, or while operators' runs move the index over another list.
  `EveryCandidateChallenged` therefore asks for one list in the end.
- Without a configured model the runner takes the first model of any healthy
  node, even if no node accepts the tier for it; its challenge then finds no node.
- A failed challenge marked 40 after failures marked 0 raises a score by a few
  points, while docs/depin-settlement.md:224 says failures reduce routing
  priority. `FailureNeverHelps` states the exact condition.
- A late report may bring old scores back until the next refresh.
- A non-retryable failure before the first output sets no cooldown
  (`recordPreTokenTerminalFailure`), while docs/design.md:113 says that nodes
  that fail before first output enter cooldown.
- A secret listed in the configuration is added again at every start unless the
  account is disabled, so rotating it does not revoke it across a restart.
  `RotatedOutForGood` therefore speaks of generated secrets only.
- The account of the legacy `api_keys` is enabled again at every start;
  `DisabledStaysOut` leaves it out.
- After a partial write or a failed sync, a JSONL ledger that is appended to
  again does not verify, and the coordinator refuses to start. No acknowledged
  event is lost; `SqliteRestarts` holds for the other store only.
- A synthetic challenge whose only node fails in a retryable way ends in
  "no node" without a provider and is not recorded.

## 6. Not modelled

- Request decoding, catalog aliases, response formatting and HTTP details other
  than the status: they touch no shared state.
- The cost function, counters and averages of the registry, and grades and notes
  of reputation: they rank and report.
- The model catalog: a stateless alias table; requests arrive resolved.
- Loss of power under SQLite's `synchronous=NORMAL`, and a rename without fsync
  of the JSON city state: a completed write is durable in the models.
- int64 overflow of prices and token estimates: integers are unbounded, so the
  results about quotas and balances hold while sums stay below 2^63. The estimate
  at main.go:1705 adds a client's `max_tokens` without a bound.
- A coordinator without a store for the city state (section 2, Accounts).
- `Record` of the market, which nothing but tests calls.
- Dashboard, metrics, payout export, services, the memory probe and the backends.
- Streaming chunks and the shutdown on a signal in NodeAgent; chunks are in
  NodeConn.

## 7. Plan

Everything that sections 3 and 4 name is in place; no safety property of a passing
run is left unproved. Worth adding: a quota account (reserve, settle, release) as an
abstract specification that ChatBilling implements, and the session of a dispatched
request as one that Scheduler and NodeConn share, so that the two relations at the
end of section 2 are checked as well. Liveness stays with TLC.
