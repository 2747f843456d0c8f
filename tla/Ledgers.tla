------------------------------ MODULE Ledgers ------------------------------
(***************************************************************************)
(* The two ledgers of the coordinator, settlement and challenges: a hash   *)
(* chain kept in memory and on disk, in an SQLite table (settlement with   *)
(* sqlite_path) or in an append-only JSONL file (settlement without it,    *)
(* and challenges).  They share no state and no lock, so a behaviour is    *)
(* about one of them.  Ledger.mu makes Record one step for the other       *)
(* goroutines, but the disk write inside it may fail, fail after it took   *)
(* effect, or be cut short by a crash, and the chain a restart loads is    *)
(* what is on disk.  A chain that does not verify stops the coordinator    *)
(* from starting.                                                          *)
(***************************************************************************)
EXTENDS Settlement, ChallengeEvents, Reputation

CONSTANTS
    Kinds,              \* the ledgers and stores to look at
    Standings,          \* what else a provider's score may rest on
    MaxWrites,          \* bound on the calls of Record
    MaxFaults           \* bound on failed writes and crashes

ASSUME LedgersAssumption ==
    /\ Kinds \subseteq {"settlement_sqlite", "settlement_jsonl", "challenge_jsonl"}
    /\ Standings \subseteq
          [total : Nat, healthy : Nat, cooldown : Nat, streak : Nat, events : Nat,
           tokens : Nat, penalty : Nat]
    /\ MaxWrites \in Nat /\ MaxFaults \in Nat

VARIABLES
    kind,       \* which ledger this is, and its store
    state,      \* "up", "down" (crashed) or "refused" (New failed)
    events,     \* Ledger.events, in memory
    lastHash,   \* Ledger.lastHash
    disk,       \* what is stored
    published,  \* history: the chain that could be read last
    writes,     \* number of calls of Record so far
    faults      \* number of failed writes and crashes so far

vars == <<kind, state, events, lastHash, disk, published, writes, faults>>

-----------------------------------------------------------------------------
(* Events and their hashes.                                                *)

SettlementBodies == {settlementBody(in) : in \in SettlementInputs}
ChallengeBodies  == {challengeBody(in) : in \in ChallengeInputs}

\* The bodies of the events that calls of Record may add.
Bodies == IF kind = "challenge_jsonl" THEN ChallengeBodies ELSE SettlementBodies

genesisHash == <<>>

\* SHA-256 over the event's contents, which include the previous hash: two
\* hashes are equal only if everything up to them is.
hashEvent(e) == Append(e.prev, [index |-> e.index, body |-> e.body])

nextEvent(body) ==
    LET e == [index |-> Len(events) + 1, body |-> body, prev |-> lastHash]
    IN  [index |-> e.index, body |-> e.body, prev |-> e.prev, hash |-> hashEvent(e)]

Verify(chain) ==
    \A i \in 1..Len(chain) :
        /\ chain[i].index = i
        /\ chain[i].prev = IF i = 1 THEN genesisHash ELSE chain[i - 1].hash
        /\ chain[i].hash = hashEvent(chain[i])

lastHashOf(chain) == IF chain = <<>> THEN genesisHash ELSE Last(chain).hash

bodiesOf(chain) == [i \in 1..Len(chain) |-> chain[i].body]

-----------------------------------------------------------------------------
(* The disk: a sequence of lines (or rows).  A line holds the events, or   *)
(* pieces of them, that were written to it, and may lack its newline.      *)

Cut == [index |-> 0]

Line(parts, ended) == [parts |-> parts, ended |-> ended]

\* file.Write on a file opened with O_APPEND: an unfinished last line is
\* continued.
written(part, ended) ==
    IF disk # <<>> /\ ~Last(disk).ended
    THEN Append(Front(disk), Line(Append(Last(disk).parts, part), ended))
    ELSE Append(disk, Line(<<part>>, ended))

readable(lines) ==
    \A i \in 1..Len(lines) :
        Len(lines[i].parts) = 1 /\ lines[i].parts[1] # Cut

chainOf(lines) == [i \in 1..Len(lines) |-> lines[i].parts[1]]

\* Mutant: an insert that reports an error may have taken effect.
damagedAnywhere(e) == {disk, written(e, TRUE)}

\* What a write may leave behind that is cut short or reports an error.  An
\* SQLite statement is a transaction of its own, and event_index is the key.
\* A JSONL line may be written in part, without its newline, or whole when
\* only the sync fails.
damaged(e) ==
    IF kind = "settlement_sqlite" THEN {disk}
    ELSE {disk, written(Cut, FALSE), written(e, FALSE), written(e, TRUE)}

-----------------------------------------------------------------------------

Record(body) ==
    /\ state = "up"
    /\ writes < MaxWrites
    /\ disk' = written(nextEvent(body), TRUE)
    /\ events' = Append(events, nextEvent(body))
    /\ lastHash' = nextEvent(body).hash
    /\ published' = events'
    /\ writes' = writes + 1
    /\ UNCHANGED <<kind, state, faults>>

\* Mutants: the last hash, or the whole chain, is advanced before the write.
RecordFailsAdvanced(body) ==
    /\ state = "up"
    /\ writes < MaxWrites /\ faults < MaxFaults
    /\ disk' \in damaged(nextEvent(body))
    /\ lastHash' = nextEvent(body).hash
    /\ writes' = writes + 1
    /\ faults' = faults + 1
    /\ UNCHANGED <<kind, state, events, published>>

RecordFailsAppended(body) ==
    /\ state = "up"
    /\ writes < MaxWrites /\ faults < MaxFaults
    /\ disk' \in damaged(nextEvent(body))
    /\ events' = Append(events, nextEvent(body))
    /\ lastHash' = nextEvent(body).hash
    /\ published' = events'
    /\ writes' = writes + 1
    /\ faults' = faults + 1
    /\ UNCHANGED <<kind, state>>

\* The write returns an error: the chain in memory stays as it is.
RecordFails(body) ==
    /\ state = "up"
    /\ writes < MaxWrites /\ faults < MaxFaults
    /\ disk' \in damaged(nextEvent(body))
    /\ writes' = writes + 1
    /\ faults' = faults + 1
    /\ UNCHANGED <<kind, state, events, lastHash, published>>

\* The process dies, between calls or in the middle of a write.
Crash ==
    /\ state = "up"
    /\ faults < MaxFaults
    /\ state' = "down"
    /\ events' = <<>>
    /\ lastHash' = genesisHash
    /\ UNCHANGED <<kind, disk, published, writes>>
    /\ faults' = faults + 1

CrashInRecord(body) ==
    /\ state = "up"
    /\ writes < MaxWrites /\ faults < MaxFaults
    /\ disk' \in damaged(nextEvent(body)) \cup {written(nextEvent(body), TRUE)}
    /\ state' = "down"
    /\ events' = <<>>
    /\ lastHash' = genesisHash
    /\ writes' = writes + 1
    /\ faults' = faults + 1
    /\ UNCHANGED <<kind, published>>

\* New: load, verify, and refuse to start on a broken chain.
New ==
    /\ state = "down"
    /\ IF readable(disk) /\ Verify(chainOf(disk))
       THEN /\ state' = "up"
            /\ events' = chainOf(disk)
            /\ lastHash' = lastHashOf(chainOf(disk))
            /\ published' = events'
       ELSE state' = "refused" /\ UNCHANGED <<events, lastHash, published>>
    /\ UNCHANGED <<kind, disk, writes, faults>>

Init ==
    /\ kind \in Kinds
    /\ state = "up"
    /\ events = <<>>
    /\ lastHash = genesisHash
    /\ disk = <<>>
    /\ published = <<>>
    /\ writes = 0
    /\ faults = 0

Next ==
    \/ \E body \in Bodies : Record(body) \/ RecordFails(body) \/ CrashInRecord(body)
    \/ Crash
    \/ New

Spec == Init /\ [][Next]_vars

-----------------------------------------------------------------------------
(* Properties.                                                             *)

Hashes == Seq([index : Nat, body : Bodies])

EventRecords == [index : Nat \ {0}, prev : Hashes, hash : Hashes, body : Bodies]

Lines == [parts : Seq(EventRecords \cup {Cut}), ended : BOOLEAN]

\* The states a ledger can be in; nothing is in memory while it is down.
TypeOK ==
    /\ kind \in Kinds
    /\ state \in {"up", "down", "refused"}
    /\ events \in Seq(EventRecords)
    /\ published \in Seq(EventRecords)
    /\ disk \in Seq(Lines)
    /\ state # "up" => events = <<>>
    /\ writes \in 0..MaxWrites
    /\ faults \in 0..MaxFaults

\* GET /admin/settlement/verify, /admin/challenges/verify and /admin/integrity
\* find a valid chain whenever the coordinator runs: no failed or interrupted
\* write forks or skips an event in memory.
ChainValid ==
    /\ Verify(events)
    /\ state = "up" => lastHash = lastHashOf(events)

Log == INSTANCE AppendLog WITH
           Entries <- SettlementBodies \cup ChallengeBodies,
           log <- bodiesOf(published), status <- state

\* Both ledgers, with all their lines, indices and hashes, implement a list
\* that only grows: whatever writes fail and however often the coordinator
\* restarts, a chain that it accepts extends every chain it ever showed, so
\* an anchor hash that was published stays a hash of the chain.
ImplementsLog == Log!Spec

\* With the SQLite store no crash or failed write can leave a chain that
\* keeps the coordinator from starting again.
SqliteRestarts == kind = "settlement_sqlite" => state # "refused"

\* Rounding never creates money: what providers are owed and what was held
\* back from them is covered by what consumers were debited, and no event
\* pays a negative reward.
DebitsCoverRewards ==
    kind # "challenge_jsonl" =>
        LET cs == balances(bodiesOf(events)).consumers
            ps == balances(bodiesOf(events)).providers
        IN  /\ SumFunction([p \in Providers |-> ps[p].reward + ps[p].penalty])
                  <= SumFunction([c \in Consumers |-> cs[c].debit])
            /\ \A p \in Providers : ps[p].reward >= 0 /\ ps[p].penalty >= 0
            /\ SumFunction([c \in Consumers |-> cs[c].tokens])
                  = SumFunction([p \in Providers |-> ps[p].tokens])

\* avg lies between the smallest and the largest value in seen.
Within(avg, seen) ==
    seen # {} => (\E x \in seen : x <= avg) /\ (\E y \in seen : avg <= y)

\* The bodies recorded for a provider.
recordedFor(p, bodies) == {b \in Range(bodies) : b.provider = p}

\* A provider's summary against the challenges recorded for it.
SummaryWithin(s, mine) ==
    /\ Within(s.score, {b.score : b \in mine})
    /\ Within(s.latency, {b.latency : b \in mine})
    /\ s.score \in 0..100
    /\ 0 <= passRateBPS(s) /\ passRateBPS(s) <= 10000

\* The running means stay between the smallest and the largest value that was
\* recorded for the provider, although they are rounded at every event, and a
\* pass rate is a rate.
AveragesInRange ==
    LET bodies == bodiesOf(events)
    IN  IF kind = "challenge_jsonl"
        THEN \A p \in Challenged :
                SummaryWithin(summaries(bodies)[p], recordedFor(p, bodies))
        ELSE \A p \in Providers :
                Within(balances(bodies).providers[p].latency,
                       {b.latency : b \in recordedFor(p, bodies)})

\* The item Build makes of a provider with the given challenge summary.
WithSummary(standing, s) ==
    [total |-> standing.total, healthy |-> standing.healthy,
     cooldown |-> standing.cooldown, streak |-> standing.streak,
     events |-> standing.events, tokens |-> standing.tokens,
     penalty |-> standing.penalty, disabled |-> FALSE,
     challenges |-> s.challenges, passRate |-> passRateBPS(s), score |-> s.score]

\* A failed challenge does not raise the provider's score, whatever it was
\* before and whatever else the provider stands for, unless the failure was
\* itself given a better mark than the provider's average.
FailureNeverHelps ==
    kind = "challenge_jsonl" =>
        \A i \in 1..Len(events) :
            LET body   == events[i].body
                before == summaries(bodiesOf(SubSeq(events, 1, i - 1)))[body.provider]
                after  == summaries(bodiesOf(SubSeq(events, 1, i)))[body.provider]
            IN  ~body.passed /\ (before.challenges = 0 \/ body.score <= before.score) =>
                    \A st \in Standings :
                        score(WithSummary(st, after)) <= score(WithSummary(st, before))

=============================================================================
