---------------------------- MODULE ChatBilling ----------------------------
(***************************************************************************)
(* How the coordinator bills a consumer request.  Every HTTP request runs  *)
(* in a goroutine of its own through requireConsumerQuota, then            *)
(* chatCompletions / blockingChat / streamChat or embeddings, and touches  *)
(* four shared things, each atomically but never together:                 *)
(*   - the market: reserved tokens (memory only) and usage (memory, saved  *)
(*     to the city database by RecordReserved),                            *)
(*   - the idempotency table (durable),                                    *)
(*   - the settlement ledger (durable).                                    *)
(* The coordinator may crash between any two of these steps.               *)
(***************************************************************************)
EXTENDS Integers, FiniteSets

CONSTANTS
    Requests,       \* HTTP requests, each handled once
    Consumers,      \* consumer accounts
    Providers,      \* provider accounts
    Keys,           \* Idempotency-Key header values
    NoKey,          \* no header, or a header a disabled store ignores
    Jobs,           \* the requests clients may send: a subset of AllJobs
    Limit,          \* consumer.TotalTokenLimit; 0 is "no limit"
    MaxEstimate,    \* bound on a request's estimated tokens
    Overshoot,      \* bound on measured minus estimated tokens of a chat
    StoresMayFail,  \* whether a write to a store may return an error
    MaxCrashes      \* bound on coordinator crashes

Kinds == {"blockingChat", "streamChat", "embeddings"}

AllJobs == [kind : Kinds, cid : Consumers, key : Keys \cup {NoKey},
            est : 0..MaxEstimate]

ASSUME BillingAssumption ==
    /\ IsFiniteSet(Requests) /\ Requests # {}
    /\ Consumers \cap Providers = {}
    /\ NoKey \notin Keys
    /\ MaxEstimate \in Nat
    /\ Jobs \subseteq AllJobs
    /\ Limit \in [Consumers -> Nat]
    /\ Overshoot \in Nat
    /\ StoresMayFail \in BOOLEAN
    /\ MaxCrashes \in Nat

VARIABLES
    pc,        \* where the goroutine of each request stands
    job,       \* what each request asks for; NoJob before it arrives
    rsv,       \* tokens of its *QuotaReservation; 0 is a nil reservation
    work,      \* what Dispatch returned to it: provider and measured tokens
    reply,     \* the status it answers with, and whose completion is the body
    reserved,  \* market.reservedUse
    usage,     \* market.consumerUse and market.providerUse, in memory
    saved,     \* the same two maps in the city database, which is configured
    row,       \* the idempotency_keys table
    ledger,    \* settlement events
    billed,    \* history: requests that executed RecordReserved
    reclaims,  \* history: how often a stale claim was taken over, per key
    lostSave,  \* history: a crash lost usage whose save had failed
    botched,   \* history: requests whose Abort or Complete returned an error
    crashes    \* number of crashes so far

vars == <<pc, job, rsv, work, reply, reserved, usage, saved, row, ledger,
          billed, reclaims, lostSave, botched, crashes>>

\* The parts of the state a handler step leaves alone, by subsystem.
marketVars  == <<reserved, usage, saved>>
historyVars == <<reclaims, lostSave, botched, crashes>>

-----------------------------------------------------------------------------

NoJob   == [kind |-> "none"]
NoWork  == [provider |-> "none", tokens |-> 0]
NoReply == [status |-> "none"]

Accounts   == Consumers \cup Providers
ScopedKeys == Consumers \X Keys
NoUsage    == [requests |-> 0, tokens |-> 0]

\* A row that is not in the table, and a fresh claim of it.
NoRow    == [status |-> "none", stale |-> FALSE, body |-> "none"]
NewClaim == [status |-> "in_progress", stale |-> FALSE, body |-> "none"]

Waiting   == {"reserve", "dispatch", "record", "settle", "complete",
              "release", "abort"}
Running   == {"gate", "begin", "respond"} \cup Waiting
Locations == {"idle", "done", "lost"} \cup Running

\* activeIdemKey # "": only a non-streaming chat with the header claims a key.
Keyed(r)     == job[r].kind = "blockingChat" /\ job[r].key # NoKey
ScopedKey(r) == <<job[r].cid, job[r].key>>

Goto(r, l) == pc' = [pc EXCEPT ![r] = l]

Answer(r, status, body) ==
    /\ reply' = [reply EXCEPT ![r] = [status |-> status, body |-> body]]
    /\ Goto(r, "done")

Refuse(r, status) == Answer(r, status, "none")

-----------------------------------------------------------------------------
(* The market.  Its mutex makes each of these one step.                    *)

\* Mutant: what other requests have reserved is not counted.
quotaWithoutReservations(c, additional) ==
    LET used == usage[c].tokens + additional
    IN  \/ Limit[c] = 0
        \/ additional = 0 /\ used < Limit[c]
        \/ additional > 0 /\ used <= Limit[c]

checkConsumerQuotaLocked(c, additional) ==
    LET used == usage[c].tokens + reserved[c] + additional
    IN  \/ Limit[c] = 0
        \/ additional = 0 /\ used < Limit[c]
        \/ additional > 0 /\ used <= Limit[c]

\* Mutants: the reservation is not cleared; the account's whole entry is
\* deleted.
releaseKeepsReservation(r) ==
    /\ UNCHANGED rsv
    /\ reserved' = [reserved EXCEPT ![job[r].cid] = @ - rsv[r]]

releaseWholeAccount(r) ==
    /\ rsv' = [rsv EXCEPT ![r] = 0]
    /\ reserved' = [reserved EXCEPT ![job[r].cid] = 0]

releaseReservationLocked(r) ==
    LET c == job[r].cid
    IN  /\ rsv' = [rsv EXCEPT ![r] = 0]
        /\ reserved' = [reserved EXCEPT ![c] =
                          IF @ <= rsv[r] THEN 0 ELSE @ - rsv[r]]

\* Mutant: the last request's tokens replace the account's.
replaceUsage(u, accounts, tokens) ==
    [a \in Accounts |->
        IF a \in accounts
        THEN [requests |-> u[a].requests + 1, tokens |-> tokens]
        ELSE u[a]]

addUsage(u, accounts, tokens) ==
    [a \in Accounts |->
        IF a \in accounts
        THEN [requests |-> u[a].requests + 1, tokens |-> u[a].tokens + tokens]
        ELSE u[a]]

-----------------------------------------------------------------------------
(* Handler steps.                                                          *)

\* A well-formed request of an authenticated consumer.  The others are
\* answered 400 or 401 before any shared state is touched.
Arrive(r) ==
    /\ pc[r] = "idle"
    /\ \E j \in Jobs : job' = [job EXCEPT ![r] = j]
    /\ Goto(r, "gate")
    /\ UNCHANGED <<rsv, work, reply, row, ledger, billed, marketVars, historyVars>>

CheckConsumerQuota(r) ==
    /\ pc[r] = "gate"
    /\ IF checkConsumerQuotaLocked(job[r].cid, 0)
       THEN Goto(r, "begin") /\ UNCHANGED reply
       ELSE Refuse(r, "402")
    /\ UNCHANGED <<job, rsv, work, row, ledger, billed, marketVars, historyVars>>

\* A streaming chat with a key is refused before anything is claimed.
RefuseStreamKey(r) ==
    /\ pc[r] = "begin"
    /\ job[r].kind = "streamChat" /\ job[r].key # NoKey
    /\ Refuse(r, "400")
    /\ UNCHANGED <<job, rsv, work, row, ledger, billed, marketVars, historyVars>>

\* Streaming chats, embeddings and chats without a key skip the store.
SkipBegin(r) ==
    /\ pc[r] = "begin"
    /\ job[r].kind = "embeddings" \/ job[r].key = NoKey
    /\ Goto(r, "reserve")
    /\ UNCHANGED <<job, rsv, work, reply, row, ledger, billed, marketVars, historyVars>>

\* Begin: the row is missing (insert), stale (claim it again), completed
\* (replay) or in progress (conflict), decided in one transaction.
Begin(r) ==
    LET k == ScopedKey(r)
    IN  /\ pc[r] = "begin"
        /\ Keyed(r)
        /\ \/ /\ row[k].status = "none"
              /\ row' = [row EXCEPT ![k] = NewClaim]
              /\ Goto(r, "reserve")
              /\ UNCHANGED <<reply, reclaims>>
           \/ /\ row[k].status = "in_progress" /\ row[k].stale
              /\ row' = [row EXCEPT ![k] = NewClaim]
              /\ reclaims' = [reclaims EXCEPT ![k] = @ + 1]
              /\ Goto(r, "reserve")
              /\ UNCHANGED reply
           \/ /\ row[k].status = "completed"
              /\ Answer(r, "replay", row[k].body)
              /\ UNCHANGED <<row, reclaims>>
           \/ /\ row[k].status = "in_progress" /\ ~row[k].stale
              /\ Refuse(r, "409")
              /\ UNCHANGED <<row, reclaims>>
        /\ UNCHANGED <<job, rsv, work, ledger, billed, marketVars, lostSave,
                       botched, crashes>>

\* The transaction fails and rolls back.
BeginFails(r) ==
    /\ StoresMayFail
    /\ pc[r] = "begin"
    /\ Keyed(r)
    /\ Refuse(r, "500")
    /\ UNCHANGED <<job, rsv, work, row, ledger, billed, marketVars, historyVars>>

\* No reservation object is made for a zero estimate or an unlimited account.
ReserveConsumerQuota(r) ==
    LET c == job[r].cid
        n == job[r].est
    IN  /\ pc[r] = "reserve"
        /\ checkConsumerQuotaLocked(c, n)
        /\ IF n = 0 \/ Limit[c] = 0
           THEN UNCHANGED <<rsv, reserved>>
           ELSE /\ rsv' = [rsv EXCEPT ![r] = n]
                /\ reserved' = [reserved EXCEPT ![c] = @ + n]
        /\ Goto(r, "dispatch")
        /\ UNCHANGED <<job, work, reply, usage, saved, row, ledger, billed, historyVars>>

\* Mutant: the handler tries again instead of refusing.
ReserveRetries(r) ==
    /\ pc[r] = "reserve"
    /\ ~checkConsumerQuotaLocked(job[r].cid, job[r].est)
    /\ Goto(r, "gate")
    /\ UNCHANGED <<job, rsv, work, reply, row, ledger, billed, marketVars, historyVars>>

ReserveRefused(r) ==
    /\ pc[r] = "reserve"
    /\ ~checkConsumerQuotaLocked(job[r].cid, job[r].est)
    /\ IF Keyed(r)
       THEN /\ reply' = [reply EXCEPT ![r] = [status |-> "402", body |-> "none"]]
            /\ Goto(r, "abort")
       ELSE Refuse(r, "402")
    /\ UNCHANGED <<job, rsv, work, row, ledger, billed, marketVars, historyVars>>

\* Dispatch returns: the measured tokens of a chat are counted from what was
\* streamed and may differ from the estimate; an embedding is billed exactly
\* what was reserved for it.
DispatchSucceeds(r) ==
    /\ pc[r] = "dispatch"
    /\ \E p \in Providers, n \in 0..(job[r].est + Overshoot) :
          /\ job[r].kind = "embeddings" => n = job[r].est
          /\ work' = [work EXCEPT ![r] = [provider |-> p, tokens |-> n]]
    /\ Goto(r, "record")
    /\ UNCHANGED <<job, rsv, reply, row, ledger, billed, marketVars, historyVars>>

\* Mutant: a failed dispatch keeps its reservation.
DispatchFailsKeeping(r) ==
    /\ pc[r] = "dispatch"
    /\ reply' = [reply EXCEPT ![r] = [status |-> "502", body |-> "none"]]
    /\ Goto(r, IF Keyed(r) THEN "abort" ELSE "done")
    /\ UNCHANGED <<job, rsv, work, row, ledger, billed, marketVars, historyVars>>

\* No node, a node error, a timeout, a client gone, or no http.Flusher.
DispatchFails(r) ==
    /\ pc[r] = "dispatch"
    /\ reply' = [reply EXCEPT ![r] = [status |-> "502", body |-> "none"]]
    /\ Goto(r, "release")
    /\ UNCHANGED <<job, rsv, work, row, ledger, billed, marketVars, historyVars>>

\* Mutant: a failed dispatch leaves its claim in the table.
ReleaseWithoutAbort(r) ==
    /\ pc[r] = "release"
    /\ releaseReservationLocked(r)
    /\ Goto(r, "done")
    /\ UNCHANGED <<job, work, reply, usage, saved, row, ledger, billed, historyVars>>

ReleaseReservation(r) ==
    /\ pc[r] = "release"
    /\ releaseReservationLocked(r)
    /\ Goto(r, IF Keyed(r) THEN "abort" ELSE "done")
    /\ UNCHANGED <<job, work, reply, usage, saved, row, ledger, billed, historyVars>>

\* Mutant: DELETE without the condition on the status.
AbortAny(r) ==
    /\ pc[r] = "abort"
    /\ row' = [row EXCEPT ![ScopedKey(r)] = NoRow]
    /\ Goto(r, "done")
    /\ UNCHANGED <<job, rsv, work, reply, ledger, billed, marketVars, historyVars>>

\* DELETE ... WHERE key = ? AND status = 'in_progress', whoever claimed it.
Abort(r) ==
    LET k == ScopedKey(r)
    IN  /\ pc[r] = "abort"
        /\ row' = IF row[k].status = "in_progress"
                  THEN [row EXCEPT ![k] = NoRow] ELSE row
        /\ Goto(r, "done")
        /\ UNCHANGED <<job, rsv, work, reply, ledger, billed, marketVars, historyVars>>

AbortFails(r) ==
    /\ StoresMayFail
    /\ pc[r] = "abort"
    /\ botched' = botched \cup {r}
    /\ Goto(r, "done")
    /\ UNCHANGED <<job, rsv, work, reply, row, ledger, billed, marketVars,
                   reclaims, lostSave, crashes>>

\* One critical section: give back the reservation, add the usage, save all
\* accounts.  An error of the save is only logged.
RecordReserved(r) ==
    /\ pc[r] = "record"
    /\ releaseReservationLocked(r)
    /\ usage' = addUsage(usage, {job[r].cid, work[r].provider}, work[r].tokens)
    /\ \/ saved' = usage'
       \/ StoresMayFail /\ UNCHANGED saved
    /\ billed' = billed \cup {r}
    /\ Goto(r, "settle")
    /\ UNCHANGED <<job, work, reply, row, ledger, historyVars>>

\* The settlement event of a request.
EventOf(r) ==
    [request |-> r, consumer |-> job[r].cid,
     provider |-> work[r].provider, tokens |-> work[r].tokens]

\* settlement.Record; an error is only logged.
RecordSettlement(r) ==
    /\ pc[r] = "settle"
    /\ \/ ledger' = ledger \cup {EventOf(r)}
       \/ StoresMayFail /\ UNCHANGED ledger
    /\ Goto(r, IF Keyed(r) THEN "complete" ELSE "respond")
    /\ UNCHANGED <<job, rsv, work, reply, row, billed, marketVars, historyVars>>

\* Mutant: the claim is dropped instead of completed.
CompleteForgets(r) ==
    /\ pc[r] = "complete"
    /\ row' = [row EXCEPT ![ScopedKey(r)] = NoRow]
    /\ Goto(r, "respond")
    /\ UNCHANGED <<job, rsv, work, reply, ledger, billed, marketVars, historyVars>>

\* UPDATE ... WHERE key = ?: no row is no error, another claim's row is taken.
Complete(r) ==
    LET k == ScopedKey(r)
    IN  /\ pc[r] = "complete"
        /\ row' = IF row[k].status = "none" THEN row
                  ELSE [row EXCEPT ![k] = [status |-> "completed",
                                           stale |-> @.stale, body |-> r]]
        /\ Goto(r, "respond")
        /\ UNCHANGED <<job, rsv, work, reply, ledger, billed, marketVars, historyVars>>

\* Mutant: the error path cleans up the claim of a request already billed.
CompleteFailsAborting(r) ==
    /\ StoresMayFail
    /\ pc[r] = "complete"
    /\ row' = [row EXCEPT ![ScopedKey(r)] = NoRow]
    /\ botched' = botched \cup {r}
    /\ Refuse(r, "500")
    /\ UNCHANGED <<job, rsv, work, ledger, billed, marketVars, reclaims,
                   lostSave, crashes>>

CompleteFails(r) ==
    /\ StoresMayFail
    /\ pc[r] = "complete"
    /\ botched' = botched \cup {r}
    /\ Refuse(r, "500")
    /\ UNCHANGED <<job, rsv, work, row, ledger, billed, marketVars, reclaims,
                   lostSave, crashes>>

Respond(r) ==
    /\ pc[r] = "respond"
    /\ Answer(r, "200", r)
    /\ UNCHANGED <<job, rsv, work, row, ledger, billed, marketVars, historyVars>>

-----------------------------------------------------------------------------
(* The environment.                                                        *)

\* More than the TTL has passed since the claim's created_at.  The TTL and
\* the request timeout are independent settings, so the claimant may run on.
ClaimExpires(k) ==
    /\ row[k].status = "in_progress" /\ ~row[k].stale
    /\ row' = [row EXCEPT ![k] = [status |-> "in_progress", stale |-> TRUE,
                               body |-> @.body]]
    /\ UNCHANGED <<pc, job, rsv, work, reply, ledger, billed, marketVars, historyVars>>

\* The process dies and starts again: goroutines and reservations are gone,
\* usage is what the city database holds, the other stores are as they were.
Crash ==
    /\ crashes < MaxCrashes
    /\ crashes' = crashes + 1
    /\ pc' = [r \in Requests |-> IF pc[r] \in Running THEN "lost" ELSE pc[r]]
    /\ rsv' = [r \in Requests |-> 0]
    /\ reserved' = [c \in Consumers |-> 0]
    /\ usage' = saved
    /\ lostSave' = (lostSave \/ usage # saved)
    /\ UNCHANGED <<job, work, reply, saved, row, ledger, billed, reclaims,
                   botched>>

-----------------------------------------------------------------------------

Init ==
    /\ pc = [r \in Requests |-> "idle"]
    /\ job = [r \in Requests |-> NoJob]
    /\ rsv = [r \in Requests |-> 0]
    /\ work = [r \in Requests |-> NoWork]
    /\ reply = [r \in Requests |-> NoReply]
    /\ reserved = [c \in Consumers |-> 0]
    /\ usage = [a \in Accounts |-> NoUsage]
    /\ saved = [a \in Accounts |-> NoUsage]
    /\ row = [k \in ScopedKeys |-> NoRow]
    /\ ledger = {}
    /\ billed = {}
    /\ reclaims = [k \in ScopedKeys |-> 0]
    /\ lostSave = FALSE
    /\ botched = {}
    /\ crashes = 0

\* A step of the goroutine that handles request r.
Handle(r) ==
    \/ CheckConsumerQuota(r)
    \/ RefuseStreamKey(r) \/ SkipBegin(r) \/ Begin(r) \/ BeginFails(r)
    \/ ReserveConsumerQuota(r) \/ ReserveRefused(r)
    \/ DispatchSucceeds(r) \/ DispatchFails(r)
    \/ ReleaseReservation(r) \/ Abort(r) \/ AbortFails(r)
    \/ RecordReserved(r) \/ RecordSettlement(r)
    \/ Complete(r) \/ CompleteFails(r) \/ Respond(r)

\* Every request has been handled; the coordinator idles.
Quiet ==
    /\ \A r \in Requests : pc[r] \in {"done", "lost"}
    /\ UNCHANGED vars

Next ==
    \/ \E r \in Requests : Arrive(r) \/ Handle(r)
    \/ \E k \in ScopedKeys : ClaimExpires(k)
    \/ Crash
    \/ Quiet

Spec == Init /\ [][Next]_vars

\* The Go scheduler runs every goroutine.  Whether Dispatch returns is for the
\* node, for the client who reads a stream and, where it is set, for
\* request_timeout to say, and Scheduler shows that even then it may not: no
\* fairness of its end is assumed here, nor of clients, crashes or the TTL.
FairSpec ==
    Spec /\ \A r \in Requests : WF_vars(pc[r] # "dispatch" /\ Handle(r))

-----------------------------------------------------------------------------
(* Properties.                                                             *)

\* The states the coordinator can be in: every request that has arrived
\* carries a job, a reservation is never larger than the job's estimate.
TypeOK ==
    /\ pc \in [Requests -> Locations]
    /\ job \in [Requests -> Jobs \cup {NoJob}]
    /\ \A r \in Requests : pc[r] # "idle" => job[r] \in Jobs
    /\ rsv \in [Requests -> 0..MaxEstimate]
    /\ work \in [Requests -> [provider : Providers,
                              tokens : 0..(MaxEstimate + Overshoot)]
                             \cup {NoWork}]
    /\ reply \in [Requests -> [status : {"200", "replay", "400", "402", "409",
                                        "500", "502"},
                               body : Requests \cup {"none"}] \cup {NoReply}]
    /\ reserved \in [Consumers -> Nat]
    /\ usage \in [Accounts -> [requests : Nat, tokens : Nat]]
    /\ saved \in [Accounts -> [requests : Nat, tokens : Nat]]
    /\ row \in [ScopedKeys -> [status : {"none", "in_progress", "completed"},
                               stale : BOOLEAN, body : Requests \cup {"none"}]]
    /\ ledger \subseteq [request : Requests, consumer : Consumers,
                         provider : Providers, tokens : Nat]
    /\ billed \subseteq Requests
    /\ reclaims \in [ScopedKeys -> Nat]
    /\ lostSave \in BOOLEAN
    /\ botched \subseteq Requests
    /\ crashes \in Nat

\* The tokens that requests of consumer c hold reserved, one pair per token.
HeldTokens(c) ==
    {u \in Requests \X (1..MaxEstimate) :
        /\ pc[u[1]] # "idle"
        /\ job[u[1]].cid = c
        /\ u[2] <= rsv[u[1]]}

\* reservedUse is exactly what running requests hold: no interleaving of
\* reserve, release, record and crash leaks a token of quota or returns one
\* twice (releaseReservationLocked's clamp at zero never takes effect).
ReservationsExact ==
    \A c \in Consumers : reserved[c] = Cardinality(HeldTokens(c))

\* Concurrent requests cannot spend the same limit twice: what is used plus
\* what is reserved exceeds the limit by no more than the amount by which
\* each recorded request can outgrow its estimate (ReserveConsumerQuota and
\* RecordReserved, across crashes and failed saves).
QuotaBound ==
    \A c \in Consumers :
        Limit[c] > 0 =>
            usage[c].tokens + reserved[c]
                <= Limit[c] + Overshoot * usage[c].requests

\* Requests with scoped key k that hold a claim or have been billed.
Claimants(k) ==
    {r \in Requests :
        /\ pc[r] # "idle"
        /\ Keyed(r)
        /\ ScopedKey(r) = k
        /\ pc[r] \in Waiting \/ r \in billed}

Billed(k) == {r \in billed : Keyed(r) /\ ScopedKey(r) = k}

\* A key is billed once, plus at most once for every time a stale claim was
\* taken over: Begin, the ownerless Abort and Complete, failed store writes
\* and crashes cause no other double charge.
ChargesBounded ==
    \A k \in ScopedKeys : Cardinality(Billed(k)) <= 1 + reclaims[k]

\* The documented guarantee of idempotency keys: "a successful charge happens
\* at most once per (consumer, Idempotency-Key)".
ChargedAtMostOnce ==
    \A k \in ScopedKeys : Cardinality(Billed(k)) <= 1

\* Unless a stale claim was taken over, every client that got a completion
\* for a key got the same one, and a completed row holds it: a replay is the
\* response of the request that was billed.
OneAnswerPerKey ==
    \A k \in ScopedKeys : reclaims[k] = 0 =>
        \E b \in Requests :
            /\ row[k].status = "completed" =>
                  row[k].body = b /\ b \in Billed(k)
            /\ \A r \in Requests :
                  /\ pc[r] = "done" /\ reply[r].status \in {"200", "replay"}
                  /\ Keyed(r) /\ ScopedKey(r) = k
                  => reply[r].body = b /\ b \in Billed(k)

\* A claim in the table belongs to a request that is still running, so a
\* client that retries is refused with 409 only while its key is being worked
\* on.  The one way to leave a claim behind for the TTL is a request of the
\* key that was lost in a crash or whose Abort or Complete failed.
NoOrphanClaim ==
    \A k \in ScopedKeys : row[k].status = "in_progress" =>
        \E r \in Requests :
            /\ pc[r] # "idle" /\ Keyed(r) /\ ScopedKey(r) = k
            /\ pc[r] \in Waiting \/ pc[r] = "lost" \/ r \in botched

-----------------------------------------------------------------------------
(* The strengthening that makes the safety properties inductive.           *)

\* A request holds a reservation exactly while it is being dispatched, and
\* then it is the whole estimate unless the account has no limit.
ReservationHeld ==
    \A r \in Requests :
        IF pc[r] \in {"dispatch", "record", "release"} /\ Limit[job[r].cid] > 0
        THEN rsv[r] = job[r].est
        ELSE rsv[r] = 0

\* What Dispatch returned is within the overshoot of the estimate when it is
\* recorded.
WorkBounded ==
    \A r \in Requests : pc[r] \in {"record", "settle"} =>
        /\ work[r] \in [provider : Providers, tokens : Nat]
        /\ work[r].tokens <= job[r].est + Overshoot

\* The usage a restart would load is within the bound as well.
SavedBound ==
    \A c \in Consumers :
        Limit[c] > 0 =>
            saved[c].tokens <= Limit[c] + Overshoot * saved[c].requests

\* Only requests past RecordReserved have been billed.
BilledPlace ==
    \A r \in billed : pc[r] \in {"settle", "complete", "respond", "done", "lost"}

\* Claims and charges of a key are paid for by its row and its takeovers.
ClaimsCounted ==
    \A k \in ScopedKeys :
        Cardinality(Claimants(k))
            <= (IF row[k].status = "none" THEN 0 ELSE 1) + reclaims[k]

\* Only a claimed key is aborted or completed.
AbortKeyed ==
    \A r \in Requests : pc[r] \in {"abort", "complete"} => Keyed(r)

\* Where each goroutine stands; inductive by itself.
LocalInv == TypeOK /\ ReservationHeld /\ WorkBounded /\ BilledPlace /\ AbortKeyed

\* The shared state that the goroutines add up to.
CoreInv ==
    /\ LocalInv
    /\ ReservationsExact
    /\ QuotaBound
    /\ SavedBound
    /\ ClaimsCounted

\* A completion is billed before anyone gets it: the goroutine that is about
\* to answer with it, the client that got it, fresh or replayed, the stored row.
BilledBefore ==
    /\ \A r \in Requests : pc[r] \in {"settle", "complete", "respond"} => r \in billed
    /\ \A r \in Requests : pc[r] \in {"release", "abort", "done"} =>
          /\ reply[r].status = "200" => reply[r].body = r /\ r \in billed
          /\ reply[r].status = "replay" => reply[r].body \in Billed(ScopedKey(r))
    /\ \A k \in ScopedKeys :
          row[k].status = "completed" => row[k].body \in Billed(k)

-----------------------------------------------------------------------------

\* The events of an account among some settlement events, and their tokens,
\* one pair per token.
EventsOf(a, events) == {e \in events : e.consumer = a \/ e.provider = a}
TokensIn(events)    == UNION {{e} \X (1..e.tokens) : e \in events}

UsageCovers(events) ==
    \A a \in Accounts :
        /\ usage[a].requests >= Cardinality(EventsOf(a, events))
        /\ usage[a].tokens >= Cardinality(TokensIn(EventsOf(a, events)))

\* The usage of an account never falls behind the settlement ledger, at
\* restart included, unless a crash lost usage whose save had failed
\* (RecordReserved runs before settlement.Record).
UsageCoversSettlement == ~lostSave => UsageCovers(ledger)

\* The settlement events recorded or about to be.
DueEvents == ledger \cup {EventOf(r) : r \in {q \in Requests : pc[q] = "settle"}}

\* A request is settled at most once and after it was billed, and usage covers
\* the events that are still to be recorded as well.
SettlementDue ==
    /\ IsFiniteSet(DueEvents) /\ IsFiniteSet(TokensIn(DueEvents))
    /\ \A e \in ledger :
          e.request \in billed /\ pc[e.request] \in {"complete", "respond", "done", "lost"}
    /\ ~lostSave => UsageCovers(DueEvents)

\* The inductive invariant of the whole billing path.
BillingInv == CoreInv /\ BilledBefore /\ NoOrphanClaim /\ SettlementDue

\* A stored response is final: Begin never reclaims it and Abort never
\* deletes it; a late owner may overwrite the body only after a takeover.
CompletedIsFinal ==
    [][\A k \in ScopedKeys : row[k].status = "completed" =>
          /\ row'[k].status = "completed"
          /\ row'[k].body # row[k].body => reclaims[k] > 0]_vars

\* Every request that arrives is answered, or lost in a crash, unless its own
\* Dispatch never returns: no other request, hung in Dispatch or not, no failing
\* store and no refusal keeps its handler from ending.
EveryRequestAnswered ==
    \A r \in Requests :
        \/ pc[r] = "gate" ~> pc[r] \in {"done", "lost"}
        \/ <>[](pc[r] = "dispatch")

\* Quota is never stranded: whichever way requests end, what they reserved is
\* given back for good, and all that stays reserved for a consumer is what those
\* of its requests hold whose Dispatch never returns.
ReservationsDrain ==
    \A c \in Consumers :
        <>[](reserved[c] = Cardinality({u \in HeldTokens(c) : pc[u[1]] = "dispatch"}))

=============================================================================
