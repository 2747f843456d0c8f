------------------------- MODULE ChatBillingProofs -------------------------
(***************************************************************************)
(* Proofs about ChatBilling, for every value of its constants.  The        *)
(* invariant is inductive in layers: LocalInv says where each goroutine    *)
(* stands and is inductive by itself; CoreInv counts on top of it the      *)
(* tokens that goroutines hold against reservedUse, and the requests that  *)
(* hold or held a key against its row and its takeovers; BillingInv adds   *)
(* who got which completion, who owns a claim, and what has been settled.  *)
(***************************************************************************)
EXTENDS ChatBilling, FiniteSetTheorems, TLAPS

\* At start every goroutine stands where LocalInv says: no request has arrived,
\* nothing is reserved (the empty maps of city.New).
LEMMA LocalInit == Init => LocalInv
<1> SUFFICES ASSUME Init PROVE LocalInv
  OBVIOUS
<1>1. TypeOK
  <2>1. /\ rsv \in [Requests -> 0..MaxEstimate]
        /\ work \in [Requests -> {NoWork}]
        /\ reply \in [Requests -> {NoReply}]
        /\ job \in [Requests -> {NoJob}]
    BY BillingAssumption DEF Init
  <2>2. row \in [ScopedKeys -> [status : {"none", "in_progress", "completed"},
                               stale : BOOLEAN, body : Requests \cup {"none"}]]
    BY DEF Init, NoRow
  <2>3. /\ usage \in [Accounts -> [requests : Nat, tokens : Nat]]
        /\ saved \in [Accounts -> [requests : Nat, tokens : Nat]]
    BY DEF Init, NoUsage
  <2> QED
    BY <2>1, <2>2, <2>3 DEF Init, TypeOK, Locations
<1>2. ReservationHeld /\ WorkBounded /\ BilledPlace /\ AbortKeyed
  BY DEF Init, ReservationHeld, WorkBounded, BilledPlace, AbortKeyed
<1> QED
  BY <1>1, <1>2 DEF LocalInv

\* Every step of a handler, of the TTL and of a crash keeps each goroutine's own
\* state consistent: where it stands, what it reserved, what it measured.
LEMMA LocalStep ==
    ASSUME LocalInv, [Next]_vars
    PROVE  LocalInv'
<1> USE BillingAssumption
    DEF LocalInv, TypeOK, ReservationHeld, WorkBounded, BilledPlace,
        AbortKeyed, Locations, Running, Waiting, AllJobs, Kinds, Keyed, Goto
<1>1. ASSUME NEW r \in Requests, Arrive(r) PROVE LocalInv'
  BY <1>1 DEF Arrive, marketVars, historyVars
<1>2. ASSUME NEW r \in Requests, CheckConsumerQuota(r) PROVE LocalInv'
  <2>1. CASE checkConsumerQuotaLocked(job[r].cid, 0)
    <3>1. /\ pc[r] = "gate" /\ pc' = [pc EXCEPT ![r] = "begin"]
          /\ UNCHANGED <<job, rsv, work, reply, row, ledger, billed>>
          /\ UNCHANGED <<marketVars, historyVars>>
      BY <1>2, <2>1 DEF CheckConsumerQuota
    <3> QED
      BY <3>1 DEF marketVars, historyVars
  <2>2. CASE ~checkConsumerQuotaLocked(job[r].cid, 0)
    <3>1. Refuse(r, "402")
      BY <1>2, <2>2 DEF CheckConsumerQuota
    <3> QED
      BY <1>2, <3>1 DEF CheckConsumerQuota, Refuse, Answer, marketVars, historyVars
  <2> QED
    BY <2>1, <2>2
<1>3. ASSUME NEW r \in Requests, RefuseStreamKey(r) PROVE LocalInv'
  BY <1>3 DEF RefuseStreamKey, Refuse, Answer, marketVars, historyVars
<1>4. ASSUME NEW r \in Requests, SkipBegin(r) PROVE LocalInv'
  BY <1>4 DEF SkipBegin, marketVars, historyVars
<1>5. ASSUME NEW r \in Requests, Begin(r) PROVE LocalInv'
  <2> DEFINE k == ScopedKey(r)
  <2>1. k \in ScopedKeys
    BY <1>5 DEF Begin, ScopedKey, ScopedKeys
  <2>2. CASE row' = [row EXCEPT ![k] = NewClaim] /\ Goto(r, "reserve")
             /\ reply' = reply /\ reclaims' \in [ScopedKeys -> Nat]
    BY <1>5, <2>1, <2>2 DEF Begin, NewClaim, marketVars
  <2>3. CASE /\ row[k].status = "completed"
             /\ Answer(r, "replay", row[k].body)
             /\ UNCHANGED <<row, reclaims>>
    BY <1>5, <2>1, <2>3 DEF Begin, Answer, marketVars
  <2>4. CASE Refuse(r, "409") /\ UNCHANGED <<row, reclaims>>
    BY <1>5, <2>1, <2>4 DEF Begin, Refuse, Answer, marketVars
  <2>5. \/ /\ row' = [row EXCEPT ![k] = NewClaim]
           /\ reclaims' = reclaims \/ reclaims' = [reclaims EXCEPT ![k] = @ + 1]
           /\ Goto(r, "reserve")
           /\ UNCHANGED reply
        \/ /\ row[k].status = "completed"
           /\ Answer(r, "replay", row[k].body)
           /\ UNCHANGED <<row, reclaims>>
        \/ Refuse(r, "409") /\ UNCHANGED <<row, reclaims>>
    BY <1>5, Zenon DEF Begin
  <2>6. [reclaims EXCEPT ![k] = @ + 1] \in [ScopedKeys -> Nat]
    BY <2>1
  <2> QED
    BY <2>2, <2>3, <2>4, <2>5, <2>6
<1>6. ASSUME NEW r \in Requests, BeginFails(r) PROVE LocalInv'
  BY <1>6 DEF BeginFails, Refuse, Answer, marketVars, historyVars
<1>7. ASSUME NEW r \in Requests, ReserveConsumerQuota(r) PROVE LocalInv'
  <2>1. CASE job[r].est = 0 \/ Limit[job[r].cid] = 0
    BY <1>7, <2>1 DEF ReserveConsumerQuota, historyVars
  <2>2. CASE ~(job[r].est = 0 \/ Limit[job[r].cid] = 0)
    <3>1. /\ rsv' = [rsv EXCEPT ![r] = job[r].est]
          /\ reserved' = [reserved EXCEPT ![job[r].cid] = @ + job[r].est]
          /\ pc' = [pc EXCEPT ![r] = "dispatch"]
      BY <1>7, <2>2 DEF ReserveConsumerQuota
    <3>2. job[r] \in AllJobs
      BY <1>7 DEF ReserveConsumerQuota
    <3>3. /\ rsv' \in [Requests -> 0..MaxEstimate]
          /\ reserved' \in [Consumers -> Nat]
      BY <3>1, <3>2
    <3> QED
      BY <1>7, <2>2, <3>1, <3>3 DEF ReserveConsumerQuota, historyVars
  <2> QED
    BY <2>1, <2>2
<1>8. ASSUME NEW r \in Requests, ReserveRefused(r) PROVE LocalInv'
  <2>1. CASE Keyed(r)
    <3>1. /\ reply' = [reply EXCEPT ![r] = [status |-> "402", body |-> "none"]]
          /\ Goto(r, "abort")
      BY <1>8, <2>1 DEF ReserveRefused
    <3> QED
      BY <1>8, <2>1, <3>1 DEF ReserveRefused, marketVars, historyVars
  <2>2. CASE ~Keyed(r)
    <3>1. Refuse(r, "402")
      BY <1>8, <2>2 DEF ReserveRefused
    <3> QED
      BY <1>8, <3>1 DEF ReserveRefused, Refuse, Answer, marketVars, historyVars
  <2> QED
    BY <2>1, <2>2
<1>9. ASSUME NEW r \in Requests, DispatchSucceeds(r) PROVE LocalInv'
  BY <1>9 DEF DispatchSucceeds, marketVars, historyVars
<1>10. ASSUME NEW r \in Requests, DispatchFails(r) PROVE LocalInv'
  BY <1>10 DEF DispatchFails, marketVars, historyVars
<1>11. ASSUME NEW r \in Requests, ReleaseReservation(r) PROVE LocalInv'
  BY <1>11 DEF ReleaseReservation, releaseReservationLocked, marketVars, historyVars
<1>12. ASSUME NEW r \in Requests, Abort(r) PROVE LocalInv'
  BY <1>12 DEF Abort, ScopedKey, ScopedKeys, NoRow, marketVars, historyVars
<1>13. ASSUME NEW r \in Requests, AbortFails(r) PROVE LocalInv'
  BY <1>13 DEF AbortFails, marketVars, historyVars
<1>14. ASSUME NEW r \in Requests, RecordReserved(r) PROVE LocalInv'
  BY <1>14 DEF RecordReserved, releaseReservationLocked, addUsage, Accounts, marketVars, historyVars
<1>15. ASSUME NEW r \in Requests, RecordSettlement(r) PROVE LocalInv'
  BY <1>15 DEF RecordSettlement, EventOf, marketVars, historyVars
<1>16. ASSUME NEW r \in Requests, Complete(r) PROVE LocalInv'
  <2>1. row' \in [ScopedKeys -> [status : {"none", "in_progress", "completed"},
                                stale : BOOLEAN, body : Requests \cup {"none"}]]
    <3> DEFINE k == ScopedKey(r)
    <3>1. CASE row[k].status = "none"
      BY <1>16, <3>1 DEF Complete
    <3>2. CASE row[k].status # "none"
      BY <1>16, <3>2 DEF Complete, ScopedKey, ScopedKeys
    <3> QED
      BY <3>1, <3>2
  <2> QED
    BY <1>16, <2>1 DEF Complete, marketVars, historyVars
<1>17. ASSUME NEW r \in Requests, CompleteFails(r) PROVE LocalInv'
  BY <1>17 DEF CompleteFails, Refuse, Answer, marketVars, historyVars
<1>18. ASSUME NEW r \in Requests, Respond(r) PROVE LocalInv'
  BY <1>18 DEF Respond, Answer, marketVars, historyVars
<1>19. ASSUME NEW k \in ScopedKeys, ClaimExpires(k) PROVE LocalInv'
  BY <1>19 DEF ClaimExpires, marketVars, historyVars
<1>20. CASE Crash
  BY <1>20 DEF Crash
<1>21. CASE UNCHANGED vars
  BY <1>21 DEF vars
<1> QED
  BY <1>1, <1>2, <1>3, <1>4, <1>5, <1>6, <1>7, <1>8, <1>9, <1>10, <1>11, <1>12, <1>13, <1>14, <1>15, <1>16, <1>17, <1>18, <1>19, <1>20, <1>21 DEF Next, Handle, Quiet

-----------------------------------------------------------------------------
(* Reserved tokens.                                                        *)

\* The tokens a request with a reservation of n contributes to HeldTokens.
TokensOf(r, n) == {r} \X (1..n)

\* A reservation of n tokens is n elements of HeldTokens (QuotaReservation.tokens).
LEMMA TokensOfSize ==
    ASSUME NEW r, NEW n \in Nat
    PROVE  IsFiniteSet(TokensOf(r, n)) /\ Cardinality(TokensOf(r, n)) = n
<1>1. IsFiniteSet({r}) /\ Cardinality({r}) = 1
  BY FS_Singleton
<1>2. IsFiniteSet(1..n) /\ Cardinality(1..n) = n
  BY FS_Interval
<1>3. /\ IsFiniteSet({r} \X (1..n))
      /\ Cardinality({r} \X (1..n)) = Cardinality({r}) * Cardinality(1..n)
  BY <1>1, <1>2, FS_Product, Zenon
<1> QED
  BY <1>1, <1>2, <1>3 DEF TokensOf

\* What a consumer's requests hold reserved can be counted.
LEMMA HeldFinite ==
    ASSUME NEW c \in Consumers
    PROVE  IsFiniteSet(HeldTokens(c)) /\ Cardinality(HeldTokens(c)) \in Nat
<1>1. IsFiniteSet(1..MaxEstimate)
  BY FS_Interval, BillingAssumption
<1>2. IsFiniteSet(Requests \X (1..MaxEstimate))
  BY <1>1, FS_Product, BillingAssumption
<1>3. HeldTokens(c) \in SUBSET (Requests \X (1..MaxEstimate))
  BY DEF HeldTokens
<1>4. IsFiniteSet(HeldTokens(c))
  BY <1>2, <1>3, FS_Subset
<1> QED
  BY <1>4, FS_CardinalityType

\* Steps that touch neither reservations nor reservedUse keep the two equal;
\* a request that arrives brings no reservation with it.
LEMMA HeldKept ==
    ASSUME LocalInv, LocalInv', ReservationsExact, rsv' = rsv,
           reserved' = reserved,
           \A r \in Requests : pc[r] # "idle" => job'[r] = job[r]
    PROVE  ReservationsExact'
<1>1. \A r \in Requests : rsv[r] > 0 => pc[r] # "idle" /\ pc'[r] # "idle"
  BY DEF LocalInv, ReservationHeld
<1>2. ASSUME NEW c \in Consumers
      PROVE  HeldTokens(c)' = HeldTokens(c)
  BY <1>1 DEF HeldTokens, LocalInv, TypeOK
<1> QED
  BY <1>2 DEF ReservationsExact

\* releaseReservationLocked takes exactly the request's own tokens out of
\* reservedUse, and its clamp at zero never takes effect.
LEMMA HeldReleased ==
    ASSUME LocalInv, ReservationsExact,
           NEW r \in Requests, NEW l, pc[r] # "idle", l # "idle",
           Goto(r, l), job' = job, releaseReservationLocked(r)
    PROVE  /\ reserved[job[r].cid] >= rsv[r]
           /\ reserved' = [reserved EXCEPT ![job[r].cid] = @ - rsv[r]]
           /\ ReservationsExact'
<1> DEFINE c == job[r].cid
           T == TokensOf(r, rsv[r])
<1>1. c \in Consumers /\ rsv[r] \in 0..MaxEstimate /\ rsv[r] \in Nat
      /\ reserved \in [Consumers -> Nat]
  BY BillingAssumption DEF LocalInv, TypeOK, AllJobs
<1>2. IsFiniteSet(HeldTokens(c)) /\ reserved[c] = Cardinality(HeldTokens(c))
  BY <1>1, HeldFinite DEF ReservationsExact
<1>3. IsFiniteSet(T) /\ Cardinality(T) = rsv[r]
  BY <1>1, TokensOfSize
<1>4. T \subseteq HeldTokens(c)
  BY <1>1, BillingAssumption DEF TokensOf, HeldTokens
<1>5. reserved[c] >= rsv[r]
  BY <1>1, <1>2, <1>3, <1>4, FS_Subset
<1>6. reserved' = [reserved EXCEPT ![c] = @ - rsv[r]]
  <2>1. (IF reserved[c] <= rsv[r] THEN 0 ELSE reserved[c] - rsv[r])
          = reserved[c] - rsv[r]
    BY <1>1, <1>5
  <2>2. reserved' = [reserved EXCEPT ![c] =
                       IF reserved[c] <= rsv[r] THEN 0 ELSE reserved[c] - rsv[r]]
    BY DEF releaseReservationLocked
  <2> QED
    BY <2>1, <2>2
<1>7. HeldTokens(c)' = HeldTokens(c) \ T
  BY <1>1 DEF HeldTokens, TokensOf, releaseReservationLocked, Goto, LocalInv, TypeOK
<1>8. Cardinality(HeldTokens(c) \ T) = Cardinality(HeldTokens(c)) - rsv[r]
  <2>1. HeldTokens(c) \cap T = T
    BY <1>4
  <2>2. Cardinality(HeldTokens(c) \ T)
          = Cardinality(HeldTokens(c)) - Cardinality(HeldTokens(c) \cap T)
    BY <1>2, FS_Difference, Zenon
  <2> QED
    BY <2>1, <2>2, <1>3
<1>9. ASSUME NEW d \in Consumers, d # c
      PROVE  HeldTokens(d)' = HeldTokens(d)
  BY <1>1, <1>9 DEF HeldTokens, releaseReservationLocked, Goto, LocalInv, TypeOK
<1>10. ReservationsExact'
  <2> SUFFICES ASSUME NEW d \in Consumers
               PROVE  reserved'[d] = Cardinality(HeldTokens(d)')
    BY DEF ReservationsExact
  <2>1. CASE d = c
    BY <2>1, <1>1, <1>2, <1>6, <1>7, <1>8
  <2>2. CASE d # c
    BY <2>2, <1>1, <1>6, <1>9 DEF ReservationsExact
  <2> QED
    BY <2>1, <2>2
<1> QED
  BY <1>5, <1>6, <1>10

\* ReserveConsumerQuota adds to reservedUse exactly the tokens the request
\* holds afterwards, none for a zero estimate or an unlimited account.
LEMMA HeldReserved ==
    ASSUME LocalInv, ReservationsExact,
           NEW r \in Requests, ReserveConsumerQuota(r)
    PROVE  ReservationsExact'
<1> DEFINE c == job[r].cid
           n == job[r].est
           T == TokensOf(r, n)
<1>1. /\ c \in Consumers /\ n \in 0..MaxEstimate /\ n \in Nat
      /\ rsv[r] = 0 /\ pc[r] = "reserve"
  BY BillingAssumption
  DEF LocalInv, TypeOK, ReservationHeld, AllJobs, ReserveConsumerQuota
<1>2. CASE n = 0 \/ Limit[c] = 0
  <2>1. ASSUME NEW d \in Consumers
        PROVE  HeldTokens(d)' = HeldTokens(d)
    BY <1>1, <1>2
    DEF HeldTokens, ReserveConsumerQuota, Goto, LocalInv, TypeOK
  <2> QED
    BY <2>1, <1>2 DEF ReservationsExact, ReserveConsumerQuota
<1>3. CASE ~(n = 0 \/ Limit[c] = 0)
  <2>1. /\ rsv' = [rsv EXCEPT ![r] = n]
        /\ reserved' = [reserved EXCEPT ![c] = @ + n]
        /\ job' = job
        /\ pc' = [pc EXCEPT ![r] = "dispatch"]
    BY <1>3 DEF ReserveConsumerQuota, Goto
  <2>2. IsFiniteSet(T) /\ Cardinality(T) = n
    BY <1>1, TokensOfSize
  <2>3. HeldTokens(c)' = HeldTokens(c) \cup T
    BY <1>1, <2>1, BillingAssumption DEF HeldTokens, TokensOf, LocalInv, TypeOK
  <2>4. HeldTokens(c) \cap T = {}
    BY <1>1 DEF HeldTokens, TokensOf
  <2>5. Cardinality(HeldTokens(c) \cup T) = Cardinality(HeldTokens(c)) + n
    <3>1. IsFiniteSet(HeldTokens(c)) /\ Cardinality(HeldTokens(c)) \in Nat
      BY <1>1, HeldFinite
    <3>2. Cardinality(HeldTokens(c) \cap T) = 0
      BY <2>4, FS_EmptySet
    <3>3. Cardinality(HeldTokens(c) \cup T)
            = Cardinality(HeldTokens(c)) + Cardinality(T)
                - Cardinality(HeldTokens(c) \cap T)
      BY <3>1, <2>2, FS_Union, Zenon
    <3> QED
      BY <3>1, <3>2, <3>3, <2>2, <1>1
  <2>6. ASSUME NEW d \in Consumers, d # c
        PROVE  HeldTokens(d)' = HeldTokens(d)
    BY <1>1, <2>1, <2>6 DEF HeldTokens, LocalInv, TypeOK
  <2> SUFFICES ASSUME NEW d \in Consumers
               PROVE  reserved'[d] = Cardinality(HeldTokens(d)')
    BY DEF ReservationsExact
  <2>7. CASE d = c
    BY <2>7, <1>1, <2>1, <2>3, <2>5 DEF ReservationsExact, LocalInv, TypeOK
  <2>8. CASE d # c
    BY <2>8, <1>1, <2>1, <2>6 DEF ReservationsExact, LocalInv, TypeOK
  <2> QED
    BY <2>7, <2>8
<1> QED
  BY <1>2, <1>3

-----------------------------------------------------------------------------
(* The market's part of the invariant.                                     *)

\* The part of the invariant about the market's three maps.
MarketInv == ReservationsExact /\ QuotaBound /\ SavedBound

\* The allowance of a consumer grows by one overshoot per recorded request.
LEMMA OneMoreRequest ==
    ASSUME NEW a \in Nat, NEW b \in Nat
    PROVE  a * (b + 1) = a * b + a /\ a * b \in Nat
  OBVIOUS

\* Handler steps that do not call the market leave its invariant alone.
LEMMA MarketKept ==
    ASSUME LocalInv, LocalInv', MarketInv, UNCHANGED <<rsv, marketVars>>,
           \A r \in Requests : pc[r] # "idle" => job'[r] = job[r]
    PROVE  MarketInv'
<1>1. ReservationsExact'
  BY HeldKept DEF MarketInv, marketVars
<1> QED
  BY <1>1 DEF MarketInv, QuotaBound, SavedBound, marketVars

\* ReserveConsumerQuota admits an estimate only where it fits under the limit
\* with all that is used and reserved, so the bound survives.
LEMMA MarketReserve ==
    ASSUME LocalInv, MarketInv, NEW r \in Requests, ReserveConsumerQuota(r)
    PROVE  MarketInv'
<1> DEFINE c == job[r].cid
           n == job[r].est
<1>1. ReservationsExact'
  BY HeldReserved DEF MarketInv
<1>2. /\ c \in Consumers /\ n \in Nat /\ Limit \in [Consumers -> Nat]
      /\ Overshoot \in Nat /\ reserved \in [Consumers -> Nat]
      /\ usage \in [Accounts -> [requests : Nat, tokens : Nat]]
      /\ Consumers \subseteq Accounts
  BY BillingAssumption
  DEF LocalInv, TypeOK, AllJobs, ReserveConsumerQuota, Accounts
<1>3. usage' = usage /\ saved' = saved
  BY DEF ReserveConsumerQuota
<1>4. QuotaBound'
  <2>1. CASE n = 0 \/ Limit[c] = 0
    BY <2>1, <1>3 DEF ReserveConsumerQuota, MarketInv, QuotaBound
  <2>2. CASE ~(n = 0 \/ Limit[c] = 0)
    <3>1. reserved' = [reserved EXCEPT ![c] = @ + n]
      BY <2>2 DEF ReserveConsumerQuota
    <3>2. usage[c].tokens + reserved[c] + n <= Limit[c]
      BY <2>2, <1>2 DEF ReserveConsumerQuota, checkConsumerQuotaLocked
    <3>3. Overshoot * usage[c].requests \in Nat
      BY <1>2, OneMoreRequest
    <3> QED
      BY <3>1, <3>2, <3>3, <1>2, <1>3 DEF QuotaBound, MarketInv
  <2> QED
    BY <2>1, <2>2
<1> QED
  BY <1>1, <1>3, <1>4 DEF MarketInv, SavedBound

\* ReleaseReservation after a failed dispatch only lowers what is reserved.
LEMMA MarketRelease ==
    ASSUME LocalInv, MarketInv, NEW r \in Requests, ReleaseReservation(r)
    PROVE  MarketInv'
<1> DEFINE c == job[r].cid
           l == IF Keyed(r) THEN "abort" ELSE "done"
<1>1. /\ Goto(r, l) /\ job' = job /\ releaseReservationLocked(r)
      /\ usage' = usage /\ saved' = saved /\ pc[r] = "release"
  BY DEF ReleaseReservation
<1>2. /\ reserved' = [reserved EXCEPT ![c] = @ - rsv[r]]
      /\ ReservationsExact'
  <2>1. l # "idle"
    OBVIOUS
  <2> HIDE DEF l
  <2> QED
    BY <1>1, <2>1, HeldReleased DEF MarketInv
<1>3. QuotaBound'
  <2> SUFFICES ASSUME NEW d \in Consumers, Limit[d] > 0
               PROVE  usage[d].tokens + reserved'[d]
                        <= Limit[d] + Overshoot * usage[d].requests
    BY <1>1 DEF QuotaBound
  <2>1. usage[d].tokens + reserved[d] <= Limit[d] + Overshoot * usage[d].requests
    BY DEF MarketInv, QuotaBound
  <2>2. /\ usage[d].tokens \in Nat /\ usage[d].requests \in Nat
        /\ Limit[d] \in Nat /\ reserved[d] \in Nat /\ rsv[r] \in Nat
        /\ reserved \in [Consumers -> Nat]
    BY BillingAssumption DEF LocalInv, TypeOK, Accounts
  <2>3. Overshoot * usage[d].requests \in Nat
    BY <2>2, OneMoreRequest, BillingAssumption
  <2>4. reserved'[d] \in Int /\ reserved'[d] <= reserved[d]
    BY <1>2, <2>2
  <2> QED
    BY <2>1, <2>2, <2>3, <2>4
<1> QED
  BY <1>1, <1>2, <1>3 DEF MarketInv, SavedBound

\* RecordReserved trades a reservation for the measured usage, which exceeds it
\* by at most the overshoot, in memory and in the city database alike.
LEMMA MarketRecord ==
    ASSUME LocalInv, MarketInv, NEW r \in Requests, RecordReserved(r)
    PROVE  MarketInv'
<1> DEFINE c == job[r].cid
           t == work[r].tokens
<1>1. /\ Goto(r, "settle") /\ job' = job /\ releaseReservationLocked(r)
      /\ pc[r] = "record"
      /\ usage' = addUsage(usage, {c, work[r].provider}, t)
      /\ saved' = usage' \/ saved' = saved
  BY DEF RecordReserved
<1>2. /\ reserved[c] >= rsv[r]
      /\ reserved' = [reserved EXCEPT ![c] = @ - rsv[r]]
      /\ ReservationsExact'
  BY <1>1, HeldReleased DEF MarketInv
<1>3. /\ c \in Consumers /\ Limit \in [Consumers -> Nat]
      /\ Overshoot \in Nat /\ reserved \in [Consumers -> Nat]
      /\ usage \in [Accounts -> [requests : Nat, tokens : Nat]]
      /\ Consumers \subseteq Accounts
      /\ rsv[r] \in Nat /\ t \in Nat
      /\ Limit[c] > 0 => t <= rsv[r] + Overshoot
  BY <1>1, BillingAssumption
  DEF LocalInv, TypeOK, AllJobs, Accounts, ReservationHeld, WorkBounded
<1>4. /\ usage'[c].requests = usage[c].requests + 1
      /\ usage'[c].tokens = usage[c].tokens + t
  BY <1>1, <1>3 DEF addUsage
<1>5. \A d \in Consumers : d # c => usage'[d] = usage[d]
  BY <1>1, <1>3, BillingAssumption DEF addUsage, LocalInv, WorkBounded
<1>6. QuotaBound'
  <2> SUFFICES ASSUME NEW d \in Consumers, Limit[d] > 0
               PROVE  usage'[d].tokens + reserved'[d]
                        <= Limit[d] + Overshoot * usage'[d].requests
    BY DEF QuotaBound
  <2>1. usage[d].tokens + reserved[d] <= Limit[d] + Overshoot * usage[d].requests
    BY DEF MarketInv, QuotaBound
  <2>2. CASE d = c
    <3>1. /\ Overshoot * (usage[c].requests + 1)
               = Overshoot * usage[c].requests + Overshoot
          /\ Overshoot * usage[c].requests \in Nat
      BY <1>3, OneMoreRequest
    <3>2. reserved'[c] = reserved[c] - rsv[r]
      BY <1>2, <1>3
    <3>3. usage[c].tokens \in Nat /\ reserved[c] \in Nat /\ Limit[c] \in Nat
      BY <1>3
    <3>4. usage[c].tokens + t + (reserved[c] - rsv[r])
            <= Limit[c] + (Overshoot * usage[c].requests + Overshoot)
      BY <2>1, <2>2, <3>1, <3>3, <1>3
    <3> QED
      BY <2>2, <3>1, <3>2, <3>4, <1>4
  <2>3. CASE d # c
    BY <2>1, <2>3, <1>2, <1>3, <1>5
  <2> QED
    BY <2>2, <2>3
<1>7. SavedBound'
  <2>1. CASE saved' = saved
    BY <2>1 DEF MarketInv, SavedBound
  <2>2. CASE saved' = usage'
    <3> SUFFICES ASSUME NEW d \in Consumers, Limit[d] > 0
                 PROVE  usage'[d].tokens
                          <= Limit[d] + Overshoot * usage'[d].requests
      BY <2>2 DEF SavedBound
    <3>1. usage'[d].tokens + reserved'[d]
            <= Limit[d] + Overshoot * usage'[d].requests
      BY <1>6 DEF QuotaBound
    <3>2. /\ reserved'[d] \in Nat /\ usage'[d].tokens \in Nat
          /\ usage'[d].requests \in Nat
      BY <1>2, <1>3, <1>4, <1>5
    <3>3. Overshoot * usage'[d].requests \in Nat
      BY <3>2, <1>3, OneMoreRequest
    <3> QED
      BY <3>1, <3>2, <3>3, <1>3
  <2> QED
    BY <2>1, <2>2, <1>1
<1> QED
  BY <1>2, <1>6, <1>7 DEF MarketInv

\* A crash drops every reservation and goes back to the saved usage, which is
\* within the bound too.
LEMMA MarketCrash ==
    ASSUME LocalInv, MarketInv, Crash
    PROVE  MarketInv'
<1>1. ASSUME NEW c \in Consumers
      PROVE  HeldTokens(c)' = {} /\ reserved'[c] = 0
  BY DEF Crash, HeldTokens
<1>2. ReservationsExact'
  BY <1>1, FS_EmptySet DEF ReservationsExact
<1>3. QuotaBound'
  BY <1>1, BillingAssumption
  DEF Crash, QuotaBound, SavedBound, MarketInv, LocalInv, TypeOK, Accounts
<1> QED
  BY <1>2, <1>3 DEF Crash, SavedBound, MarketInv

-----------------------------------------------------------------------------
(* Claims on idempotency keys.                                             *)

\* The requests that hold or held a claim on a key can be counted.
LEMMA ClaimantsFinite ==
    ASSUME NEW k
    PROVE  /\ IsFiniteSet(Claimants(k)) /\ Cardinality(Claimants(k)) \in Nat
           /\ IsFiniteSet(Claimants(k)') /\ Cardinality(Claimants(k)') \in Nat
<1>1. Claimants(k) \in SUBSET Requests /\ Claimants(k)' \in SUBSET Requests
  BY DEF Claimants
<1>2. IsFiniteSet(Claimants(k)) /\ IsFiniteSet(Claimants(k)')
  BY <1>1, FS_Subset, BillingAssumption
<1> QED
  BY <1>2, FS_CardinalityType

\* Steps that add no claimant and delete no row keep the count of claims.
LEMMA ClaimsKept ==
    ASSUME LocalInv, ClaimsCounted, reclaims' = reclaims,
           \A k \in ScopedKeys :
               /\ Claimants(k)' \subseteq Claimants(k)
               /\ row[k].status # "none" => row'[k].status # "none"
    PROVE  ClaimsCounted'
<1> SUFFICES ASSUME NEW k \in ScopedKeys
             PROVE  Cardinality(Claimants(k)')
                      <= (IF row'[k].status = "none" THEN 0 ELSE 1) + reclaims'[k]
  BY DEF ClaimsCounted
<1>1. Cardinality(Claimants(k)') <= Cardinality(Claimants(k))
  BY ClaimantsFinite, FS_Subset
<1>2. /\ Cardinality(Claimants(k)) \in Nat /\ Cardinality(Claimants(k)') \in Nat
      /\ reclaims[k] \in Nat
  BY ClaimantsFinite DEF LocalInv, TypeOK
<1>3. Cardinality(Claimants(k))
        <= (IF row[k].status = "none" THEN 0 ELSE 1) + reclaims[k]
  BY DEF ClaimsCounted
<1> QED
  BY <1>1, <1>2, <1>3

\* Every step but Begin and Abort: no request becomes a claimant, no row
\* disappears.
\* A handler step that does not claim a key adds no claimant: only requests
\* that hold a claim are billed.
LEMMA ClaimsStep ==
    ASSUME LocalInv, ClaimsCounted,
           NEW r \in Requests, NEW l,
           pc[r] # "idle", Goto(r, l), job' = job, reclaims' = reclaims,
           \A k \in ScopedKeys : row[k].status # "none" => row'[k].status # "none",
           billed' \subseteq billed \cup {r},
           \/ pc[r] \in Waiting
           \/ ~Keyed(r)
           \/ l \notin Waiting /\ billed' = billed
    PROVE  ClaimsCounted'
<1>1. ASSUME NEW k \in ScopedKeys
      PROVE  Claimants(k)' \subseteq Claimants(k)
  BY DEF Claimants, Goto, Keyed, ScopedKey, LocalInv, TypeOK
<1> QED
  BY <1>1, ClaimsKept

\* Begin pays for a new claimant with the row it inserts or, for a stale row,
\* with a takeover; replays and conflicts add none.
LEMMA ClaimsBegin ==
    ASSUME LocalInv, ClaimsCounted, NEW r \in Requests, Begin(r)
    PROVE  ClaimsCounted'
<1> DEFINE k == ScopedKey(r)
<1>1. /\ k \in ScopedKeys /\ pc[r] = "begin" /\ job' = job /\ billed' = billed
      /\ r \notin billed
  BY BillingAssumption
  DEF Begin, Keyed, ScopedKey, ScopedKeys, LocalInv, TypeOK, AllJobs, BilledPlace
<1>2. \/ /\ row' = [row EXCEPT ![k] = NewClaim]
         /\ \/ row[k].status = "none" /\ reclaims' = reclaims
            \/ /\ row[k].status # "none"
               /\ reclaims' = [reclaims EXCEPT ![k] = @ + 1]
         /\ Goto(r, "reserve")
      \/ /\ UNCHANGED <<row, reclaims>>
         /\ Goto(r, "done")
  BY DEF Begin, Answer, Refuse
<1>3. CASE UNCHANGED <<row, reclaims>> /\ Goto(r, "done")
  BY <1>1, <1>3, ClaimsStep DEF Waiting
<1>4. CASE /\ row' = [row EXCEPT ![k] = NewClaim]
           /\ \/ row[k].status = "none" /\ reclaims' = reclaims
              \/ /\ row[k].status # "none"
                 /\ reclaims' = [reclaims EXCEPT ![k] = @ + 1]
           /\ Goto(r, "reserve")
  <2> SUFFICES ASSUME NEW q \in ScopedKeys
               PROVE  Cardinality(Claimants(q)')
                        <= (IF row'[q].status = "none" THEN 0 ELSE 1) + reclaims'[q]
    BY DEF ClaimsCounted
  <2>1. /\ IsFiniteSet(Claimants(q)) /\ Cardinality(Claimants(q)) \in Nat
        /\ Cardinality(Claimants(q)') \in Nat
        /\ reclaims \in [ScopedKeys -> Nat]
    BY ClaimantsFinite DEF LocalInv, TypeOK
  <2>2. Cardinality(Claimants(q))
          <= (IF row[q].status = "none" THEN 0 ELSE 1) + reclaims[q]
    BY DEF ClaimsCounted
  <2>3. CASE q = k
    <3>1. Claimants(q)' = Claimants(q) \cup {r} /\ r \notin Claimants(q)
      BY <1>1, <1>4, <2>3
      DEF Claimants, Goto, Keyed, ScopedKey, Waiting, Begin, LocalInv, TypeOK
    <3>2. Cardinality(Claimants(q)') = Cardinality(Claimants(q)) + 1
      BY <2>1, <3>1, FS_AddElement
    <3>3. row'[k].status = "in_progress"
      BY <1>1, <1>4 DEF NewClaim, LocalInv, TypeOK
    <3> QED
      BY <1>1, <1>4, <2>1, <2>2, <2>3, <3>2, <3>3
  <2>4. CASE q # k
    <3>1. Claimants(q)' = Claimants(q)
      BY <1>1, <1>4, <2>4 DEF Claimants, Goto, Keyed, ScopedKey, LocalInv, TypeOK
    <3>2. row'[q] = row[q] /\ reclaims'[q] = reclaims[q]
      BY <1>1, <1>4, <2>1, <2>4 DEF LocalInv, TypeOK
    <3> QED
      BY <3>1, <3>2, <2>2
  <2> QED
    BY <2>3, <2>4
<1> QED
  BY <1>2, <1>3, <1>4

\* Abort deletes the row, whoever claimed it, and gives up its own claim: the
\* count falls with the row.
LEMMA ClaimsAbort ==
    ASSUME LocalInv, ClaimsCounted, NEW r \in Requests, Abort(r)
    PROVE  ClaimsCounted'
<1> DEFINE k == ScopedKey(r)
<1>1. /\ k \in ScopedKeys /\ pc[r] = "abort" /\ Keyed(r) /\ job' = job
      /\ billed' = billed /\ reclaims' = reclaims /\ r \notin billed
      /\ Goto(r, "done")
  BY BillingAssumption
  DEF Abort, Keyed, ScopedKey, ScopedKeys, LocalInv, TypeOK, AllJobs,
      BilledPlace, AbortKeyed, historyVars
<1> SUFFICES ASSUME NEW q \in ScopedKeys
             PROVE  Cardinality(Claimants(q)')
                      <= (IF row'[q].status = "none" THEN 0 ELSE 1) + reclaims[q]
  BY <1>1 DEF ClaimsCounted
<1>2. /\ IsFiniteSet(Claimants(q)) /\ Cardinality(Claimants(q)) \in Nat
      /\ Cardinality(Claimants(q)') \in Nat
      /\ reclaims[q] \in Nat
  BY ClaimantsFinite DEF LocalInv, TypeOK
<1>3. Cardinality(Claimants(q))
        <= (IF row[q].status = "none" THEN 0 ELSE 1) + reclaims[q]
  BY DEF ClaimsCounted
<1>4. CASE q = k
  <2>1. Claimants(q)' = Claimants(q) \ {r} /\ r \in Claimants(q)
    BY <1>1, <1>4 DEF Claimants, Goto, ScopedKey, Keyed, Waiting, LocalInv, TypeOK
  <2>2. Cardinality(Claimants(q)') = Cardinality(Claimants(q)) - 1
    BY <1>2, <2>1, FS_RemoveElement
  <2> QED
    BY <1>2, <1>3, <2>2
<1>5. CASE q # k
  <2>1. Claimants(q)' = Claimants(q)
    BY <1>1, <1>5 DEF Claimants, Goto, ScopedKey, Keyed, LocalInv, TypeOK
  <2>2. row'[q] = row[q]
    BY <1>1, <1>5 DEF Abort, LocalInv, TypeOK
  <2> QED
    BY <1>3, <2>1, <2>2
<1> QED
  BY <1>4, <1>5

-----------------------------------------------------------------------------
(* The invariant.                                                          *)

\* The invariant holds when the coordinator starts on empty stores.
LEMMA CoreInit == Init => CoreInv
<1> SUFFICES ASSUME Init PROVE CoreInv
  OBVIOUS
<1>1. LocalInv
  BY LocalInit
<1>2. ASSUME NEW c \in Consumers
      PROVE  HeldTokens(c) = {} /\ reserved[c] = 0
  BY DEF Init, HeldTokens
<1>3. ReservationsExact
  BY <1>2, FS_EmptySet DEF ReservationsExact
<1>4. QuotaBound /\ SavedBound
  BY BillingAssumption DEF Init, QuotaBound, SavedBound, NoUsage, Accounts
<1>5. ASSUME NEW k \in ScopedKeys
      PROVE  Claimants(k) = {} /\ reclaims[k] = 0
  BY DEF Init, Claimants
<1>6. ClaimsCounted
  BY <1>5, FS_EmptySet DEF ClaimsCounted
<1> QED
  BY <1>1, <1>3, <1>4, <1>6 DEF CoreInv

\* Every handler step, failing store write, expired claim and crash preserves
\* the invariant.
LEMMA CoreStep ==
    ASSUME CoreInv, [Next]_vars
    PROVE  CoreInv'
<1> DEFINE Keep == UNCHANGED <<rsv, marketVars>>
<1>1. LocalInv /\ MarketInv /\ ClaimsCounted /\ LocalInv'
  BY LocalStep DEF CoreInv, MarketInv
<1> SUFFICES MarketInv' /\ ClaimsCounted'
  BY <1>1 DEF CoreInv, MarketInv
<1>2. ASSUME NEW r \in Requests, Arrive(r)
      PROVE  MarketInv' /\ ClaimsCounted'
  <2>1. /\ Keep /\ reclaims' = reclaims /\ row' = row /\ billed' = billed
        /\ \A q \in Requests : pc[q] # "idle" => job'[q] = job[q]
        /\ \A q \in Requests : q # r => job'[q] = job[q] /\ pc'[q] = pc[q]
        /\ pc'[r] = "gate" /\ r \notin billed
    BY <1>1, <1>2
    DEF Arrive, Goto, historyVars, LocalInv, TypeOK, BilledPlace
  <2>2. MarketInv'
    BY <1>1, <2>1, MarketKept
  <2>3. ASSUME NEW k \in ScopedKeys
        PROVE  Claimants(k)' \subseteq Claimants(k)
    BY <2>1 DEF Claimants, Keyed, ScopedKey, Waiting
  <2> QED
    BY <1>1, <2>1, <2>2, <2>3, ClaimsKept
<1>3. ASSUME NEW r \in Requests, CheckConsumerQuota(r)
      PROVE  MarketInv' /\ ClaimsCounted'
  <2>1. PICK l \in {"begin", "done"} : Goto(r, l)
    BY <1>3 DEF CheckConsumerQuota, Refuse, Answer
  <2>2. /\ Keep /\ job' = job /\ reclaims' = reclaims /\ billed' = billed
        /\ row' = row
        /\ pc[r] = "gate"
    BY <1>1, <1>3 DEF CheckConsumerQuota, historyVars
  <2> QED
    BY <1>1, <2>1, <2>2, MarketKept, ClaimsStep DEF Waiting
<1>4. ASSUME NEW r \in Requests, RefuseStreamKey(r)
      PROVE  MarketInv' /\ ClaimsCounted'
  <2>1. Goto(r, "done")
    BY <1>4 DEF RefuseStreamKey, Refuse, Answer
  <2>2. /\ Keep /\ job' = job /\ reclaims' = reclaims /\ billed' = billed
        /\ row' = row
        /\ pc[r] = "begin"
    BY <1>1, <1>4 DEF RefuseStreamKey, historyVars
  <2> QED
    BY <1>1, <2>1, <2>2, MarketKept, ClaimsStep DEF Waiting
<1>5. ASSUME NEW r \in Requests, SkipBegin(r)
      PROVE  MarketInv' /\ ClaimsCounted'
  <2>1. Goto(r, "reserve")
    BY <1>5 DEF SkipBegin
  <2>2. /\ Keep /\ job' = job /\ reclaims' = reclaims /\ billed' = billed
        /\ row' = row
        /\ pc[r] = "begin" /\ ~Keyed(r)
    BY <1>1, <1>5 DEF SkipBegin, historyVars, Keyed
  <2> QED
    BY <1>1, <2>1, <2>2, MarketKept, ClaimsStep DEF Waiting
<1>6. ASSUME NEW r \in Requests, Begin(r)
      PROVE  MarketInv' /\ ClaimsCounted'
  <2>1. Keep /\ job' = job
    BY <1>6 DEF Begin
  <2> QED
    BY <1>1, <1>6, <2>1, MarketKept, ClaimsBegin
<1>7. ASSUME NEW r \in Requests, BeginFails(r)
      PROVE  MarketInv' /\ ClaimsCounted'
  <2>1. Goto(r, "done")
    BY <1>7 DEF BeginFails, Refuse, Answer
  <2>2. /\ Keep /\ job' = job /\ reclaims' = reclaims /\ billed' = billed
        /\ row' = row
        /\ pc[r] = "begin"
    BY <1>1, <1>7 DEF BeginFails, historyVars
  <2> QED
    BY <1>1, <2>1, <2>2, MarketKept, ClaimsStep DEF Waiting
<1>8. ASSUME NEW r \in Requests, ReserveConsumerQuota(r)
      PROVE  MarketInv' /\ ClaimsCounted'
  <2>1. MarketInv'
    BY <1>1, <1>8, MarketReserve
  <2>2. /\ Goto(r, "dispatch") /\ pc[r] = "reserve" /\ job' = job
        /\ reclaims' = reclaims /\ row' = row /\ billed' = billed
    BY <1>8 DEF ReserveConsumerQuota, historyVars
  <2> QED
    BY <1>1, <2>1, <2>2, ClaimsStep DEF Waiting
<1>9. ASSUME NEW r \in Requests, ReserveRefused(r)
      PROVE  MarketInv' /\ ClaimsCounted'
  <2>1. PICK l \in {"abort", "done"} : Goto(r, l)
    BY <1>9 DEF ReserveRefused, Refuse, Answer
  <2>2. /\ Keep /\ job' = job /\ reclaims' = reclaims /\ billed' = billed
        /\ row' = row
        /\ pc[r] = "reserve"
    BY <1>1, <1>9 DEF ReserveRefused, historyVars
  <2> QED
    BY <1>1, <2>1, <2>2, MarketKept, ClaimsStep DEF Waiting
<1>10. ASSUME NEW r \in Requests, DispatchSucceeds(r)
      PROVE  MarketInv' /\ ClaimsCounted'
  <2>1. Goto(r, "record")
    BY <1>10 DEF DispatchSucceeds
  <2>2. /\ Keep /\ job' = job /\ reclaims' = reclaims /\ billed' = billed
        /\ row' = row
        /\ pc[r] = "dispatch"
    BY <1>1, <1>10 DEF DispatchSucceeds, historyVars
  <2> QED
    BY <1>1, <2>1, <2>2, MarketKept, ClaimsStep DEF Waiting
<1>11. ASSUME NEW r \in Requests, DispatchFails(r)
      PROVE  MarketInv' /\ ClaimsCounted'
  <2>1. Goto(r, "release")
    BY <1>11 DEF DispatchFails
  <2>2. /\ Keep /\ job' = job /\ reclaims' = reclaims /\ billed' = billed
        /\ row' = row
        /\ pc[r] = "dispatch"
    BY <1>1, <1>11 DEF DispatchFails, historyVars
  <2> QED
    BY <1>1, <2>1, <2>2, MarketKept, ClaimsStep DEF Waiting
<1>12. ASSUME NEW r \in Requests, ReleaseReservation(r)
      PROVE  MarketInv' /\ ClaimsCounted'
  <2>1. MarketInv'
    BY <1>1, <1>12, MarketRelease
  <2>2. PICK l \in {"abort", "done"} : Goto(r, l)
    BY <1>12 DEF ReleaseReservation
  <2>3. /\ pc[r] = "release" /\ job' = job
        /\ reclaims' = reclaims /\ row' = row /\ billed' = billed
    BY <1>12 DEF ReleaseReservation, historyVars
  <2> QED
    BY <1>1, <2>1, <2>2, <2>3, ClaimsStep DEF Waiting
<1>13. ASSUME NEW r \in Requests, Abort(r)
      PROVE  MarketInv' /\ ClaimsCounted'
  <2>1. Keep /\ job' = job
    BY <1>13 DEF Abort
  <2> QED
    BY <1>1, <1>13, <2>1, MarketKept, ClaimsAbort
<1>14. ASSUME NEW r \in Requests, AbortFails(r)
      PROVE  MarketInv' /\ ClaimsCounted'
  <2>1. Goto(r, "done")
    BY <1>14 DEF AbortFails
  <2>2. /\ Keep /\ job' = job /\ reclaims' = reclaims /\ billed' = billed
        /\ row' = row
        /\ pc[r] = "abort"
    BY <1>1, <1>14 DEF AbortFails, historyVars
  <2> QED
    BY <1>1, <2>1, <2>2, MarketKept, ClaimsStep DEF Waiting
<1>15. ASSUME NEW r \in Requests, RecordReserved(r)
      PROVE  MarketInv' /\ ClaimsCounted'
  <2>1. MarketInv'
    BY <1>1, <1>15, MarketRecord
  <2>2. /\ Goto(r, "settle") /\ pc[r] = "record" /\ job' = job
        /\ reclaims' = reclaims /\ row' = row /\ billed' = billed \cup {r}
    BY <1>15 DEF RecordReserved, historyVars
  <2> QED
    BY <1>1, <2>1, <2>2, ClaimsStep DEF Waiting
<1>16. ASSUME NEW r \in Requests, RecordSettlement(r)
      PROVE  MarketInv' /\ ClaimsCounted'
  <2>1. PICK l \in {"complete", "respond"} : Goto(r, l)
    BY <1>16 DEF RecordSettlement
  <2>2. /\ Keep /\ job' = job /\ reclaims' = reclaims /\ billed' = billed
        /\ row' = row
        /\ pc[r] = "settle"
    BY <1>1, <1>16 DEF RecordSettlement, historyVars
  <2> QED
    BY <1>1, <2>1, <2>2, MarketKept, ClaimsStep DEF Waiting
<1>17. ASSUME NEW r \in Requests, Complete(r)
      PROVE  MarketInv' /\ ClaimsCounted'
  <2>1. Goto(r, "respond")
    BY <1>17 DEF Complete
  <2>2. /\ Keep /\ job' = job /\ reclaims' = reclaims /\ billed' = billed
        /\ \A k \in ScopedKeys : row[k].status # "none" => row'[k].status # "none"
        /\ pc[r] = "complete"
    BY <1>1, <1>17 DEF Complete, historyVars, LocalInv, TypeOK
  <2> QED
    BY <1>1, <2>1, <2>2, MarketKept, ClaimsStep DEF Waiting
<1>18. ASSUME NEW r \in Requests, CompleteFails(r)
      PROVE  MarketInv' /\ ClaimsCounted'
  <2>1. Goto(r, "done")
    BY <1>18 DEF CompleteFails, Refuse, Answer
  <2>2. /\ Keep /\ job' = job /\ reclaims' = reclaims /\ billed' = billed
        /\ row' = row
        /\ pc[r] = "complete"
    BY <1>1, <1>18 DEF CompleteFails, historyVars
  <2> QED
    BY <1>1, <2>1, <2>2, MarketKept, ClaimsStep DEF Waiting
<1>19. ASSUME NEW r \in Requests, Respond(r)
      PROVE  MarketInv' /\ ClaimsCounted'
  <2>1. Goto(r, "done")
    BY <1>19 DEF Respond, Answer
  <2>2. /\ Keep /\ job' = job /\ reclaims' = reclaims /\ billed' = billed
        /\ row' = row
        /\ pc[r] = "respond"
    BY <1>1, <1>19 DEF Respond, historyVars
  <2> QED
    BY <1>1, <2>1, <2>2, MarketKept, ClaimsStep DEF Waiting
<1>20. ASSUME NEW k \in ScopedKeys, ClaimExpires(k)
      PROVE  MarketInv' /\ ClaimsCounted'
  <2>1. /\ Keep /\ job' = job /\ reclaims' = reclaims /\ billed' = billed
        /\ pc' = pc
    BY <1>20 DEF ClaimExpires, historyVars
  <2>2. \A q \in ScopedKeys : row[q].status # "none" => row'[q].status # "none"
    BY <1>1, <1>20 DEF ClaimExpires, LocalInv, TypeOK
  <2>3. \A q \in ScopedKeys : Claimants(q)' = Claimants(q)
    BY <2>1 DEF Claimants, Keyed, ScopedKey
  <2> QED
    BY <1>1, <2>1, <2>2, <2>3, MarketKept, ClaimsKept
<1>21. ASSUME Crash
      PROVE  MarketInv' /\ ClaimsCounted'
  <2>1. MarketInv'
    BY <1>1, <1>21, MarketCrash
  <2>2. \A k \in ScopedKeys : Claimants(k)' \subseteq Claimants(k)
    BY <1>1, <1>21
    DEF Crash, Claimants, Keyed, ScopedKey, Running, Waiting, LocalInv, TypeOK
  <2>3. reclaims' = reclaims /\ row' = row
    BY <1>21 DEF Crash
  <2> QED
    BY <1>1, <2>1, <2>2, <2>3, ClaimsKept
<1>22. ASSUME UNCHANGED vars
      PROVE  MarketInv' /\ ClaimsCounted'
  <2>1. /\ Keep /\ job' = job /\ reclaims' = reclaims /\ billed' = billed
        /\ pc' = pc /\ row' = row
    BY <1>22 DEF vars, marketVars
  <2>2. \A q \in ScopedKeys : Claimants(q)' = Claimants(q)
    BY <2>1 DEF Claimants, Keyed, ScopedKey
  <2> QED
    BY <1>1, <2>1, <2>2, MarketKept, ClaimsKept
<1> HIDE DEF Keep
<1> QED
  BY <1>2, <1>3, <1>4, <1>5, <1>6, <1>7, <1>8, <1>9, <1>10, <1>11, <1>12, <1>13, <1>14, <1>15, <1>16, <1>17, <1>18, <1>19, <1>20, <1>21, <1>22
  DEF Next, Handle, Quiet

\* For any number of concurrent requests, accounts, keys, limits, failed writes
\* and crashes, reservations, usage and claims always add up.
THEOREM CoreInvariant == Spec => []CoreInv
<1>1. Init => CoreInv
  BY CoreInit
<1>2. CoreInv /\ [Next]_vars => CoreInv'
  BY CoreStep
<1> QED
  BY <1>1, <1>2, PTL DEF Spec

\* The billing state always has its types; reserved tokens and usage never
\* become negative.
THEOREM TypeCorrect == Spec => []TypeOK
<1>1. CoreInv => TypeOK
  BY DEF CoreInv, LocalInv
<1> QED
  BY <1>1, CoreInvariant, PTL

\* market.reservedUse is always exactly what running requests hold: no order of
\* reserve, release, record and crash leaks quota or returns it twice.
THEOREM ReservationsAreExact == Spec => []ReservationsExact
<1>1. CoreInv => ReservationsExact
  BY DEF CoreInv
<1> QED
  BY <1>1, CoreInvariant, PTL

\* A consumer with a limit never has more used and reserved than the limit plus
\* one overshoot per recorded request, however its requests interleave.
THEOREM QuotaIsBounded == Spec => []QuotaBound
<1>1. CoreInv => QuotaBound
  BY DEF CoreInv
<1> QED
  BY <1>1, CoreInvariant, PTL

\* An idempotency key is billed at most once plus once for every takeover of a
\* stale claim: a key whose claim never went stale is billed at most once.
THEOREM ChargesAreBounded == Spec => []ChargesBounded
<1>1. ASSUME CoreInv, NEW k \in ScopedKeys
      PROVE  Cardinality(Billed(k)) <= 1 + reclaims[k]
  <2>1. Billed(k) \subseteq Claimants(k)
    BY <1>1 DEF Billed, Claimants, CoreInv, LocalInv, TypeOK, BilledPlace
  <2>2. /\ IsFiniteSet(Claimants(k)) /\ Cardinality(Claimants(k)) \in Nat
    BY ClaimantsFinite
  <2>3. IsFiniteSet(Billed(k)) /\ Cardinality(Billed(k)) <= Cardinality(Claimants(k))
    BY <2>1, <2>2, FS_Subset
  <2>4. Cardinality(Billed(k)) \in Nat /\ reclaims[k] \in Nat
    BY <1>1, <2>3, FS_CardinalityType DEF CoreInv, LocalInv, TypeOK
  <2>5. Cardinality(Claimants(k))
          <= (IF row[k].status = "none" THEN 0 ELSE 1) + reclaims[k]
    BY <1>1 DEF CoreInv, ClaimsCounted
  <2> QED
    BY <2>2, <2>3, <2>4, <2>5
<1>2. CoreInv => ChargesBounded
  BY <1>1 DEF ChargesBounded
<1> QED
  BY <1>2, CoreInvariant, PTL

-----------------------------------------------------------------------------
(* Answers and claims.                                                     *)

\* A key without a takeover has one claimant: with two the row and the
\* takeovers could not pay for both (Begin inserts one row per key).
LEMMA OneClaimant ==
    ASSUME CoreInv, NEW k \in ScopedKeys, reclaims[k] = 0,
           NEW q \in Claimants(k), NEW r \in Claimants(k)
    PROVE  q = r
<1> SUFFICES ASSUME q # r PROVE FALSE
  OBVIOUS
<1>1. IsFiniteSet(Claimants(k)) /\ Cardinality(Claimants(k)) \in Nat
  BY ClaimantsFinite
<1>2. {q, r} \subseteq Claimants(k)
  OBVIOUS
<1>3. IsFiniteSet({q}) /\ Cardinality({q}) = 1
  BY FS_Singleton
<1>4. Cardinality({q} \cup {r}) = 2
  <2>1. r \notin {q}
    OBVIOUS
  <2>2. Cardinality({q} \cup {r}) = Cardinality({q}) + 1
    BY <1>3, <2>1, FS_AddElement
  <2> QED
    BY <1>3, <2>2
<1>5. {q} \cup {r} = {q, r}
  OBVIOUS
<1>6. Cardinality({q, r}) <= Cardinality(Claimants(k))
  BY <1>1, <1>2, FS_Subset
<1>7. Cardinality(Claimants(k))
        <= (IF row[k].status = "none" THEN 0 ELSE 1) + reclaims[k]
  BY DEF CoreInv, ClaimsCounted
<1> QED
  BY <1>1, <1>4, <1>5, <1>6, <1>7

\* A billed request of a key is one of its claimants.
LEMMA BilledClaim ==
    ASSUME LocalInv, NEW k
    PROVE  Billed(k) \subseteq Claimants(k)
  BY DEF Billed, Claimants, LocalInv, TypeOK, BilledPlace

\* The key of a keyed request is a row of the idempotency table.
LEMMA KeyOfRequest ==
    ASSUME LocalInv, NEW r \in Requests, pc[r] # "idle", Keyed(r)
    PROVE  ScopedKey(r) \in ScopedKeys
  BY BillingAssumption
  DEF LocalInv, TypeOK, AllJobs, Keyed, ScopedKey, ScopedKeys

\* No request is ever taken off the bill of a key.
LEMMA StillBilled ==
    ASSUME LocalInv, billed \subseteq billed',
           \A r \in Requests : pc[r] # "idle" => job'[r] = job[r], NEW k
    PROVE  Billed(k) \subseteq Billed(k)'
  BY DEF Billed, Keyed, ScopedKey, LocalInv, TypeOK, BilledPlace

\* A handler step that bills nobody else, answers nobody with a completion and
\* leaves the table alone keeps every completion billed.
LEMMA BilledKept ==
    ASSUME LocalInv, LocalInv', BilledBefore, NEW r \in Requests, NEW l,
           pc[r] # "idle", Goto(r, l), job' = job, billed' = billed,
           \A q \in Requests : q # r => reply'[q] = reply[q],
           \/ l \notin {"release", "abort", "done"}
           \/ reply'[r].status \notin {"200", "replay"}
           \/ pc[r] \in {"release", "abort"} /\ reply' = reply,
           l \in {"settle", "complete", "respond"} => r \in billed,
           row' = row
    PROVE  BilledBefore'
<1>1. \A k : Billed(k)' = Billed(k)
  BY DEF Billed, Keyed, ScopedKey
<1>2. \A q \in Requests : q # r => pc'[q] = pc[q]
  BY DEF Goto, LocalInv, TypeOK
<1>3. pc'[r] = l
  BY DEF Goto, LocalInv, TypeOK
<1> QED
  BY <1>1, <1>2, <1>3 DEF BilledBefore, ScopedKey

\* What a request is refused with is never a completion.
LEMMA RefusalIsNoCompletion ==
    ASSUME LocalInv, NEW r \in Requests, NEW s \in {"400", "402", "409", "500"},
           Refuse(r, s)
    PROVE  /\ Goto(r, "done")
           /\ \A q \in Requests : q # r => reply'[q] = reply[q]
           /\ reply'[r].status \notin {"200", "replay"}
  BY DEF Refuse, Answer, LocalInv, TypeOK

\* Every step keeps each completion billed before anyone gets it: a replay is
\* taken from a row that Complete wrote for a billed request, a fresh answer
\* follows RecordReserved in the same goroutine.
LEMMA BilledStep ==
    ASSUME CoreInv, BilledBefore, [Next]_vars
    PROVE  BilledBefore'
<1>1. LocalInv /\ LocalInv'
  BY LocalStep DEF CoreInv
<1>2. ASSUME NEW r \in Requests, Arrive(r) PROVE BilledBefore'
  <2>1. /\ billed' = billed /\ row' = row /\ reply' = reply
        /\ \A q \in Requests : pc[q] # "idle" => job'[q] = job[q]
        /\ \A q \in Requests : q # r => job'[q] = job[q] /\ pc'[q] = pc[q]
        /\ pc'[r] = "gate"
    BY <1>1, <1>2 DEF Arrive, Goto, LocalInv, TypeOK
  <2>2. \A k : Billed(k) \subseteq Billed(k)'
    BY <1>1, <2>1, StillBilled
  <2> QED
    BY <2>1, <2>2 DEF BilledBefore, ScopedKey
<1>3. ASSUME NEW r \in Requests, CheckConsumerQuota(r) PROVE BilledBefore'
  <2>1. CASE checkConsumerQuotaLocked(job[r].cid, 0)
    BY <1>1, <1>3, <2>1, BilledKept DEF CheckConsumerQuota
  <2>2. CASE ~checkConsumerQuotaLocked(job[r].cid, 0)
    BY <1>1, <1>3, <2>2, BilledKept, RefusalIsNoCompletion DEF CheckConsumerQuota
  <2> QED
    BY <2>1, <2>2
<1>4. ASSUME NEW r \in Requests, RefuseStreamKey(r) PROVE BilledBefore'
  BY <1>1, <1>4, BilledKept, RefusalIsNoCompletion DEF RefuseStreamKey
<1>5. ASSUME NEW r \in Requests, SkipBegin(r) PROVE BilledBefore'
  BY <1>1, <1>5, BilledKept DEF SkipBegin
<1>6. ASSUME NEW r \in Requests, Begin(r) PROVE BilledBefore'
  <2> DEFINE k == ScopedKey(r)
  <2>1. /\ k \in ScopedKeys /\ pc[r] = "begin" /\ job' = job /\ billed' = billed
    BY <1>1, <1>6, KeyOfRequest DEF Begin
  <2>2. \/ /\ row' = [row EXCEPT ![k] = NewClaim]
           /\ Goto(r, "reserve")
           /\ reply' = reply
        \/ /\ row[k].status = "completed"
           /\ Answer(r, "replay", row[k].body)
           /\ row' = row
        \/ Refuse(r, "409") /\ row' = row
    BY <1>6 DEF Begin
  <2>3. \A q : Billed(q)' = Billed(q)
    BY <2>1 DEF Billed, Keyed, ScopedKey
  <2>4. CASE row' = [row EXCEPT ![k] = NewClaim] /\ Goto(r, "reserve") /\ reply' = reply
    <3>1. \A q \in ScopedKeys : row'[q].status = "completed" => row'[q] = row[q]
      BY <1>1, <2>1, <2>4 DEF NewClaim, LocalInv, TypeOK
    <3>2. \A q \in Requests : pc'[q] # pc[q] => pc'[q] = "reserve"
      BY <1>1, <2>4 DEF Goto, LocalInv, TypeOK
    <3> QED
      BY <2>1, <2>3, <2>4, <3>1, <3>2 DEF BilledBefore, ScopedKey
  <2>5. CASE /\ row[k].status = "completed"
             /\ Answer(r, "replay", row[k].body)
             /\ row' = row
    <3>1. row[k].body \in Billed(k)
      BY <2>1, <2>5 DEF BilledBefore
    <3>2. /\ \A q \in Requests : q # r => reply'[q] = reply[q] /\ pc'[q] = pc[q]
          /\ pc'[r] = "done"
          /\ reply'[r].status = "replay" /\ reply'[r].body = row[k].body
      BY <1>1, <2>5 DEF Answer, Goto, LocalInv, TypeOK
    <3>3. \A q \in Requests : ScopedKey(q)' = ScopedKey(q)
      BY <2>1 DEF ScopedKey
    <3> HIDE DEF k
    <3>4. k = ScopedKey(r)
      BY DEF k
    <3> QED
      BY <2>1, <2>3, <2>5, <3>1, <3>2, <3>3, <3>4 DEF BilledBefore
  <2>6. CASE Refuse(r, "409") /\ row' = row
    BY <1>1, <2>1, <2>6, BilledKept, RefusalIsNoCompletion
  <2> QED
    BY <2>2, <2>4, <2>5, <2>6
<1>7. ASSUME NEW r \in Requests, BeginFails(r) PROVE BilledBefore'
  BY <1>1, <1>7, BilledKept, RefusalIsNoCompletion DEF BeginFails
<1>8. ASSUME NEW r \in Requests, ReserveConsumerQuota(r) PROVE BilledBefore'
  BY <1>1, <1>8, BilledKept DEF ReserveConsumerQuota
<1>9. ASSUME NEW r \in Requests, ReserveRefused(r) PROVE BilledBefore'
  <2>1. CASE Keyed(r)
    <3>1. /\ Goto(r, "abort") /\ job' = job /\ billed' = billed /\ row' = row
          /\ pc[r] = "reserve"
          /\ reply' = [reply EXCEPT ![r] = [status |-> "402", body |-> "none"]]
      BY <1>9, <2>1 DEF ReserveRefused
    <3>2. /\ reply'[r].status = "402"
          /\ \A q \in Requests : q # r => reply'[q] = reply[q]
      BY <1>1, <3>1 DEF LocalInv, TypeOK
    <3> QED
      BY <1>1, <3>1, <3>2, BilledKept
  <2>2. CASE ~Keyed(r)
    BY <1>1, <1>9, <2>2, BilledKept, RefusalIsNoCompletion DEF ReserveRefused
  <2> QED
    BY <2>1, <2>2
<1>10. ASSUME NEW r \in Requests, DispatchSucceeds(r) PROVE BilledBefore'
  BY <1>1, <1>10, BilledKept DEF DispatchSucceeds
<1>11. ASSUME NEW r \in Requests, DispatchFails(r) PROVE BilledBefore'
  BY <1>1, <1>11, BilledKept DEF DispatchFails, LocalInv, TypeOK
<1>12. ASSUME NEW r \in Requests, ReleaseReservation(r) PROVE BilledBefore'
  <2>1. PICK l \in {"abort", "done"} : Goto(r, l)
    BY <1>12 DEF ReleaseReservation
  <2> QED
    BY <1>1, <1>12, <2>1, BilledKept DEF ReleaseReservation
<1>13. ASSUME NEW r \in Requests, Abort(r) PROVE BilledBefore'
  <2> DEFINE k == ScopedKey(r)
  <2>1. /\ pc[r] = "abort" /\ job' = job /\ billed' = billed /\ reply' = reply
        /\ \A q \in Requests : q # r => pc'[q] = pc[q]
        /\ pc'[r] = "done"
    BY <1>1, <1>13 DEF Abort, Goto, LocalInv, TypeOK
  <2>2. \A q \in ScopedKeys : row'[q].status = "completed" => row'[q] = row[q]
    BY <1>1, <1>13 DEF Abort, NoRow, LocalInv, TypeOK
  <2>3. \A q : Billed(q)' = Billed(q)
    BY <2>1 DEF Billed, Keyed, ScopedKey
  <2> QED
    BY <2>1, <2>2, <2>3 DEF BilledBefore, ScopedKey
<1>14. ASSUME NEW r \in Requests, AbortFails(r) PROVE BilledBefore'
  BY <1>1, <1>14, BilledKept DEF AbortFails
<1>15. ASSUME NEW r \in Requests, RecordReserved(r) PROVE BilledBefore'
  <2>1. /\ pc[r] = "record" /\ job' = job /\ billed' = billed \cup {r}
        /\ reply' = reply /\ row' = row
        /\ \A q \in Requests : q # r => pc'[q] = pc[q]
        /\ pc'[r] = "settle"
    BY <1>1, <1>15 DEF RecordReserved, Goto, LocalInv, TypeOK
  <2>2. \A k : Billed(k) \subseteq Billed(k)'
    BY <1>1, <2>1, StillBilled
  <2> QED
    BY <2>1, <2>2 DEF BilledBefore, ScopedKey
<1>16. ASSUME NEW r \in Requests, RecordSettlement(r) PROVE BilledBefore'
  <2>1. PICK l \in {"complete", "respond"} : Goto(r, l)
    BY <1>16 DEF RecordSettlement
  <2>2. r \in billed
    BY <1>16 DEF RecordSettlement, BilledBefore
  <2> QED
    BY <1>1, <1>16, <2>1, <2>2, BilledKept DEF RecordSettlement
<1>17. ASSUME NEW r \in Requests, Complete(r) PROVE BilledBefore'
  <2> DEFINE k == ScopedKey(r)
  <2>1. /\ pc[r] = "complete" /\ job' = job /\ billed' = billed /\ reply' = reply
        /\ \A q \in Requests : q # r => pc'[q] = pc[q]
        /\ pc'[r] = "respond"
    BY <1>1, <1>17 DEF Complete, Goto, LocalInv, TypeOK
  <2>2. r \in billed /\ Keyed(r) /\ k \in ScopedKeys
    BY <1>1, <2>1, KeyOfRequest DEF BilledBefore, LocalInv, AbortKeyed
  <2>3. r \in Billed(k)
    BY <2>2 DEF Billed
  <2>4. \A q \in ScopedKeys :
           row'[q].status = "completed" => row'[q] = row[q] \/ (q = k /\ row'[q].body = r)
    <3>1. CASE row[k].status = "none"
      BY <1>17, <3>1 DEF Complete
    <3>2. CASE row[k].status # "none"
      BY <1>1, <1>17, <3>2 DEF Complete, LocalInv, TypeOK
    <3> QED
      BY <3>1, <3>2
  <2>5. \A q : Billed(q)' = Billed(q)
    BY <2>1 DEF Billed, Keyed, ScopedKey
  <2>6. \A q \in ScopedKeys : row'[q].status = "completed" => row'[q].body \in Billed(q)
    BY <2>3, <2>4 DEF BilledBefore
  <2> QED
    BY <2>1, <2>2, <2>5, <2>6 DEF BilledBefore, ScopedKey
<1>18. ASSUME NEW r \in Requests, CompleteFails(r) PROVE BilledBefore'
  BY <1>1, <1>18, BilledKept, RefusalIsNoCompletion DEF CompleteFails
<1>19. ASSUME NEW r \in Requests, Respond(r) PROVE BilledBefore'
  <2>1. /\ pc[r] = "respond" /\ job' = job /\ billed' = billed /\ row' = row
        /\ \A q \in Requests : q # r => pc'[q] = pc[q] /\ reply'[q] = reply[q]
        /\ pc'[r] = "done" /\ reply'[r].status = "200" /\ reply'[r].body = r
    BY <1>1, <1>19 DEF Respond, Answer, Goto, LocalInv, TypeOK
  <2>2. r \in billed
    BY <2>1 DEF BilledBefore
  <2>3. \A q : Billed(q)' = Billed(q)
    BY <2>1 DEF Billed, Keyed, ScopedKey
  <2> QED
    BY <2>1, <2>2, <2>3 DEF BilledBefore, ScopedKey
<1>20. ASSUME NEW k \in ScopedKeys, ClaimExpires(k) PROVE BilledBefore'
  <2>1. /\ pc' = pc /\ job' = job /\ billed' = billed /\ reply' = reply
    BY <1>20 DEF ClaimExpires
  <2>2. \A q \in ScopedKeys : row'[q].status = "completed" => row'[q] = row[q]
    BY <1>1, <1>20 DEF ClaimExpires, LocalInv, TypeOK
  <2>3. \A q : Billed(q)' = Billed(q)
    BY <2>1 DEF Billed, Keyed, ScopedKey
  <2> QED
    BY <2>1, <2>2, <2>3 DEF BilledBefore, ScopedKey
<1>21. CASE Crash
  <2>1. /\ job' = job /\ billed' = billed /\ reply' = reply /\ row' = row
        /\ \A q \in Requests : pc'[q] = pc[q] \/ pc'[q] = "lost"
    BY <1>21 DEF Crash
  <2>2. \A q : Billed(q)' = Billed(q)
    BY <2>1 DEF Billed, Keyed, ScopedKey
  <2> QED
    BY <2>1, <2>2 DEF BilledBefore, ScopedKey
<1>22. CASE UNCHANGED vars
  BY <1>22 DEF vars, BilledBefore, Billed, Keyed, ScopedKey
<1> QED
  BY <1>2, <1>3, <1>4, <1>5, <1>6, <1>7, <1>8, <1>9, <1>10, <1>11, <1>12, <1>13, <1>14, <1>15, <1>16, <1>17, <1>18, <1>19, <1>20, <1>21, <1>22
  DEF Next, Handle, Quiet

\* The requests of a key that may own its claim.
Owns(r, k) ==
    /\ pc[r] # "idle" /\ Keyed(r) /\ ScopedKey(r) = k
    /\ pc[r] \in Waiting \/ pc[r] = "lost" \/ r \in botched

\* A step that makes no new claim and after which every owner of a claim still
\* owns it leaves no orphan behind.
LEMMA OwnersKept ==
    ASSUME NoOrphanClaim,
           \A k \in ScopedKeys : row'[k].status = "in_progress" =>
               /\ row[k].status = "in_progress"
               /\ \A r \in Requests : Owns(r, k) => Owns(r, k)'
    PROVE  NoOrphanClaim'
<1> SUFFICES ASSUME NEW k \in ScopedKeys, row'[k].status = "in_progress"
             PROVE  \E r \in Requests : Owns(r, k)'
  BY DEF NoOrphanClaim, Owns
<1>1. \E r \in Requests : Owns(r, k)
  BY DEF NoOrphanClaim, Owns
<1> QED
  BY <1>1

\* A handler step that leaves the table alone keeps the owners unless a keyed
\* request stops working on its claim.
LEMMA OwnersStep ==
    ASSUME LocalInv, NoOrphanClaim, NEW r \in Requests, NEW l,
           pc[r] # "idle", Goto(r, l), job' = job, row' = row,
           botched \subseteq botched',
           \/ pc[r] \notin Waiting /\ pc[r] # "lost"
           \/ ~Keyed(r)
           \/ l \in Waiting
           \/ r \in botched',
           l # "idle"
    PROVE  NoOrphanClaim'
<1>1. /\ \A q \in Requests : q # r => pc'[q] = pc[q]
      /\ pc'[r] = l
  BY DEF Goto, LocalInv, TypeOK
<1>2. ASSUME NEW k \in ScopedKeys, NEW q \in Requests, Owns(q, k) PROVE Owns(q, k)'
  BY <1>1, <1>2 DEF Owns, Keyed, ScopedKey
<1> QED
  BY <1>2, OwnersKept

\* Every step leaves each claim in the table with an owner: a request that ends
\* deletes or completes its row, unless it was lost or the store failed.
LEMMA OwnersNext ==
    ASSUME CoreInv, NoOrphanClaim, [Next]_vars
    PROVE  NoOrphanClaim'
<1>1. LocalInv
  BY DEF CoreInv
<1>2. ASSUME NEW r \in Requests, Arrive(r) PROVE NoOrphanClaim'
  <2>1. /\ row' = row /\ botched' = botched /\ pc[r] = "idle"
        /\ \A q \in Requests : q # r => pc'[q] = pc[q] /\ job'[q] = job[q]
    BY <1>1, <1>2 DEF Arrive, Goto, historyVars, LocalInv, TypeOK
  <2>2. ASSUME NEW k \in ScopedKeys, NEW q \in Requests, Owns(q, k) PROVE Owns(q, k)'
    BY <2>1, <2>2 DEF Owns, Keyed, ScopedKey
  <2> QED
    BY <2>1, <2>2, OwnersKept
<1>3. ASSUME NEW r \in Requests, CheckConsumerQuota(r) PROVE NoOrphanClaim'
  <2>1. PICK l \in {"begin", "done"} : Goto(r, l)
    BY <1>3 DEF CheckConsumerQuota, Refuse, Answer
  <2> QED
    BY <1>1, <1>3, <2>1, OwnersStep DEF CheckConsumerQuota, historyVars, Waiting
<1>4. ASSUME NEW r \in Requests, RefuseStreamKey(r) PROVE NoOrphanClaim'
  BY <1>1, <1>4, OwnersStep DEF RefuseStreamKey, Refuse, Answer, historyVars, Waiting
<1>5. ASSUME NEW r \in Requests, SkipBegin(r) PROVE NoOrphanClaim'
  BY <1>1, <1>5, OwnersStep DEF SkipBegin, historyVars, Waiting
<1>6. ASSUME NEW r \in Requests, Begin(r) PROVE NoOrphanClaim'
  <2> DEFINE k == ScopedKey(r)
  <2>1. /\ k \in ScopedKeys /\ pc[r] = "begin" /\ job' = job /\ botched' = botched
        /\ Keyed(r)
    BY <1>1, <1>6, KeyOfRequest DEF Begin
  <2>2. \/ /\ row' = [row EXCEPT ![k] = NewClaim]
           /\ Goto(r, "reserve")
        \/ Goto(r, "done") /\ row' = row
    BY <1>6 DEF Begin, Answer, Refuse
  <2>3. CASE Goto(r, "done") /\ row' = row
    BY <1>1, <2>1, <2>3, OwnersStep DEF Waiting
  <2>4. CASE row' = [row EXCEPT ![k] = NewClaim] /\ Goto(r, "reserve")
    <3>1. /\ \A q \in Requests : q # r => pc'[q] = pc[q]
          /\ pc'[r] = "reserve"
      BY <1>1, <2>4 DEF Goto, LocalInv, TypeOK
    <3>2. ASSUME NEW s \in ScopedKeys, NEW q \in Requests, Owns(q, s) PROVE Owns(q, s)'
      BY <2>1, <3>1, <3>2 DEF Owns, Keyed, ScopedKey, Waiting
    <3>3. Owns(r, k)'
      BY <2>1, <3>1 DEF Owns, Keyed, ScopedKey, Waiting
    <3>4. \A s \in ScopedKeys : s # k => row'[s] = row[s]
      BY <1>1, <2>4 DEF LocalInv, TypeOK
    <3> SUFFICES ASSUME NEW s \in ScopedKeys, row'[s].status = "in_progress"
                 PROVE  \E q \in Requests : Owns(q, s)'
      BY DEF NoOrphanClaim, Owns
    <3>5. CASE s = k
      <4>1. Owns(r, s)'
        BY <3>3, <3>5, <2>1 DEF Owns, ScopedKey
      <4> QED
        BY <4>1
    <3>6. CASE s # k
      <4>1. \E q \in Requests : Owns(q, s)
        BY <3>4, <3>6 DEF NoOrphanClaim, Owns
      <4> QED
        BY <4>1, <3>2
    <3> QED
      BY <3>5, <3>6
  <2> QED
    BY <2>2, <2>3, <2>4
<1>7. ASSUME NEW r \in Requests, BeginFails(r) PROVE NoOrphanClaim'
  BY <1>1, <1>7, OwnersStep DEF BeginFails, Refuse, Answer, historyVars, Waiting
<1>8. ASSUME NEW r \in Requests, ReserveConsumerQuota(r) PROVE NoOrphanClaim'
  BY <1>1, <1>8, OwnersStep DEF ReserveConsumerQuota, historyVars, Waiting
<1>9. ASSUME NEW r \in Requests, ReserveRefused(r) PROVE NoOrphanClaim'
  <2>1. CASE Keyed(r)
    BY <1>1, <1>9, <2>1, OwnersStep DEF ReserveRefused, historyVars, Waiting
  <2>2. CASE ~Keyed(r)
    BY <1>1, <1>9, <2>2, OwnersStep DEF ReserveRefused, Refuse, Answer, historyVars
  <2> QED
    BY <2>1, <2>2
<1>10. ASSUME NEW r \in Requests, DispatchSucceeds(r) PROVE NoOrphanClaim'
  BY <1>1, <1>10, OwnersStep DEF DispatchSucceeds, historyVars, Waiting
<1>11. ASSUME NEW r \in Requests, DispatchFails(r) PROVE NoOrphanClaim'
  BY <1>1, <1>11, OwnersStep DEF DispatchFails, historyVars, Waiting
<1>12. ASSUME NEW r \in Requests, ReleaseReservation(r) PROVE NoOrphanClaim'
  <2>1. CASE Keyed(r)
    BY <1>1, <1>12, <2>1, OwnersStep DEF ReleaseReservation, historyVars, Waiting
  <2>2. CASE ~Keyed(r)
    BY <1>1, <1>12, <2>2, OwnersStep DEF ReleaseReservation, historyVars
  <2> QED
    BY <2>1, <2>2
<1>13. ASSUME NEW r \in Requests, Abort(r) \/ Complete(r) PROVE NoOrphanClaim'
  <2> DEFINE k == ScopedKey(r)
  <2>1. /\ pc[r] \in {"abort", "complete"} /\ job' = job /\ botched' = botched
        /\ \A q \in Requests : q # r => pc'[q] = pc[q]
        /\ pc'[r] \in {"done", "respond"}
    BY <1>1, <1>13 DEF Abort, Complete, Goto, historyVars, LocalInv, TypeOK
  <2>2. k \in ScopedKeys
    BY <1>1, <2>1, KeyOfRequest DEF LocalInv, AbortKeyed
  <2>3. \A s \in ScopedKeys :
          row'[s].status = "in_progress" => s # k /\ row[s].status = "in_progress"
    BY <1>1, <1>13, <2>2 DEF Abort, Complete, NoRow, LocalInv, TypeOK
  <2>4. ASSUME NEW s \in ScopedKeys, s # k, NEW q \in Requests, Owns(q, s)
        PROVE  Owns(q, s)'
    BY <2>1, <2>4 DEF Owns, Keyed, ScopedKey
  <2> QED
    BY <2>3, <2>4, OwnersKept
<1>14. ASSUME NEW r \in Requests, AbortFails(r) PROVE NoOrphanClaim'
  BY <1>1, <1>14, OwnersStep DEF AbortFails
<1>15. ASSUME NEW r \in Requests, RecordReserved(r) PROVE NoOrphanClaim'
  BY <1>1, <1>15, OwnersStep DEF RecordReserved, historyVars, Waiting
<1>16. ASSUME NEW r \in Requests, RecordSettlement(r) PROVE NoOrphanClaim'
  <2>1. CASE Keyed(r)
    BY <1>1, <1>16, <2>1, OwnersStep DEF RecordSettlement, historyVars, Waiting
  <2>2. CASE ~Keyed(r)
    BY <1>1, <1>16, <2>2, OwnersStep DEF RecordSettlement, historyVars
  <2> QED
    BY <2>1, <2>2
<1>17. ASSUME NEW r \in Requests, CompleteFails(r) PROVE NoOrphanClaim'
  BY <1>1, <1>17, OwnersStep DEF CompleteFails, Refuse, Answer
<1>18. ASSUME NEW r \in Requests, Respond(r) PROVE NoOrphanClaim'
  BY <1>1, <1>18, OwnersStep DEF Respond, Answer, historyVars, Waiting
<1>19. ASSUME NEW k \in ScopedKeys, ClaimExpires(k) PROVE NoOrphanClaim'
  <2>1. /\ pc' = pc /\ job' = job /\ botched' = botched
        /\ \A s \in ScopedKeys :
             row'[s].status = "in_progress" => row[s].status = "in_progress"
    BY <1>1, <1>19 DEF ClaimExpires, historyVars, LocalInv, TypeOK
  <2>2. ASSUME NEW s \in ScopedKeys, NEW q \in Requests, Owns(q, s) PROVE Owns(q, s)'
    BY <2>1, <2>2 DEF Owns, Keyed, ScopedKey
  <2> QED
    BY <2>1, <2>2, OwnersKept
<1>20. CASE Crash
  <2>1. /\ job' = job /\ botched' = botched /\ row' = row
        /\ \A q \in Requests : pc'[q] = IF pc[q] \in Running THEN "lost" ELSE pc[q]
    BY <1>20 DEF Crash
  <2>2. ASSUME NEW s \in ScopedKeys, NEW q \in Requests, Owns(q, s) PROVE Owns(q, s)'
    BY <2>1, <2>2 DEF Owns, Keyed, ScopedKey
  <2> QED
    BY <2>1, <2>2, OwnersKept
<1>21. CASE UNCHANGED vars
  <2>1. /\ pc' = pc /\ job' = job /\ botched' = botched /\ row' = row
    BY <1>21 DEF vars
  <2>2. ASSUME NEW s \in ScopedKeys, NEW q \in Requests, Owns(q, s) PROVE Owns(q, s)'
    BY <2>1, <2>2 DEF Owns, Keyed, ScopedKey
  <2> QED
    BY <2>1, <2>2, OwnersKept
<1> QED
  BY <1>2, <1>3, <1>4, <1>5, <1>6, <1>7, <1>8, <1>9, <1>10, <1>11, <1>12, <1>13, <1>14, <1>15, <1>16, <1>17, <1>18, <1>19, <1>20, <1>21
  DEF Next, Handle, Quiet

-----------------------------------------------------------------------------
(* Usage and the settlement ledger.                                        *)

\* Fewer events are covered by the same usage.
LEMMA CoversFewer ==
    ASSUME NEW D, NEW E, E \subseteq D,
           IsFiniteSet(D), IsFiniteSet(TokensIn(D)), UsageCovers(D),
           usage \in [Accounts -> [requests : Nat, tokens : Nat]]
    PROVE  /\ IsFiniteSet(E) /\ IsFiniteSet(TokensIn(E))
           /\ UsageCovers(E)
<1>1. TokensIn(E) \subseteq TokensIn(D)
  BY DEF TokensIn
<1>2. IsFiniteSet(E) /\ IsFiniteSet(TokensIn(E))
  BY <1>1, FS_Subset
<1>3. ASSUME NEW a \in Accounts
      PROVE  /\ usage[a].requests >= Cardinality(EventsOf(a, E))
             /\ usage[a].tokens >= Cardinality(TokensIn(EventsOf(a, E)))
  <2>1. /\ EventsOf(a, E) \subseteq EventsOf(a, D)
        /\ EventsOf(a, D) \subseteq D
    BY DEF EventsOf
  <2>2. /\ TokensIn(EventsOf(a, E)) \subseteq TokensIn(EventsOf(a, D))
        /\ TokensIn(EventsOf(a, D)) \subseteq TokensIn(D)
    BY <2>1 DEF TokensIn
  <2>3. /\ IsFiniteSet(EventsOf(a, D)) /\ IsFiniteSet(TokensIn(EventsOf(a, D)))
    BY <2>1, <2>2, FS_Subset
  <2>4. /\ Cardinality(EventsOf(a, E)) <= Cardinality(EventsOf(a, D))
        /\ IsFiniteSet(EventsOf(a, E))
    BY <2>1, <2>3, FS_Subset
  <2>5. /\ Cardinality(TokensIn(EventsOf(a, E))) <= Cardinality(TokensIn(EventsOf(a, D)))
        /\ IsFiniteSet(TokensIn(EventsOf(a, E)))
    BY <2>2, <2>3, FS_Subset
  <2>6. /\ Cardinality(EventsOf(a, D)) \in Nat /\ Cardinality(EventsOf(a, E)) \in Nat
        /\ Cardinality(TokensIn(EventsOf(a, D))) \in Nat
        /\ Cardinality(TokensIn(EventsOf(a, E))) \in Nat
    BY <2>3, <2>4, <2>5, FS_CardinalityType
  <2>7. /\ usage[a].requests >= Cardinality(EventsOf(a, D))
        /\ usage[a].tokens >= Cardinality(TokensIn(EventsOf(a, D)))
    BY DEF UsageCovers
  <2>8. usage[a].requests \in Nat /\ usage[a].tokens \in Nat
    OBVIOUS
  <2> QED
    BY <2>4, <2>5, <2>6, <2>7, <2>8
<1> QED
  BY <1>2, <1>3 DEF UsageCovers

\* One more event of an account is one more request and its tokens.
LEMMA OneMoreEvent ==
    ASSUME NEW E, NEW e, e \notin E, e.tokens \in Nat,
           IsFiniteSet(E), IsFiniteSet(TokensIn(E))
    PROVE  /\ IsFiniteSet(E \cup {e}) /\ IsFiniteSet(TokensIn(E \cup {e}))
           /\ Cardinality(E \cup {e}) = Cardinality(E) + 1
           /\ Cardinality(TokensIn(E \cup {e})) = Cardinality(TokensIn(E)) + e.tokens
<1>1. IsFiniteSet(E \cup {e}) /\ Cardinality(E \cup {e}) = Cardinality(E) + 1
  BY FS_AddElement
<1>2. TokensIn(E \cup {e}) = TokensIn(E) \cup TokensOf(e, e.tokens)
  BY DEF TokensIn, TokensOf
<1>3. TokensIn(E) \cap TokensOf(e, e.tokens) = {}
  BY DEF TokensIn, TokensOf
<1>4. IsFiniteSet(TokensOf(e, e.tokens)) /\ Cardinality(TokensOf(e, e.tokens)) = e.tokens
  BY TokensOfSize
<1>5. /\ IsFiniteSet(TokensIn(E) \cup TokensOf(e, e.tokens))
      /\ Cardinality(TokensIn(E) \cup TokensOf(e, e.tokens))
           = Cardinality(TokensIn(E)) + Cardinality(TokensOf(e, e.tokens))
               - Cardinality(TokensIn(E) \cap TokensOf(e, e.tokens))
  BY <1>4, FS_Union, Zenon
<1>6. Cardinality(TokensIn(E) \cap TokensOf(e, e.tokens)) = 0
  BY <1>3, FS_EmptySet
<1>7. Cardinality(TokensIn(E)) \in Nat
  BY FS_CardinalityType
<1>8. Cardinality(TokensIn(E) \cup TokensOf(e, e.tokens))
        = Cardinality(TokensIn(E)) + e.tokens
  <2> DEFINE T == TokensOf(e, e.tokens)
  <2>1. Cardinality(TokensIn(E) \cup T)
          = Cardinality(TokensIn(E)) + e.tokens - 0
    BY <1>4, <1>5, <1>6, Zenon
  <2> QED
    BY <2>1, <1>7
<1> QED
  BY <1>1, <1>2, <1>5, <1>8, Zenon

\* A step that neither bills nor settles keeps usage ahead of the events due.
LEMMA DueKept ==
    ASSUME LocalInv, SettlementDue, DueEvents' \subseteq DueEvents,
           usage' \in [Accounts -> [requests : Nat, tokens : Nat]],
           lostSave' \/ (~lostSave /\ usage' = usage)
    PROVE  /\ IsFiniteSet(DueEvents)' /\ IsFiniteSet(TokensIn(DueEvents))'
           /\ ~lostSave' => UsageCovers(DueEvents)'
<1>1. /\ IsFiniteSet(DueEvents) /\ IsFiniteSet(TokensIn(DueEvents))
  BY DEF SettlementDue
<1>2. TokensIn(DueEvents') \subseteq TokensIn(DueEvents)
  BY DEF TokensIn
<1>3. /\ IsFiniteSet(DueEvents') /\ IsFiniteSet(TokensIn(DueEvents'))
  BY <1>1, <1>2, FS_Subset
<1>4. ASSUME ~lostSave' PROVE UsageCovers(DueEvents)'
  <2>1. ~lostSave /\ usage' = usage
    BY <1>4
  <2>2. UsageCovers(DueEvents)
    BY <2>1 DEF SettlementDue
  <2>3. UsageCovers(DueEvents')
    BY <1>1, <2>2, CoversFewer DEF LocalInv, TypeOK
  <2> QED
    BY <2>1, <2>3 DEF UsageCovers, EventsOf, TokensIn
<1> QED
  BY <1>3, <1>4 DEF TokensIn

\* A handler step before RecordReserved or after settlement.Record changes
\* nothing about what is due, and a settled request stays past its settlement.
LEMMA DueStep ==
    ASSUME LocalInv, LocalInv', SettlementDue, NEW r \in Requests, NEW l,
           Goto(r, l), pc[r] # "settle", l # "settle",
           \A q \in Requests : q # r => job'[q] = job[q] /\ work'[q] = work[q],
           ledger' = ledger, billed' = billed, usage' = usage,
           lostSave' = lostSave,
           \/ l \in {"complete", "respond", "done", "lost"}
           \/ pc[r] \notin {"complete", "respond", "done", "lost"}
    PROVE  SettlementDue'
<1>1. /\ \A q \in Requests : q # r => pc'[q] = pc[q]
      /\ pc'[r] = l
  BY DEF Goto, LocalInv, TypeOK
<1>2. DueEvents' \subseteq DueEvents
  BY <1>1 DEF DueEvents, EventOf
<1>3. /\ IsFiniteSet(DueEvents)' /\ IsFiniteSet(TokensIn(DueEvents))'
      /\ ~lostSave' => UsageCovers(DueEvents)'
  BY <1>2, DueKept DEF LocalInv, TypeOK
<1>4. \A e \in ledger' :
        e.request \in billed' /\ pc'[e.request] \in {"complete", "respond", "done", "lost"}
  BY <1>1 DEF SettlementDue, LocalInv, TypeOK
<1> QED
  BY <1>3, <1>4 DEF SettlementDue

\* RecordReserved adds one request and its tokens to the usage of the two
\* accounts whose event it makes due.
LEMMA DueRecord ==
    ASSUME LocalInv, LocalInv', SettlementDue, NEW r \in Requests, RecordReserved(r)
    PROVE  SettlementDue'
<1> DEFINE e == EventOf(r)
<1>1. /\ pc[r] = "record" /\ job' = job /\ work' = work /\ ledger' = ledger
      /\ billed' = billed \cup {r} /\ lostSave' = lostSave
      /\ usage' = addUsage(usage, {job[r].cid, work[r].provider}, work[r].tokens)
      /\ \A q \in Requests : q # r => pc'[q] = pc[q]
      /\ pc'[r] = "settle"
  BY DEF RecordReserved, Goto, historyVars, LocalInv, TypeOK
<1>2. DueEvents' = DueEvents \cup {e}
  BY <1>1 DEF DueEvents, EventOf
<1>3. /\ e.request = r /\ e.tokens = work[r].tokens /\ e.tokens \in Nat
      /\ e.consumer = job[r].cid /\ e.provider = work[r].provider
  BY <1>1 DEF EventOf, LocalInv, WorkBounded
<1>4. e \notin DueEvents
  BY <1>1, <1>3 DEF DueEvents, EventOf, SettlementDue
<1>5. /\ IsFiniteSet(DueEvents) /\ IsFiniteSet(TokensIn(DueEvents))
  BY DEF SettlementDue
<1>6. usage \in [Accounts -> [requests : Nat, tokens : Nat]]
  BY DEF LocalInv, TypeOK
<1> HIDE DEF e
<1>7. /\ IsFiniteSet(DueEvents') /\ IsFiniteSet(TokensIn(DueEvents'))
  BY <1>2, <1>3, <1>4, <1>5, OneMoreEvent
<1>8. ASSUME ~lostSave', NEW a \in Accounts
      PROVE  /\ usage'[a].requests >= Cardinality(EventsOf(a, DueEvents'))
             /\ usage'[a].tokens >= Cardinality(TokensIn(EventsOf(a, DueEvents')))
  <2> DEFINE E == EventsOf(a, DueEvents)
  <2>1. E \subseteq DueEvents /\ TokensIn(E) \subseteq TokensIn(DueEvents)
    BY DEF EventsOf, TokensIn
  <2>2. IsFiniteSet(E) /\ IsFiniteSet(TokensIn(E))
    BY <1>5, <2>1, FS_Subset
  <2>3. Cardinality(E) \in Nat /\ Cardinality(TokensIn(E)) \in Nat
    BY <2>2, FS_CardinalityType
  <2>4. usage[a].requests >= Cardinality(E) /\ usage[a].tokens >= Cardinality(TokensIn(E))
    BY <1>1, <1>8 DEF SettlementDue, UsageCovers
  <2>5. CASE a \in {job[r].cid, work[r].provider}
    <3>1. EventsOf(a, DueEvents') = E \cup {e}
      BY <1>2, <1>3, <2>5 DEF EventsOf
    <3>2. e \notin E
      BY <1>4, <2>1
    <3>3. /\ usage'[a].requests = usage[a].requests + 1
          /\ usage'[a].tokens = usage[a].tokens + e.tokens
      BY <1>1, <1>3, <2>5 DEF addUsage
    <3> HIDE DEF E
    <3>4. /\ Cardinality(E \cup {e}) = Cardinality(E) + 1
          /\ Cardinality(TokensIn(E \cup {e})) = Cardinality(TokensIn(E)) + e.tokens
      BY <1>3, <2>2, <3>2, OneMoreEvent
    <3>5. usage[a].requests \in Nat /\ usage[a].tokens \in Nat
      BY <1>6
    <3> QED
      BY <1>3, <2>3, <2>4, <3>1, <3>3, <3>4, <3>5
  <2>6. CASE a \notin {job[r].cid, work[r].provider}
    <3>1. EventsOf(a, DueEvents') = E
      BY <1>2, <1>3, <2>6 DEF EventsOf
    <3>2. usage'[a] = usage[a]
      BY <1>1, <2>6 DEF addUsage
    <3> QED
      BY <2>4, <3>1, <3>2
  <2> QED
    BY <2>5, <2>6
<1>9. ~lostSave' => UsageCovers(DueEvents)'
  BY <1>8 DEF UsageCovers, EventsOf, TokensIn
<1>10. \A f \in ledger' :
        f.request \in billed' /\ pc'[f.request] \in {"complete", "respond", "done", "lost"}
  BY <1>1 DEF SettlementDue, LocalInv, TypeOK
<1> QED
  BY <1>7, <1>9, <1>10 DEF SettlementDue, TokensIn

\* settlement.Record turns a due event into a recorded one, or loses it.
LEMMA DueSettle ==
    ASSUME LocalInv, LocalInv', BilledBefore, SettlementDue,
           NEW r \in Requests, RecordSettlement(r)
    PROVE  SettlementDue'
<1>1. PICK l \in {"complete", "respond"} : Goto(r, l)
  BY DEF RecordSettlement
<1>2. /\ pc[r] = "settle" /\ job' = job /\ work' = work
      /\ ledger' \subseteq ledger \cup {EventOf(r)}
      /\ billed' = billed /\ lostSave' = lostSave /\ usage' = usage
      /\ \A q \in Requests : q # r => pc'[q] = pc[q]
      /\ pc'[r] \in {"complete", "respond"}
  BY <1>1 DEF RecordSettlement, Goto, marketVars, historyVars, LocalInv, TypeOK
<1>3. DueEvents' \subseteq DueEvents
  BY <1>2 DEF DueEvents, EventOf
<1>4. /\ IsFiniteSet(DueEvents)' /\ IsFiniteSet(TokensIn(DueEvents))'
      /\ ~lostSave' => UsageCovers(DueEvents)'
  BY <1>2, <1>3, DueKept DEF LocalInv, TypeOK
<1>5. EventOf(r).request = r /\ r \in billed
  BY <1>2 DEF EventOf, BilledBefore
<1>6. \A e \in ledger' :
        e.request \in billed' /\ pc'[e.request] \in {"complete", "respond", "done", "lost"}
  <2> SUFFICES ASSUME NEW e \in ledger'
               PROVE  /\ e.request \in billed'
                      /\ pc'[e.request] \in {"complete", "respond", "done", "lost"}
    OBVIOUS
  <2>1. CASE e \in ledger
    BY <1>2, <2>1 DEF SettlementDue, LocalInv, TypeOK
  <2>2. CASE e = EventOf(r)
    BY <1>2, <1>5, <2>2
  <2> QED
    BY <1>2, <2>1, <2>2
<1> QED
  BY <1>4, <1>6 DEF SettlementDue

\* Every step keeps the usage ahead of the settlement ledger; a crash goes back
\* to the saved usage, and is remembered if that was behind.
LEMMA DueNext ==
    ASSUME CoreInv, BilledBefore, SettlementDue, [Next]_vars
    PROVE  SettlementDue'
<1>1. LocalInv /\ LocalInv'
  BY LocalStep DEF CoreInv
<1>2. ASSUME NEW r \in Requests, Arrive(r) PROVE SettlementDue'
  BY <1>1, <1>2, DueStep DEF Arrive, marketVars, historyVars, LocalInv, TypeOK
<1>3. ASSUME NEW r \in Requests, CheckConsumerQuota(r) PROVE SettlementDue'
  <2>1. PICK l \in {"begin", "done"} : Goto(r, l)
    BY <1>3 DEF CheckConsumerQuota, Refuse, Answer
  <2> QED
    BY <1>1, <1>3, <2>1, DueStep DEF CheckConsumerQuota, marketVars, historyVars
<1>4. ASSUME NEW r \in Requests,
             \/ RefuseStreamKey(r) \/ BeginFails(r) \/ CompleteFails(r) \/ Respond(r)
      PROVE SettlementDue'
  <2>1. Goto(r, "done") /\ pc[r] \in {"begin", "complete", "respond"}
    BY <1>4
    DEF RefuseStreamKey, BeginFails, CompleteFails, Respond, Refuse, Answer
  <2>2. /\ job' = job /\ work' = work /\ ledger' = ledger /\ billed' = billed
        /\ usage' = usage /\ lostSave' = lostSave
    BY <1>4
    DEF RefuseStreamKey, BeginFails, CompleteFails, Respond, marketVars, historyVars
  <2> QED
    BY <1>1, <2>1, <2>2, DueStep
<1>5. ASSUME NEW r \in Requests, SkipBegin(r) PROVE SettlementDue'
  BY <1>1, <1>5, DueStep DEF SkipBegin, marketVars, historyVars
<1>6. ASSUME NEW r \in Requests, Begin(r) PROVE SettlementDue'
  <2>1. PICK l \in {"reserve", "done"} : Goto(r, l)
    BY <1>6 DEF Begin, Refuse, Answer
  <2> QED
    BY <1>1, <1>6, <2>1, DueStep DEF Begin, marketVars
<1>7. ASSUME NEW r \in Requests, ReserveConsumerQuota(r) PROVE SettlementDue'
  BY <1>1, <1>7, DueStep DEF ReserveConsumerQuota, historyVars
<1>8. ASSUME NEW r \in Requests, ReserveRefused(r) PROVE SettlementDue'
  <2>1. PICK l \in {"abort", "done"} : Goto(r, l)
    BY <1>8 DEF ReserveRefused, Refuse, Answer
  <2> QED
    BY <1>1, <1>8, <2>1, DueStep DEF ReserveRefused, marketVars, historyVars
<1>9. ASSUME NEW r \in Requests, DispatchSucceeds(r) PROVE SettlementDue'
  BY <1>1, <1>9, DueStep DEF DispatchSucceeds, marketVars, historyVars, LocalInv, TypeOK
<1>10. ASSUME NEW r \in Requests, DispatchFails(r) PROVE SettlementDue'
  BY <1>1, <1>10, DueStep DEF DispatchFails, marketVars, historyVars
<1>11. ASSUME NEW r \in Requests, ReleaseReservation(r) PROVE SettlementDue'
  <2>1. PICK l \in {"abort", "done"} : Goto(r, l)
    BY <1>11 DEF ReleaseReservation
  <2> QED
    BY <1>1, <1>11, <2>1, DueStep DEF ReleaseReservation, historyVars
<1>12. ASSUME NEW r \in Requests, Abort(r) PROVE SettlementDue'
  BY <1>1, <1>12, DueStep DEF Abort, marketVars, historyVars
<1>13. ASSUME NEW r \in Requests, AbortFails(r) PROVE SettlementDue'
  BY <1>1, <1>13, DueStep DEF AbortFails, marketVars
<1>14. ASSUME NEW r \in Requests, RecordReserved(r) PROVE SettlementDue'
  BY <1>1, <1>14, DueRecord
<1>15. ASSUME NEW r \in Requests, RecordSettlement(r) PROVE SettlementDue'
  BY <1>1, <1>15, DueSettle
<1>16. ASSUME NEW r \in Requests, Complete(r) PROVE SettlementDue'
  BY <1>1, <1>16, DueStep DEF Complete, marketVars, historyVars
<1>17. ASSUME (\E k \in ScopedKeys : ClaimExpires(k)) \/ UNCHANGED vars
       PROVE  SettlementDue'
  <2>1. /\ pc' = pc /\ job' = job /\ work' = work /\ ledger' = ledger
        /\ billed' = billed /\ usage' = usage /\ lostSave' = lostSave
    BY <1>17 DEF ClaimExpires, marketVars, historyVars, vars
  <2> QED
    BY <2>1 DEF SettlementDue, DueEvents, EventOf, UsageCovers, EventsOf, TokensIn
<1>18. CASE Crash
  <2>1. /\ job' = job /\ work' = work /\ ledger' = ledger /\ billed' = billed
        /\ \A q \in Requests : pc'[q] = IF pc[q] \in Running THEN "lost" ELSE pc[q]
        /\ usage' = saved /\ lostSave' = (lostSave \/ usage # saved)
    BY <1>18 DEF Crash
  <2>2. DueEvents' \subseteq DueEvents
    BY <2>1 DEF DueEvents, EventOf, Running, Waiting
  <2>3. /\ IsFiniteSet(DueEvents)' /\ IsFiniteSet(TokensIn(DueEvents))'
        /\ ~lostSave' => UsageCovers(DueEvents)'
    BY <1>1, <2>1, <2>2, DueKept DEF LocalInv, TypeOK
  <2>4. \A e \in ledger' :
         e.request \in billed' /\ pc'[e.request] \in {"complete", "respond", "done", "lost"}
    BY <1>1, <2>1 DEF SettlementDue, LocalInv, TypeOK
  <2> QED
    BY <2>3, <2>4 DEF SettlementDue
<1> QED
  BY <1>2, <1>3, <1>4, <1>5, <1>6, <1>7, <1>8, <1>9, <1>10, <1>11, <1>12, <1>13, <1>14, <1>15, <1>16, <1>17, <1>18
  DEF Next, Handle, Quiet

-----------------------------------------------------------------------------

\* For any number of concurrent requests, accounts, keys, limits, failed writes
\* and crashes, the inductive invariant of the billing path always holds.
THEOREM BillingInvariant == Spec => []BillingInv
<1>1. Init => BillingInv
  <2> SUFFICES ASSUME Init PROVE BillingInv
    OBVIOUS
  <2>1. CoreInv
    BY CoreInit
  <2>2. BilledBefore
    BY DEF Init, BilledBefore, NoRow
  <2>3. NoOrphanClaim
    BY DEF Init, NoOrphanClaim, NoRow
  <2>4. DueEvents = {} /\ TokensIn({}) = {}
    BY DEF Init, DueEvents, TokensIn
  <2>5. \A a \in Accounts : EventsOf(a, {}) = {}
    BY DEF EventsOf
  <2>6. UsageCovers({})
    <3>1. \A a \in Accounts : usage[a].requests = 0 /\ usage[a].tokens = 0
      BY DEF Init, NoUsage
    <3>2. \A a \in Accounts :
             /\ Cardinality(EventsOf(a, {})) = 0
             /\ Cardinality(TokensIn(EventsOf(a, {}))) = 0
      BY <2>4, <2>5, FS_EmptySet, Zenon
    <3> QED
      BY <3>1, <3>2 DEF UsageCovers
  <2>7. SettlementDue
    BY <2>4, <2>6, FS_EmptySet DEF SettlementDue, Init
  <2> QED
    BY <2>1, <2>2, <2>3, <2>7 DEF BillingInv
<1>2. BillingInv /\ [Next]_vars => BillingInv'
  BY CoreStep, BilledStep, OwnersNext, DueNext DEF BillingInv
<1> QED
  BY <1>1, <1>2, PTL DEF Spec

\* Unless a stale claim was taken over, all clients of a key that got a
\* completion got the same one, that of the request that was billed, and a
\* completed row holds it: retries are answered by Begin's replay.
THEOREM OneAnswer == Spec => []OneAnswerPerKey
<1>1. ASSUME BillingInv, NEW k \in ScopedKeys, reclaims[k] = 0
      PROVE  \E b \in Requests :
                /\ row[k].status = "completed" =>
                      row[k].body = b /\ b \in Billed(k)
                /\ \A r \in Requests :
                      /\ pc[r] = "done" /\ reply[r].status \in {"200", "replay"}
                      /\ Keyed(r) /\ ScopedKey(r) = k
                      => reply[r].body = b /\ b \in Billed(k)
  <2>1. CoreInv /\ LocalInv /\ BilledBefore
    BY <1>1 DEF BillingInv, CoreInv
  <2>2. \A b, c \in Billed(k) : b = c
    BY <1>1, <2>1, BilledClaim, OneClaimant
  <2>3. Billed(k) \subseteq Requests
    BY <2>1 DEF Billed, LocalInv, TypeOK
  <2>4. \A r \in Requests :
           /\ pc[r] = "done" /\ reply[r].status \in {"200", "replay"}
           /\ Keyed(r) /\ ScopedKey(r) = k
           => reply[r].body \in Billed(k)
    BY <2>1 DEF BilledBefore, Billed
  <2>5. row[k].status = "completed" => row[k].body \in Billed(k)
    BY <2>1 DEF BilledBefore
  <2>6. CASE Billed(k) = {}
    BY <2>4, <2>5, <2>6, BillingAssumption
  <2>7. CASE Billed(k) # {}
    <3>1. PICK b \in Billed(k) : TRUE
      BY <2>7
    <3> QED
      BY <2>2, <2>3, <2>4, <2>5, <3>1
  <2> QED
    BY <2>6, <2>7
<1>2. BillingInv => OneAnswerPerKey
  BY <1>1 DEF OneAnswerPerKey
<1> QED
  BY <1>2, BillingInvariant, PTL

\* A claim in the idempotency table always belongs to a request that is being
\* worked on, unless that request was lost in a crash or its Abort or Complete
\* failed.
THEOREM ClaimsHaveOwners == Spec => []NoOrphanClaim
<1>1. BillingInv => NoOrphanClaim
  BY DEF BillingInv
<1> QED
  BY <1>1, BillingInvariant, PTL

\* A stored response stays: no Begin, Abort or Complete removes it, and another
\* body replaces it only after a takeover, since two claimants need one.
THEOREM StoredResponsesStay == Spec => CompletedIsFinal
<1> DEFINE Stays == \A k \in ScopedKeys : row[k].status = "completed" =>
                      /\ row'[k].status = "completed"
                      /\ row'[k].body # row[k].body => reclaims[k] > 0
<1>1. ASSUME BillingInv, Next PROVE Stays
  <2>1. CoreInv /\ LocalInv /\ BilledBefore
    BY <1>1 DEF BillingInv, CoreInv
  <2>2. CASE row' = row
    BY <2>2
  <2>3. ASSUME NEW r \in Requests, Begin(r) PROVE Stays
    BY <2>1, <2>3 DEF Begin, LocalInv, TypeOK
  <2>4. ASSUME NEW r \in Requests, Abort(r) PROVE Stays
    BY <2>1, <2>4 DEF Abort, LocalInv, TypeOK
  <2>5. ASSUME NEW r \in Requests, Complete(r) PROVE Stays
    <3> SUFFICES ASSUME NEW k \in ScopedKeys, row[k].status = "completed"
                 PROVE  /\ row'[k].status = "completed"
                        /\ row'[k].body # row[k].body => reclaims[k] > 0
      OBVIOUS
    <3>1. CASE k # ScopedKey(r)
      BY <2>1, <2>5, <3>1 DEF Complete, LocalInv, TypeOK
    <3>2. CASE k = ScopedKey(r)
      <4>1. row'[k].status = "completed" /\ row'[k].body = r
        BY <2>1, <2>5, <3>2 DEF Complete, LocalInv, TypeOK
      <4>2. r \in Billed(k) /\ row[k].body \in Billed(k)
        BY <2>1, <2>5, <3>2 DEF Complete, BilledBefore, Billed, LocalInv, AbortKeyed
      <4>3. r \in Claimants(k) /\ row[k].body \in Claimants(k)
        BY <2>1, <4>2, BilledClaim
      <4>4. reclaims[k] \in Nat
        BY <2>1 DEF LocalInv, TypeOK
      <4>5. row[k].body # r => reclaims[k] # 0
        BY <2>1, <4>3, OneClaimant
      <4> QED
        BY <4>1, <4>4, <4>5
    <3> QED
      BY <3>1, <3>2
  <2>6. ASSUME NEW k \in ScopedKeys, ClaimExpires(k) PROVE Stays
    BY <2>1, <2>6 DEF ClaimExpires, LocalInv, TypeOK
  <2>7. ASSUME NEW r \in Requests, Arrive(r) \/ Handle(r),
               ~Begin(r), ~Abort(r), ~Complete(r)
        PROVE  row' = row
    BY <2>7
    DEF Handle, Arrive, CheckConsumerQuota, RefuseStreamKey, SkipBegin,
        BeginFails, ReserveConsumerQuota, ReserveRefused, DispatchSucceeds,
        DispatchFails, ReleaseReservation, AbortFails, RecordReserved,
        RecordSettlement, CompleteFails, Respond
  <2>8. Crash \/ Quiet => row' = row
    BY DEF Crash, Quiet, vars
  <2> HIDE DEF Stays
  <2> QED
    BY <1>1, <2>2, <2>3, <2>4, <2>5, <2>6, <2>7, <2>8 DEF Next
<1>2. BillingInv /\ [Next]_vars => [Stays]_vars
  BY <1>1
<1> QED
  BY <1>2, BillingInvariant, PTL DEF Spec, CompletedIsFinal

\* Usage in memory, and after a restart the usage loaded from the city database,
\* is never behind the settlement ledger, in requests and in tokens, unless a
\* crash lost usage whose save had failed.
THEOREM UsageIsSettled == Spec => []UsageCoversSettlement
<1>1. BillingInv => UsageCoversSettlement
  <2> SUFFICES ASSUME BillingInv, ~lostSave PROVE UsageCovers(ledger)
    BY DEF UsageCoversSettlement
  <2>1. ledger \subseteq DueEvents
    BY DEF DueEvents
  <2> QED
    BY <2>1, CoversFewer DEF BillingInv, CoreInv, LocalInv, TypeOK, SettlementDue
<1> QED
  BY <1>1, BillingInvariant, PTL

=============================================================================
