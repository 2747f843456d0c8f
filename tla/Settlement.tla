----------------------------- MODULE Settlement -----------------------------
(***************************************************************************)
(* The contents of the settlement ledger: what Record computes from a      *)
(* served request, and the balances that Snapshot and the payout report    *)
(* add up.  The chain these events are kept in is in Ledgers.              *)
(***************************************************************************)
EXTENDS Integers, Sequences, FiniteSets, SequencesExt

CONSTANTS
    Consumers,
    Providers,
    Tokens,             \* token counts of the requests that are recorded
    Latencies,          \* their latencies in milliseconds
    price,              \* micros per thousand tokens
    shareBPS,           \* the provider's share, in 1/10000
    targetLatencyMs,
    latencyPenaltyBPS

ASSUME SettlementAssumption ==
    /\ IsFiniteSet(Consumers) /\ IsFiniteSet(Providers)
    /\ Tokens \subseteq Nat /\ Latencies \subseteq Nat
    /\ price \in Nat /\ targetLatencyMs \in Nat
    /\ shareBPS \in 0..10000 /\ latencyPenaltyBPS \in 0..10000

-----------------------------------------------------------------------------

SettlementInputs ==
    [consumer : Consumers, provider : Providers, tokens : Tokens,
     latency : Latencies]

priceFor(tokens) == (tokens * price) \div 1000

\* Mutant: basis points taken for per mille.
penaltyPerMille(reward, latency) ==
    IF targetLatencyMs = 0 \/ latency <= targetLatencyMs THEN 0
    ELSE (reward * latencyPenaltyBPS) \div 1000

penaltyFor(reward, latency) ==
    IF targetLatencyMs = 0 \/ latency <= targetLatencyMs THEN 0
    ELSE (reward * latencyPenaltyBPS) \div 10000

\* What Record computes from its input.
settlementBody(in) ==
    LET cost    == priceFor(in.tokens)
        reward  == (cost * shareBPS) \div 10000
        penalty == penaltyFor(reward, in.latency)
    IN  [consumer |-> in.consumer, provider |-> in.provider,
         tokens |-> in.tokens, latency |-> in.latency, price |-> cost,
         reward |-> reward - penalty, penalty |-> penalty]

-----------------------------------------------------------------------------
(* Balances: Snapshot and the payout report.                               *)

NoBalance == [events |-> 0, tokens |-> 0, latency |-> 0, debit |-> 0,
              reward |-> 0, penalty |-> 0]

\* One event more; the average latency is kept as a rounded running mean.
addTo(b, body, debit, reward, penalty) ==
    [events  |-> b.events + 1,
     tokens  |-> b.tokens + body.tokens,
     latency |-> (b.latency * b.events + body.latency) \div (b.events + 1),
     debit   |-> b.debit + debit,
     reward  |-> b.reward + reward,
     penalty |-> b.penalty + penalty]

\* An event debits its consumer and credits its provider.
settle(bs, b) ==
    [consumers |-> [bs.consumers EXCEPT ![b.consumer] = addTo(@, b, b.price, 0, 0)],
     providers |-> [bs.providers EXCEPT ![b.provider] =
                        addTo(@, b, 0, b.reward, b.penalty)]]

balances(bodies) ==
    FoldLeft(settle,
             [consumers |-> [c \in Consumers |-> NoBalance],
              providers |-> [p \in Providers |-> NoBalance]], bodies)

=============================================================================
