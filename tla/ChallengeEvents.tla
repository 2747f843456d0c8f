-------------------------- MODULE ChallengeEvents --------------------------
(***************************************************************************)
(* The contents of the challenge ledger: what Record keeps of a challenge  *)
(* and the summaries of each provider that the reputation report reads.    *)
(***************************************************************************)
EXTENDS Integers, Sequences, SequencesExt

CONSTANTS
    Challenged,     \* providers that are challenged
    Scores,         \* scores given to Record; an operator may give any number
    ChallengeMs     \* latencies of challenges

ASSUME ChallengeEventsAssumption ==
    Scores \subseteq Int /\ ChallengeMs \subseteq Nat

ChallengeInputs ==
    [provider : Challenged, passed : BOOLEAN, score : Scores,
     latency : ChallengeMs]

\* Mutant: scores are kept as they come.
clampNothing(s) == s

clampScore(s) == IF s < 0 THEN 0 ELSE IF s > 100 THEN 100 ELSE s

challengeBody(in) == [in EXCEPT !.score = clampScore(in.score)]

-----------------------------------------------------------------------------

NoSummary == [challenges |-> 0, passed |-> 0, score |-> 0, latency |-> 0]

\* The averages are running means, rounded at every event.
addChallenge(s, body) ==
    LET n == s.challenges + 1
    IN  [challenges |-> n,
         passed  |-> s.passed + (IF body.passed THEN 1 ELSE 0),
         score   |-> (s.score * (n - 1) + body.score) \div n,
         latency |-> (s.latency * (n - 1) + body.latency) \div n]

summaries(bodies) ==
    FoldLeft(LAMBDA ss, b : [ss EXCEPT ![b.provider] = addChallenge(@, b)],
             [p \in Challenged |-> NoSummary], bodies)

passRateBPS(s) ==
    IF s.challenges = 0 THEN 0 ELSE (s.passed * 10000) \div s.challenges

=============================================================================
