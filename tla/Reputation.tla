----------------------------- MODULE Reputation -----------------------------
(***************************************************************************)
(* The score of a provider: the sum of what its nodes, its settlement      *)
(* balance and its challenge summary are worth, clamped to 0..100.         *)
(* item is the record Build collects for one provider.                     *)
(***************************************************************************)
EXTENDS Integers

smaller(a, b) == IF a < b THEN a ELSE b

\* The nodes' part: a provider without nodes gets nothing and loses nothing.
nodePoints(item) ==
    IF item.total = 0 THEN 0
    ELSE (30 * item.healthy) \div item.total - 10 * item.cooldown

settlementPoints(item) ==
    smaller(15, item.events) + smaller(10, item.tokens \div 1000)
      - smaller(20, item.penalty \div 100)

errorPoints(item) == smaller(25, 5 * item.streak)

\* Mutant: a low pass rate is rewarded with what it misses.
challengePointsFlipped(item) ==
    IF item.challenges = 0 THEN 0
    ELSE smaller(10, item.score \div 10)
           + (IF item.passRate < 8000
              THEN smaller(25, (8000 - item.passRate) \div 400) ELSE 0)

challengePoints(item) ==
    IF item.challenges = 0 THEN 0
    ELSE smaller(10, item.score \div 10)
           - (IF item.passRate < 8000
              THEN smaller(25, (8000 - item.passRate) \div 400) ELSE 0)

\* The score before it is clamped.
rawScore(item) ==
    40 + nodePoints(item) + settlementPoints(item) - errorPoints(item)
      + challengePoints(item)

score(item) ==
    IF item.disabled THEN 0
    ELSE LET v == rawScore(item)
         IN  IF v < 0 THEN 0 ELSE IF v > 100 THEN 100 ELSE v

=============================================================================
