---------------------------- MODULE MCChallenges ----------------------------
(***************************************************************************)
(* An instance of Challenges for TLC.                                      *)
(***************************************************************************)
EXTENDS Challenges, TLC

CONSTANTS n1, n2

\* n1 belongs to provider 1; n2 changes hands between 1 and 2.
MCOwnersOf == [n \in Nodes |-> IF n = n1 THEN {1} ELSE {1, 2}]
MCModelsOf == [n \in Nodes |-> {1}]
MCTiersOf  == [n \in Nodes |-> IF n = n2 THEN {"public"} ELSE Tiers]

MCRunnerAsk == [model |-> 0, tier |-> "", provider |-> 0]
MCAsks == {[model |-> 1, tier |-> "public", provider |-> 0],
           [model |-> 1, tier |-> "private", provider |-> 1]}
=============================================================================
