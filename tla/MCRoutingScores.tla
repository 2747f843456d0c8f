-------------------------- MODULE MCRoutingScores --------------------------
(***************************************************************************)
(* An instance of RoutingScores for TLC.                                   *)
(***************************************************************************)
EXTENDS RoutingScores

CONSTANTS p1, n1

\* The node serves the provider, well or badly, or stands for itself.
MCViews ==
    {[provider |-> p1, healthy |-> TRUE, cooldown |-> FALSE, streak |-> 0],
     [provider |-> p1, healthy |-> TRUE, cooldown |-> TRUE, streak |-> 1],
     [provider |-> n1, healthy |-> FALSE, cooldown |-> TRUE, streak |-> 2]}

MCBalances == <<[events |-> 2, tokens |-> 3000, penalty |-> 700]>>

MCVerdicts == {[provider |-> p1, passed |-> FALSE, score |-> 40, latency |-> 0]}
=============================================================================
