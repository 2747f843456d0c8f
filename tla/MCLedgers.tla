----------------------------- MODULE MCLedgers -----------------------------
(***************************************************************************)
(* Instances of Ledgers for TLC.  The configuration allows deadlock: a     *)
(* ledger that has used up its writes, or was refused, stops.              *)
(***************************************************************************)
EXTENDS Ledgers

\* The marks of the synthetic runner, and two an operator may mistype.
MCScores == {-5, 0, 40, 100, 130}

\* A provider without nodes or income, one that is well, one that is not.
MCStandings ==
    {[total |-> 0, healthy |-> 0, cooldown |-> 0, streak |-> 0, events |-> 0,
      tokens |-> 0, penalty |-> 0],
     [total |-> 2, healthy |-> 2, cooldown |-> 0, streak |-> 0, events |-> 20,
      tokens |-> 20000, penalty |-> 0],
     [total |-> 3, healthy |-> 1, cooldown |-> 2, streak |-> 4, events |-> 3,
      tokens |-> 1500, penalty |-> 900]}

=============================================================================
