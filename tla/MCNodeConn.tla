----------------------------- MODULE MCNodeConn -----------------------------
(***************************************************************************)
(* Instances of NodeConn for TLC.                                          *)
(***************************************************************************)
EXTENDS NodeConn, TLC

MCSymmetry == Permutations(Requests)

=============================================================================
