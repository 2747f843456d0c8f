---------------------------- MODULE MCNodeAgent ----------------------------
(***************************************************************************)
(* Instances of NodeAgent for TLC.                                         *)
(***************************************************************************)
EXTENDS NodeAgent

=============================================================================
