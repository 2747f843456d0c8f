---------------------------- MODULE MCEnrollment ----------------------------
(***************************************************************************)
(* An instance of Enrollment for TLC.                                      *)
(***************************************************************************)
EXTENDS Enrollment, TLC

CONSTANTS n1, s1, p1, p2

MCNodeOf == [s \in Sessions |-> n1]

\* The agent leaves out the tier in the middle.
MCAsks == [s \in Sessions |-> [mode |-> "", tiers |-> {"", "public"}]]

\* p1 is stored with its tiers, p2 in the form of an earlier version.
MCPolicyOf ==
    (p1 :> [mode |-> "private", tiers |-> Tiers])
      @@ (p2 :> [mode |-> "community", tiers |-> {}])

=============================================================================
