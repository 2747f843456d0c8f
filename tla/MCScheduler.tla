---------------------------- MODULE MCScheduler ----------------------------
(***************************************************************************)
(* Instances of Scheduler for TLC.                                         *)
(***************************************************************************)
EXTENDS Scheduler, TLC

CONSTANTS n1, n2, s1, s2, s3, r1, r2, p1, p2, private, public

Only(f, S) == [x \in S |-> f[x]]

\* n1 connects twice: first for both tiers, then for the public one only.
MCNodeOf == Only((s1 :> n1) @@ (s2 :> n2) @@ (s3 :> n1), Sessions)
MCTiersOf == Only((s1 :> {private, public}) @@ (s2 :> {private, public})
                    @@ (s3 :> {public}), Sessions)
MCProviderOf == Only((n1 :> p1) @@ (n2 :> p2), Nodes)
MCCanServe == [s \in Sessions |-> Requests]

\* r1 asks for privacy, r2 does not.
MCTierOf == Only((r1 :> private) @@ (r2 :> public), Requests)
MCOneSlot == [n \in Nodes |-> 1]

=============================================================================
