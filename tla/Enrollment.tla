----------------------------- MODULE Enrollment -----------------------------
(***************************************************************************)
(* How a node gets into the registry: the composition of the market's      *)
(* accounts, the nodeWebSocket handlers and the node registry.  A handler  *)
(* authenticates the agent's token, lets the market narrow its privacy     *)
(* tiers and registers the node, in three steps with nothing locked        *)
(* between them; adminDisableProvider disables the account and then        *)
(* removes its nodes, in two.  What dispatch does with registered nodes is *)
(* in Scheduler.  Provider tokens are required here.                       *)
(***************************************************************************)
EXTENDS Accounts, Privacy

CONSTANTS
    Sessions,   \* agents: each has at most one connection at a time
    Nodes,      \* node IDs
    NodeOf,     \* the node ID an agent registers
    Asks,       \* the mode and tiers its register message asks for
    PolicyOf,   \* the mode and tiers the store holds for a provider
    None

ASSUME EnrollmentAssumption ==
    /\ NodeOf \in [Sessions -> Nodes]
    /\ None \notin Sessions \cup Accounts

VARIABLES
    stage,      \* where the handler of each connection stands
    who,        \* the provider its token belongs to
    nodes,      \* Registry.nodes
    removing,   \* adminDisableProvider has disabled these, and not yet removed
    removed,    \* history: providers whose disabling is complete
    slipped     \* history: handlers that had passed their last check by then

sessionVars == <<stage, who, nodes, removing, removed, slipped>>
allVars     == <<vars, sessionVars>>

-----------------------------------------------------------------------------

\* EnforceProviderPrivacy for an active account; stores of earlier versions
\* hold a mode only.
allowedTiers(p) ==
    IF PolicyOf[p].tiers # {} THEN PolicyOf[p].tiers
    ELSE TiersForMode(PolicyOf[p].mode)

effectiveTiers(s, p) == requestedPrivacy(Asks[s]) \cap allowedTiers(p)

\* Mutant: the registry goes by the mode.
tiersOfMode(mode, tiers) == TiersForMode(mode)

\* What Register makes of the mode and the tiers it is given.
registeredTiers(mode, tiers) ==
    LET out == IF tiers # {} THEN NormalizeTiers(tiers) ELSE TiersForMode(mode)
    IN  IF out = Invalid THEN TiersForMode("private") ELSE out

Hangs(s) == [stage EXCEPT ![s] = "off"]

-----------------------------------------------------------------------------
(* The handler of a connection.  A refused agent is back where it was.     *)

AuthenticateProvider(s, secret) ==
    /\ stage[s] = "off"
    /\ authenticates(secret) /\ secret[1] \in Providers
    /\ stage' = [stage EXCEPT ![s] = "authenticated"]
    /\ who' = [who EXCEPT ![s] = secret[1]]
    /\ UNCHANGED <<vars, nodes, removing, removed, slipped>>

\* Mutant: only the tiers are looked at.
EnforceTiersOnly(s) ==
    /\ stage[s] = "authenticated"
    /\ stage' = IF effectiveTiers(s, who[s]) # {}
                THEN [stage EXCEPT ![s] = "checked"] ELSE Hangs(s)
    /\ who' = IF stage'[s] = "off" THEN [who EXCEPT ![s] = None] ELSE who
    /\ UNCHANGED <<vars, nodes, removing, removed, slipped>>

EnforceProviderPrivacy(s) ==
    /\ stage[s] = "authenticated"
    /\ stage' = IF acct[who[s]] = "active" /\ effectiveTiers(s, who[s]) # {}
                THEN [stage EXCEPT ![s] = "checked"] ELSE Hangs(s)
    /\ who' = IF stage'[s] = "off" THEN [who EXCEPT ![s] = None] ELSE who
    /\ UNCHANGED <<vars, nodes, removing, removed, slipped>>

\* An earlier registration of the node ID is replaced, whoever made it.
Register(s) ==
    LET tiers == effectiveTiers(s, who[s])
    IN  /\ stage[s] = "checked"
        /\ stage' = [stage EXCEPT ![s] = "up"]
        /\ nodes' = [nodes EXCEPT ![NodeOf[s]] =
                        [conn |-> s, provider |-> who[s],
                         tiers |-> registeredTiers(ModeForTiers(tiers), tiers)]]
        /\ UNCHANGED <<vars, who, removing, removed, slipped>>

\* The connection has ended, by itself or because Remove or RemoveProvider
\* closed it: the handler removes its node ID.
HandlerReturns(s) ==
    /\ stage[s] = "up"
    /\ stage' = Hangs(s)
    /\ who' = [who EXCEPT ![s] = None]
    /\ nodes' = [nodes EXCEPT ![NodeOf[s]] = None]
    /\ slipped' = slipped \ {s}
    /\ UNCHANGED <<vars, removing, removed>>

-----------------------------------------------------------------------------
(* Admin requests.                                                         *)

adminCreate(a) == Create(a) /\ UNCHANGED sessionVars
adminRotate(a) == Rotate(a) /\ UNCHANGED sessionVars

\* Disabling a consumer is one step.  For a provider whose account was saved
\* the request goes on; when the save fails it ends with an error and the
\* provider's nodes stay.
adminDisable(a) ==
    /\ \/ DisableSaved(a) /\ removing' = removing \cup ({a} \cap Providers)
       \/ DisableUnsaved(a) /\ UNCHANGED removing
    /\ UNCHANGED <<stage, who, nodes, removed, slipped>>

RemoveProvider(p) ==
    /\ p \in removing
    /\ removing' = removing \ {p}
    /\ nodes' = [n \in Nodes |->
                    IF nodes[n] # None /\ nodes[n].provider = p
                    THEN None ELSE nodes[n]]
    /\ removed' = removed \cup {p}
    /\ slipped' = slipped \cup {s \in Sessions : stage[s] = "checked" /\ who[s] = p}
    /\ UNCHANGED <<vars, stage, who>>

\* A crash ends every handler and every admin request.
Restart ==
    /\ New
    /\ stage' = [s \in Sessions |-> "off"]
    /\ who' = [s \in Sessions |-> None]
    /\ nodes' = [n \in Nodes |-> None]
    /\ removing' = {}
    /\ removed' = dead \cap Providers
    /\ slipped' = {}

Save == RecordReserved /\ UNCHANGED sessionVars

EnrollInit ==
    /\ Init
    /\ stage = [s \in Sessions |-> "off"]
    /\ who = [s \in Sessions |-> None]
    /\ nodes = [n \in Nodes |-> None]
    /\ removing = {} /\ removed = {} /\ slipped = {}

SecretsInUse == plain \cup hashes

EnrollNext ==
    \/ \E s \in Sessions, secret \in SecretsInUse : AuthenticateProvider(s, secret)
    \/ \E s \in Sessions :
          EnforceProviderPrivacy(s) \/ Register(s) \/ HandlerReturns(s)
    \/ \E a \in Accounts : adminCreate(a) \/ adminRotate(a) \/ adminDisable(a)
    \/ \E p \in Providers : RemoveProvider(p)
    \/ Save
    \/ Restart

EnrollSpec == EnrollInit /\ [][EnrollNext]_allVars

-----------------------------------------------------------------------------
(* Properties.                                                             *)

\* Once adminDisableProvider has answered, no node of the provider is routed
\* to, whichever handlers and admin requests were under way, except one whose
\* handler stood between its last check and its registration at that moment.
DisabledNotRouted ==
    \A n \in Nodes : nodes[n] # None /\ nodes[n].provider \in removed =>
        nodes[n].conn \in slipped

\* A node is only registered for tiers that its agent asked for and the
\* provider's policy allows, and for at least one: the empty set would be
\* taken for private by the registry.
TiersWithinPolicy ==
    \A n \in Nodes : nodes[n] # None =>
        /\ nodes[n].tiers # {}
        /\ nodes[n].tiers \subseteq
              requestedPrivacy(Asks[nodes[n].conn]) \cap allowedTiers(nodes[n].provider)

=============================================================================
