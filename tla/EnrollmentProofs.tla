-------------------------- MODULE EnrollmentProofs --------------------------
(***************************************************************************)
(* Proofs about Enrollment, for any accounts, agents, node IDs, policies   *)
(* and register messages.  Every step of the composition is a step of      *)
(* Accounts or leaves the market alone, so what AccountsProofs shows holds *)
(* here as well; what the composition adds is proved on top of it.         *)
(***************************************************************************)
EXTENDS Enrollment, AccountsProofs

-----------------------------------------------------------------------------
(* The inductive invariant.                                                *)

Registrations == [conn : Sessions, provider : Providers, tiers : SUBSET Tiers]

\* The states the handlers, the registry and the admin requests can be in.
EnrollTypeOK ==
    /\ stage \in [Sessions -> {"off", "authenticated", "checked", "up"}]
    /\ who \in [Sessions -> Providers \cup {None}]
    /\ \A s \in Sessions : stage[s] # "off" => who[s] \in Providers
    /\ nodes \in [Nodes -> Registrations \cup {None}]
    /\ removing \subseteq Providers /\ removed \subseteq Providers
    /\ slipped \subseteq Sessions

\* A provider is only being removed, or removed, once its account is saved as
\* disabled: no handler passes its last check for it any more.
RemovedAreDead == removing \cup removed \subseteq dead

\* A handler that has passed the check for a provider that is removed by now
\* is one of those that slipped through.
LateHandlersKnown ==
    \A s \in Sessions :
        stage[s] = "checked" /\ who[s] \in removed => s \in slipped

\* A registration is found under the node ID of its own agent.
UnderOwnID == \A n \in Nodes : nodes[n] # None => NodeOf[nodes[n].conn] = n

\* The last check has left the agent a tier.
CheckedHasTier ==
    \A s \in Sessions : stage[s] = "checked" => effectiveTiers(s, who[s]) # {}

EnrollInv ==
    /\ EnrollTypeOK /\ RemovedAreDead /\ LateHandlersKnown /\ UnderOwnID
    /\ CheckedHasTier /\ DisabledNotRouted /\ TiersWithinPolicy

-----------------------------------------------------------------------------
(* Privacy.                                                                *)

\* What an agent asks for is a set of tiers, or nothing when it asks for
\* words that are none.
LEMMA RequestedAreTiers ==
    ASSUME NEW ask
    PROVE  requestedPrivacy(ask) \subseteq Tiers
  BY DEF requestedPrivacy, NormalizeTiers, TiersForMode, Tiers, Invalid

\* The registry takes over the tiers a handler gives it as they are; it falls
\* back to a mode only for the empty set.
LEMMA RegisteredAsGiven ==
    ASSUME NEW mode, NEW tiers, tiers \subseteq Tiers, tiers # {}
    PROVE  registeredTiers(mode, tiers) = tiers
<1>1. {NormalizeTier(t) : t \in tiers} = tiers
  BY DEF NormalizeTier, Tiers
<1> QED
  BY <1>1 DEF registeredTiers, NormalizeTiers, Invalid

-----------------------------------------------------------------------------
(* The market's part.                                                      *)

\* A step of the composition is, for the market, a step of Accounts.
LEMMA MarketStep ==
    ASSUME [EnrollNext]_allVars
    PROVE  [Next]_vars
<1>1. ASSUME NEW s \in Sessions, NEW secret \in SecretsInUse,
             AuthenticateProvider(s, secret)
      PROVE  UNCHANGED vars
  BY <1>1 DEF AuthenticateProvider
<1>2. ASSUME NEW s \in Sessions,
             EnforceProviderPrivacy(s) \/ Register(s) \/ HandlerReturns(s)
      PROVE  UNCHANGED vars
  BY <1>2 DEF EnforceProviderPrivacy, Register, HandlerReturns
<1>3. ASSUME NEW a \in Accounts, adminCreate(a) \/ adminRotate(a) \/ adminDisable(a)
      PROVE  Next
  BY <1>3 DEF adminCreate, adminRotate, adminDisable, Disable, Next
<1>4. ASSUME NEW p \in Providers, RemoveProvider(p)
      PROVE  UNCHANGED vars
  BY <1>4 DEF RemoveProvider
<1>5. Save \/ Restart => Next
  BY DEF Save, Restart, Next
<1>6. UNCHANGED allVars => UNCHANGED vars
  BY DEF allVars
<1> QED
  BY <1>1, <1>2, <1>3, <1>4, <1>5, <1>6 DEF EnrollNext

\* The composition implements the specification of the accounts: handlers and
\* the two steps of adminDisableProvider do nothing to the market that Accounts
\* does not allow.
THEOREM ImplementsAccounts == EnrollSpec => Spec
<1>1. EnrollInit => Init
  BY DEF EnrollInit
<1>2. [EnrollNext]_allVars => [Next]_vars
  BY MarketStep
<1> QED
  BY <1>1, <1>2, PTL DEF EnrollSpec, Spec

-----------------------------------------------------------------------------
(* The steps.                                                              *)

\* Nobody is enrolled at first.
LEMMA EnrollInitially == EnrollInit => EnrollInv
  BY DEF EnrollInit, Init, EnrollInv, EnrollTypeOK, RemovedAreDead, LateHandlersKnown,
         UnderOwnID, CheckedHasTier, DisabledNotRouted, TiersWithinPolicy

\* A handler's step keeps the invariant.
LEMMA HandlerSteps ==
    ASSUME AccountsInv, EnrollInv, NEW s \in Sessions,
           \/ \E secret \in SecretsInUse : AuthenticateProvider(s, secret)
           \/ EnforceProviderPrivacy(s) \/ Register(s) \/ HandlerReturns(s)
    PROVE  EnrollInv'
<1> USE EnrollmentAssumption DEF EnrollInv, EnrollTypeOK
<1>1. CASE \E secret \in SecretsInUse : AuthenticateProvider(s, secret)
  BY <1>1
  DEF AuthenticateProvider, vars, RemovedAreDead, LateHandlersKnown,
      UnderOwnID, CheckedHasTier, DisabledNotRouted, TiersWithinPolicy, effectiveTiers
<1>2. CASE EnforceProviderPrivacy(s)
  <2>1. EnrollTypeOK' /\ RemovedAreDead' /\ UnderOwnID' /\ DisabledNotRouted'
          /\ TiersWithinPolicy'
    BY <1>2 DEF EnforceProviderPrivacy, Hangs, vars, RemovedAreDead, UnderOwnID,
                DisabledNotRouted, TiersWithinPolicy
  <2>2. CheckedHasTier'
    BY <1>2 DEF EnforceProviderPrivacy, Hangs, CheckedHasTier
  <2>3. LateHandlersKnown'
    <3>1. \A p \in removed : acct[p] = "disabled"
      BY AccountsAssumption DEF AccountsInv, RemovalsSaved, RemovedAreDead
    <3> QED
      BY <1>2, <3>1 DEF EnforceProviderPrivacy, Hangs, LateHandlersKnown
  <2> QED
    BY <2>1, <2>2, <2>3
<1>3. CASE Register(s)
  <2> DEFINE tiers == effectiveTiers(s, who[s])
  <2>1. tiers \subseteq Tiers /\ tiers # {}
    BY <1>3, RequestedAreTiers DEF Register, effectiveTiers, CheckedHasTier
  <2>2. registeredTiers(ModeForTiers(tiers), tiers) = tiers
    BY <2>1, RegisteredAsGiven
  <2> DEFINE n == NodeOf[s]
             reg == [conn |-> s, provider |-> who[s], tiers |-> tiers]
  <2>3. /\ nodes' = [nodes EXCEPT ![n] = reg]
        /\ stage[s] = "checked" /\ stage' = [stage EXCEPT ![s] = "up"]
        /\ UNCHANGED <<vars, who, removing, removed, slipped>>
    BY <1>3, <2>2 DEF Register
  <2>4. reg \in Registrations
    BY <2>1, <2>3 DEF Registrations
  <2> HIDE DEF tiers
  <2>5. EnrollTypeOK' /\ RemovedAreDead'
    BY <2>3, <2>4 DEF RemovedAreDead, vars
  <2>6. LateHandlersKnown' /\ CheckedHasTier'
    BY <2>3 DEF LateHandlersKnown, CheckedHasTier
  <2>7. UnderOwnID' /\ DisabledNotRouted'
    BY <2>3 DEF LateHandlersKnown, UnderOwnID, DisabledNotRouted
  <2>8. TiersWithinPolicy'
    BY <2>1, <2>3 DEF TiersWithinPolicy, effectiveTiers, tiers
  <2> QED
    BY <2>5, <2>6, <2>7, <2>8
<1>4. CASE HandlerReturns(s)
  BY <1>4
  DEF HandlerReturns, Hangs, vars, RemovedAreDead, LateHandlersKnown,
      UnderOwnID, CheckedHasTier, DisabledNotRouted, TiersWithinPolicy
<1> QED
  BY <1>1, <1>2, <1>3, <1>4

\* An admin request's step keeps the invariant.
LEMMA AdminSteps ==
    ASSUME AccountsInv, EnrollInv,
           \/ \E a \in Accounts : adminCreate(a) \/ adminRotate(a) \/ adminDisable(a)
           \/ \E p \in Providers : RemoveProvider(p)
    PROVE  EnrollInv'
<1> USE EnrollmentAssumption DEF EnrollInv, EnrollTypeOK
<1>1. CASE \E a \in Accounts : adminCreate(a) \/ adminRotate(a)
  <2>1. UNCHANGED <<sessionVars, dead>>
    BY <1>1 DEF adminCreate, adminRotate, Create, Rotate
  <2> QED
    BY <2>1
    DEF sessionVars, RemovedAreDead, LateHandlersKnown, UnderOwnID, CheckedHasTier,
        DisabledNotRouted, TiersWithinPolicy
<1>2. CASE \E a \in Accounts : adminDisable(a)
  <2>1. PICK a \in Accounts : adminDisable(a)
    BY <1>2
  <2>2. /\ UNCHANGED <<stage, who, nodes, removed, slipped>>
        /\ \/ dead' = dead \cup {a} /\ removing' = removing \cup ({a} \cap Providers)
           \/ UNCHANGED <<dead, removing>>
    BY <2>1 DEF adminDisable, DisableSaved, DisableUnsaved
  <2> QED
    BY <2>2
    DEF RemovedAreDead, LateHandlersKnown, UnderOwnID, CheckedHasTier,
        DisabledNotRouted, TiersWithinPolicy
<1>3. CASE \E p \in Providers : RemoveProvider(p)
  <2>1. PICK p \in Providers : RemoveProvider(p)
    BY <1>3
  <2>2. EnrollTypeOK' /\ RemovedAreDead' /\ UnderOwnID' /\ CheckedHasTier'
          /\ TiersWithinPolicy'
    BY <2>1 DEF RemoveProvider, vars, RemovedAreDead, UnderOwnID, CheckedHasTier,
                TiersWithinPolicy
  <2>3. LateHandlersKnown' /\ DisabledNotRouted'
    BY <2>1 DEF RemoveProvider, LateHandlersKnown, DisabledNotRouted
  <2> QED
    BY <2>2, <2>3
<1> QED
  BY <1>1, <1>2, <1>3

\* Every step of the composition keeps the invariant.
LEMMA EnrollStep ==
    ASSUME AccountsInv, EnrollInv, [EnrollNext]_allVars
    PROVE  EnrollInv'
<1>1. CASE Save
  BY <1>1
  DEF Save, RecordReserved, sessionVars, EnrollInv, EnrollTypeOK, RemovedAreDead,
      LateHandlersKnown, UnderOwnID, CheckedHasTier, DisabledNotRouted, TiersWithinPolicy
<1>2. CASE Restart
  BY <1>2
  DEF Restart, New, EnrollInv, EnrollTypeOK, RemovedAreDead,
      LateHandlersKnown, UnderOwnID, CheckedHasTier, DisabledNotRouted, TiersWithinPolicy
<1>3. CASE UNCHANGED allVars
  BY <1>3
  DEF allVars, vars, sessionVars, EnrollInv, EnrollTypeOK, RemovedAreDead,
      LateHandlersKnown, UnderOwnID, CheckedHasTier, DisabledNotRouted, TiersWithinPolicy
<1> QED
  BY <1>1, <1>2, <1>3, HandlerSteps, AdminSteps DEF EnrollNext

\* The inductive invariant of the composition always holds.
THEOREM EnrollmentInvariant == EnrollSpec => [](AccountsInv /\ EnrollInv)
<1>1. EnrollSpec => []AccountsInv
  BY ImplementsAccounts, AccountsInvariant, PTL
<1>2. AccountsInv /\ EnrollInv /\ [EnrollNext]_allVars => EnrollInv'
  BY EnrollStep
<1> QED
  BY <1>1, <1>2, EnrollInitially, PTL DEF EnrollSpec

\* Once adminDisableProvider has answered, no node of the provider is routed
\* to, except one whose handler stood between EnforceProviderPrivacy and
\* Register at that moment.
THEOREM DisabledProvidersNotRouted == EnrollSpec => []DisabledNotRouted
<1>1. EnrollInv => DisabledNotRouted
  BY DEF EnrollInv
<1> QED
  BY <1>1, EnrollmentInvariant, PTL

\* nodeWebSocket registers a node for a non-empty set of tiers that its agent
\* asked for and the provider's policy allows.
THEOREM TiersAreWithinPolicy == EnrollSpec => []TiersWithinPolicy
<1>1. EnrollInv => TiersWithinPolicy
  BY DEF EnrollInv
<1> QED
  BY <1>1, EnrollmentInvariant, PTL

\* In the composition, too, a disabled account stays out, a secret that was
\* rotated out is never accepted again and the last secret given out works.
THEOREM SecretsInComposition ==
    EnrollSpec => [](DisabledStaysOut /\ RotatedOutForGood /\ CurrentSecretWorks)
  BY ImplementsAccounts, DisabledAccountsStayOut, RotatedSecretsStayOut,
     CurrentSecretsWork, PTL

=============================================================================
