--------------------------- MODULE AccountsProofs ---------------------------
(***************************************************************************)
(* Proofs about Accounts, for any accounts, configuration and number of    *)
(* rotations, failed saves and restarts.                                   *)
(***************************************************************************)
EXTENDS Accounts, TLAPS

\* The invariant holds after the first start with an empty store.
LEMMA AccountsInit == Init => AccountsInv
  BY AccountsAssumption
  DEF Init, AccountsInv, TypeOK, Numbered, RemovalsSaved, CurrentSaved,
      CurrentSecretWorks, ConfigSecrets, Secret, Secrets, authenticates, Merged, loadState

\* A creation keeps the invariant, whether its save succeeds or is undone.
LEMMA CreateStep ==
    ASSUME AccountsInv, NEW a \in Accounts, Create(a)
    PROVE  AccountsInv'
<1> USE AccountsAssumption
    DEF AccountsInv, TypeOK, Secrets, Secret, ConfigSecrets
<1>1. TypeOK'
  BY DEF Create, persistLocked, persistFails
<1>2. Numbered'
  BY DEF Create, persistLocked, persistFails, Numbered
<1>3. RemovalsSaved'
  BY DEF Create, persistLocked, persistFails, RemovalsSaved, Numbered
<1>4. CurrentSaved' /\ CurrentSecretWorks'
  BY DEF Create, persistLocked, persistFails, CurrentSaved,
         CurrentSecretWorks, authenticates, Merged, loadState
<1> QED
  BY <1>1, <1>2, <1>3, <1>4

\* A rotation keeps the invariant, also when its save fails and is not undone.
LEMMA RotateStep ==
    ASSUME AccountsInv, NEW a \in Accounts, Rotate(a)
    PROVE  AccountsInv'
<1> USE AccountsAssumption
    DEF AccountsInv, TypeOK, Secrets, Secret, ConfigSecrets, SecretsOf
<1>1. TypeOK'
  BY DEF Rotate, persistLocked, persistFails, removeSecretsLocked
<1>2. Numbered'
  BY DEF Rotate, persistLocked, persistFails, removeSecretsLocked, Numbered
<1>3. RemovalsSaved'
  BY DEF Rotate, persistLocked, persistFails, removeSecretsLocked,
         RemovalsSaved, Numbered
<1>4. CurrentSaved' /\ CurrentSecretWorks'
  BY DEF Rotate, persistLocked, persistFails, removeSecretsLocked,
         CurrentSaved, CurrentSecretWorks, authenticates, Merged, loadState
<1> QED
  BY <1>1, <1>2, <1>3, <1>4

\* Disabling keeps the invariant, also when its save fails.
LEMMA DisableStep ==
    ASSUME AccountsInv, NEW a \in Accounts, Disable(a)
    PROVE  AccountsInv'
<1> USE AccountsAssumption
    DEF AccountsInv, TypeOK, Secrets, Secret, ConfigSecrets, SecretsOf
<1>1. TypeOK'
  BY DEF Disable, DisableSaved, DisableUnsaved, DisableInMemory,
    persistLocked, persistFails, removeSecretsLocked
<1>2. Numbered'
  BY DEF Disable, DisableSaved, DisableUnsaved, DisableInMemory,
    persistLocked, persistFails, removeSecretsLocked, Numbered
<1>3. RemovalsSaved'
  BY DEF Disable, DisableSaved, DisableUnsaved, DisableInMemory,
    persistLocked, persistFails, removeSecretsLocked, RemovalsSaved
<1>4. CurrentSaved' /\ CurrentSecretWorks'
  BY DEF Disable, DisableSaved, DisableUnsaved, DisableInMemory,
    persistLocked, persistFails, removeSecretsLocked,
         CurrentSaved, CurrentSecretWorks, authenticates, Merged, loadState
<1> QED
  BY <1>1, <1>2, <1>3, <1>4

\* Every admin request, every save by RecordReserved and every restart keeps
\* the invariant.
LEMMA AccountsStep ==
    ASSUME AccountsInv, [Next]_vars
    PROVE  AccountsInv'
<1>1. ASSUME NEW a \in Accounts, Create(a) \/ Rotate(a) \/ Disable(a)
      PROVE  AccountsInv'
  BY <1>1, CreateStep, RotateStep, DisableStep
<1>2. CASE RecordReserved
  BY <1>2, AccountsAssumption
  DEF RecordReserved, persistLocked, AccountsInv, TypeOK, Numbered,
      RemovalsSaved, CurrentSaved, CurrentSecretWorks, authenticates, Merged, loadState,
      Secrets
<1>3. CASE New
  BY <1>3, AccountsAssumption
  DEF New, AccountsInv, TypeOK, Numbered, RemovalsSaved, CurrentSaved,
      CurrentSecretWorks, authenticates, Merged, loadState, Secrets, Secret, ConfigSecrets
<1>4. CASE UNCHANGED vars
  BY <1>4
  DEF vars, AccountsInv, TypeOK, Numbered, RemovalsSaved, CurrentSaved,
      CurrentSecretWorks, authenticates, Merged, loadState
<1> QED
  BY <1>1, <1>2, <1>3, <1>4 DEF Next

\* The inductive invariant of the accounts always holds.
THEOREM AccountsInvariant == Spec => []AccountsInv
<1>1. AccountsInv /\ [Next]_vars => AccountsInv'
  BY AccountsStep
<1> QED
  BY <1>1, AccountsInit, PTL DEF Spec

\* Once DisableConsumer or DisableProvider has succeeded, no secret of the
\* account is accepted again, across failed saves, restarts and the merge with
\* the configuration.
THEOREM DisabledAccountsStayOut == Spec => []DisabledStaysOut
<1>1. AccountsInv => DisabledStaysOut
  BY DEF AccountsInv, RemovalsSaved, DisabledStaysOut, authenticates, SecretsOf
<1> QED
  BY <1>1, AccountsInvariant, PTL

\* A generated secret that RotateConsumerKey or RotateProviderToken has
\* replaced is never accepted again.
THEOREM RotatedSecretsStayOut == Spec => []RotatedOutForGood
<1>1. AccountsInv => RotatedOutForGood
  BY DEF AccountsInv, RemovalsSaved, RotatedOutForGood, authenticates, TypeOK
<1> QED
  BY <1>1, AccountsInvariant, PTL

\* The secret an admin request last returned for an account keeps working
\* across restarts until the account is rotated or disabled again.
THEOREM CurrentSecretsWork == Spec => []CurrentSecretWorks
<1>1. AccountsInv => CurrentSecretWorks
  BY DEF AccountsInv
<1> QED
  BY <1>1, AccountsInvariant, PTL

=============================================================================
