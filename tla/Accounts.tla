------------------------------ MODULE Accounts ------------------------------
(***************************************************************************)
(* The accounts of the city market: consumers with API keys and providers  *)
(* with tokens, created, rotated and disabled by admin requests, saved as  *)
(* a whole by every change, and merged with the configuration file when    *)
(* the coordinator starts.  Market.mu makes every operation one step; the  *)
(* save at its end may fail.  Consumers and providers are treated alike,   *)
(* by functions of the same shape.  sqlite_path or usage_store_path is set *)
(* in the configuration.                                                   *)
(***************************************************************************)
EXTENDS Integers, FiniteSets

CONSTANTS
    Consumers,      \* consumer IDs
    Providers,      \* provider IDs
    Local,          \* the consumer the legacy api_keys belong to
    Configured,     \* accounts the configuration lists, each with a secret
    SavesMayFail,   \* whether persistLocked may return an error
    MaxIssued       \* bound on the secrets generated for an account

Accounts == Consumers \cup Providers

ASSUME AccountsAssumption ==
    /\ Consumers \cap Providers = {}
    /\ Local \in Consumers
    /\ Configured \subseteq Accounts
    /\ SavesMayFail \in BOOLEAN
    /\ MaxIssued \in Nat

VARIABLES
    acct,     \* consumers and providers: what the market knows of each
    plain,    \* apiKeys and tokens: the secrets held in plain text
    hashes,   \* apiKeyHashes and tokenHashes: the secrets held hashed
    saved,    \* accounts and hashes in the store
    issued,   \* number of secrets generated for each account
    current,  \* history: the secrets admins were last given, one per account
    revoked,  \* history: secrets a successful rotation has replaced
    dead      \* history: accounts whose disabling has succeeded

vars == <<acct, plain, hashes, saved, issued, current, revoked, dead>>

-----------------------------------------------------------------------------

\* The configured secret of an account has number 0, generated ones follow.
Secret(a, n)    == <<a, n>>
SecretsOf(a, S) == {s \in S : s[1] = a}

ConfigSecrets == {Secret(a, 0) : a \in Configured}

\* activeConsumerIDLocked, activeProviderIDLocked after a lookup.
authenticates(s) == s \in plain \cup hashes /\ acct[s[1]] = "active"

\* Mutant: the secrets are saved as they were before the change.
persistStale == saved' = [acct |-> acct', hashes |-> hashes]

\* One transaction, or a file that is renamed into place.  A store is configured:
\* without one the code saves nothing, returns no error and forgets all changes
\* with the process.
persistLocked == saved' = [acct |-> acct', hashes |-> hashes']
persistFails  == SavesMayFail /\ UNCHANGED saved

\* Mutant: only the plain secrets are removed.
removePlainOnly(a, extra) ==
    /\ plain' = plain \ SecretsOf(a, plain)
    /\ hashes' = hashes \cup extra

removeSecretsLocked(a, extra) ==
    /\ plain' = plain \ SecretsOf(a, plain)
    /\ hashes' = (hashes \ SecretsOf(a, hashes)) \cup extra

-----------------------------------------------------------------------------

\* CreateConsumer, CreateProvider.  A failed save is undone in memory.
Create(a) ==
    LET s == Secret(a, issued[a] + 1)
    IN  /\ acct[a] = "none"
        /\ issued[a] < MaxIssued
        /\ issued' = [issued EXCEPT ![a] = @ + 1]
        /\ \/ /\ acct' = [acct EXCEPT ![a] = "active"]
              /\ hashes' = hashes \cup {s}
              /\ persistLocked
              /\ current' = current \cup {s}
           \/ /\ persistFails
              /\ UNCHANGED <<acct, hashes, current>>
        /\ UNCHANGED <<plain, revoked, dead>>

\* RotateConsumerKey, RotateProviderToken.  A failed save is not undone: the
\* old secrets are gone from memory and the new one, which nobody is told, is
\* in it.
Rotate(a) ==
    LET s == Secret(a, issued[a] + 1)
    IN  /\ acct[a] = "active"
        /\ issued[a] < MaxIssued
        /\ issued' = [issued EXCEPT ![a] = @ + 1]
        /\ removeSecretsLocked(a, {s})
        /\ UNCHANGED <<acct, dead>>
        /\ \/ /\ persistLocked
              /\ current' = (current \ SecretsOf(a, current)) \cup {s}
              /\ revoked' = revoked \cup {Secret(a, n) : n \in 0..issued[a]}
           \/ /\ persistFails
              /\ current' = current \ SecretsOf(a, current)
              /\ UNCHANGED revoked

\* DisableConsumer, DisableProvider.  Disabling twice is allowed.  A failed
\* save is not undone either.
DisableInMemory(a) ==
    /\ acct[a] # "none"
    /\ acct' = [acct EXCEPT ![a] = "disabled"]
    /\ removeSecretsLocked(a, {})
    /\ current' = current \ SecretsOf(a, current)
    /\ UNCHANGED <<issued, revoked>>

DisableSaved(a)   == DisableInMemory(a) /\ persistLocked /\ dead' = dead \cup {a}
DisableUnsaved(a) == DisableInMemory(a) /\ persistFails /\ UNCHANGED dead

Disable(a) == DisableSaved(a) \/ DisableUnsaved(a)

\* RecordReserved saves the whole market after every billed request, and with
\* it what an earlier failed save had left out.
RecordReserved ==
    /\ UNCHANGED <<acct, plain, hashes, issued, current, revoked, dead>>
    /\ persistLocked

\* Every account and hash of the last successful save comes back.
loadState == saved

\* Mutant: the configuration enables what it lists.
MergedFromConfig(a) == IF a \in Configured THEN "active" ELSE loadState.acct[a]

\* A crash, and New: load the store, then lay the configuration over it.  The
\* configuration keeps a disabled account disabled; the legacy keys' account
\* is set up afresh.
Merged(a) ==
    IF a = Local /\ a \in Configured THEN "active"
    ELSE IF a \in Configured /\ loadState.acct[a] = "none" THEN "active"
    ELSE loadState.acct[a]

New ==
    LET config == {s \in ConfigSecrets : Merged(s[1]) = "active"}
    IN  /\ acct' = [a \in Accounts |-> Merged(a)]
        /\ plain' = config
        /\ hashes' = loadState.hashes \cup config
        /\ UNCHANGED <<saved, issued, current, revoked, dead>>

\* The state after the first start, with an empty store.
Init ==
    /\ acct = [a \in Accounts |-> IF a \in Configured THEN "active" ELSE "none"]
    /\ plain = ConfigSecrets
    /\ hashes = ConfigSecrets
    /\ saved = [acct |-> [a \in Accounts |-> "none"], hashes |-> {}]
    /\ issued = [a \in Accounts |-> 0]
    /\ current = ConfigSecrets
    /\ revoked = {}
    /\ dead = {}

Next ==
    \/ \E a \in Accounts : Create(a) \/ Rotate(a) \/ Disable(a)
    \/ RecordReserved
    \/ New

Spec == Init /\ [][Next]_vars

-----------------------------------------------------------------------------
(* Properties.                                                             *)

Secrets == Accounts \X (0..MaxIssued)

\* The states the market can be in; a configured secret is held both ways.
TypeOK ==
    /\ acct \in [Accounts -> {"none", "active", "disabled"}]
    /\ plain \subseteq ConfigSecrets
    /\ hashes \subseteq Secrets
    /\ saved.acct \in [Accounts -> {"none", "active", "disabled"}]
    /\ saved.hashes \subseteq Secrets
    /\ issued \in [Accounts -> 0..MaxIssued]
    /\ current \subseteq Secrets
    /\ revoked \subseteq Secrets
    /\ dead \subseteq Accounts

\* Once an admin request has disabled an account, no secret of it is accepted
\* again, whatever is rotated, saved, lost in a crash and merged from the
\* configuration later (the account of the legacy keys apart, see New).
DisabledStaysOut ==
    \A a \in dead \ {Local} : \A s \in SecretsOf(a, Secrets) : ~authenticates(s)

\* A generated secret that was rotated out is never accepted again, also not
\* after a restart from the store or a later save.
RotatedOutForGood == \A s \in revoked \ ConfigSecrets : ~authenticates(s)

\* The secret an admin was last given for an account that has not been
\* disabled works, after any number of crashes, unless a later change of that
\* account failed half-way.
CurrentSecretWorks == \A s \in current : authenticates(s)

-----------------------------------------------------------------------------
(* The strengthening that makes the three properties inductive.            *)

\* A secret that is held or was given out has been issued: the next one that
\* is generated is new.
Numbered ==
    \A s \in hashes \cup saved.hashes \cup revoked \cup current :
        s[2] <= issued[s[1]]

\* The store knows what disabling and rotation have removed.
RemovalsSaved ==
    /\ \A a \in dead \ {Local} :
          acct[a] = "disabled" /\ saved.acct[a] = "disabled"
    /\ \A s \in revoked \ ConfigSecrets : s \notin hashes /\ s \notin saved.hashes

\* What an admin was last given would survive a crash now.
CurrentSaved ==
    \A s \in current :
        /\ s \in saved.hashes \cup ConfigSecrets
        /\ Merged(s[1]) = "active"

AccountsInv ==
    TypeOK /\ Numbered /\ RemovalsSaved /\ CurrentSaved /\ CurrentSecretWorks

=============================================================================
