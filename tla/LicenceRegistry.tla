--------------------------- MODULE LicenceRegistry ---------------------------
(* The operator's licence registry (licensing/registry_service.py,          *)
(* registry_views.py, registry_admin_views.py): the installations of one    *)
(* purchase code on one domain, the handlers that activate them, and the    *)
(* operator. The mark for a code that is used on several domains is left    *)
(* out: it is shown to the operator and decides nothing.                    *)
EXTENDS Naturals, FiniteSets

CONSTANTS
    Callers,         \* the clients that may have one activation call each
    Installs,        \* the rows that may come to exist
    NoInstall,
    MaxActivations   \* activation calls in all

ASSUME LicenceRegistryAssumption ==
    NoInstall \notin Installs /\ MaxActivations \in Nat \ {0}

VARIABLES
    row,        \* row[i]: an installation, NoRow until it is created
    handler,    \* handler[c]: the activation handler that serves caller c
    locked,     \* the handlers that hold the row of the purchase
    issued,     \* tokens issued so far; a token is the number of its issue
    calls       \* activation calls so far

registryVars == <<row, handler, locked, issued, calls>>

Tokens == 0..MaxActivations      \* 0 is no token
Rows == [token : Tokens, suspended : BOOLEAN]
NoRow == [token |-> 0, suspended |-> FALSE]
Handlers == [pc : {"idle", "called", "holding", "answered"},
             found : Installs \cup {NoInstall}, token : Tokens]
Idle == [pc |-> "idle", found |-> NoInstall, token |-> 0]

RegistryTypeOK ==
    /\ row \in [Installs -> Rows]
    /\ handler \in [Callers -> Handlers]
    /\ locked \subseteq Callers
    /\ issued \in Tokens
    /\ calls \in 0..MaxActivations

RegistryInit ==
    /\ row = [i \in Installs |-> NoRow]
    /\ handler = [c \in Callers |-> Idle]
    /\ locked = {}
    /\ issued = 0 /\ calls = 0

\* One installation has been activated before.
RegistryInitWithOne ==
    /\ \E i \in Installs : row = [j \in Installs |-> IF j = i THEN [NoRow EXCEPT !.token = 1] ELSE NoRow]
    /\ handler = [c \in Callers |-> Idle]
    /\ locked = {}
    /\ issued = 1 /\ calls = 1

-----------------------------------------------------------------------------
Exists(i) == row[i].token # 0

\* validate_by_token(), and the ok of a heartbeat: an unknown token and a
\* suspended installation are refused.
Accepts(t) == \E i \in Installs : Exists(i) /\ row[i].token = t /\ ~row[i].suspended

ActivateUnlocked(c) ==
    /\ handler[c].pc = "called"
    /\ locked' = {c}
    /\ \E i \in Installs \cup {NoInstall} :
          /\ IF i = NoInstall THEN \A j \in Installs : ~Exists(j) ELSE Exists(i)
          /\ handler' = [handler EXCEPT ![c].pc = "holding", ![c].found = i]
    /\ UNCHANGED <<row, issued, calls>>

\* update_or_create() on the purchase locks its row until the transaction ends;
\* the installation is looked up after that.
ActivateLock(c) ==
    /\ handler[c].pc = "called"
    /\ locked = {}
    /\ locked' = {c}
    /\ \E i \in Installs \cup {NoInstall} :
          /\ IF i = NoInstall THEN \A j \in Installs : ~Exists(j) ELSE Exists(i)
          /\ handler' = [handler EXCEPT ![c].pc = "holding", ![c].found = i]
    /\ UNCHANGED <<row, issued, calls>>

\* The row found gets the new token and is no longer suspended; if none was, one
\* is created.
ActivateCommit(c) ==
    LET found == handler[c].found
    IN  /\ handler[c].pc = "holding"
        /\ issued < MaxActivations
        /\ issued' = issued + 1
        /\ locked' = locked \ {c}
        /\ handler' = [handler EXCEPT ![c].pc = "answered", ![c].found = NoInstall,
                                      ![c].token = issued + 1]
        /\ \E i \in Installs :
              /\ IF found = NoInstall THEN ~Exists(i) ELSE i = found
              /\ row' = [row EXCEPT ![i] = [token |-> issued + 1, suspended |-> FALSE]]
        /\ UNCHANGED calls

\* Envato does not know the code or is not there, or the rate limit says no.
ActivateRefused(c) ==
    /\ handler[c].pc = "called"
    /\ handler' = [handler EXCEPT ![c].pc = "answered"]
    /\ UNCHANGED <<row, locked, issued, calls>>

\* The operator suspends an installation or ends its suspension.
Suspend(i, suspended) ==
    /\ Exists(i)
    /\ row' = [row EXCEPT ![i].suspended = suspended]
    /\ UNCHANGED <<handler, locked, issued, calls>>

RegistryNext ==
    \/ \E c \in Callers : ActivateLock(c) \/ ActivateCommit(c) \/ ActivateRefused(c)
    \/ \E i \in Installs : Suspend(i, TRUE) \/ Suspend(i, FALSE)

-----------------------------------------------------------------------------
(* Several calls for one domain, of a site that asks again because it has    *)
(* had no answer, leave one installation: the lock of the purchase row makes *)
(* the second find what the first has created. The table itself would let   *)
(* both in: it has no unique constraint on purchase and domain.              *)
OneInstallation == \A i, j \in Installs : Exists(i) /\ Exists(j) => i = j
=============================================================================
