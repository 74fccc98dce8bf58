------------------------------- MODULE Store -------------------------------
(***************************************************************************)
(* internal/store: the tables and the statements the rest of tunneld runs  *)
(* on them.  A statement is one action, conjoined by the caller with its   *)
(* own step; whatever the code does in two statements is two actions, with *)
(* other goroutines, the janitor and the operator's kill switch free to    *)
(* run in between.  The D1 store (internal/stored1) issues the same        *)
(* statements as HTTP requests, whose errors do not say whether the        *)
(* statement ran.                                                          *)
(*                                                                         *)
(* Every tenant holds at most one service, always named "mcp", so a row of *)
(* services is its auth mode; an "oauth" service always has a password     *)
(* hash and an "open" one never does (controlplane.go 111-135).            *)
(***************************************************************************)
EXTENDS Naturals, FiniteSets

CONSTANTS
    Slugs,        \* tenant slugs
    IPs,          \* client addresses
    PEMs,         \* private keys
    NoPEM,        \* no signing_keys row
    WindowLen,    \* length of a rate window, in clock ticks (one hour)
    MaxTime       \* bound: the clock stops here

ASSUME StoreAssumption ==
    /\ NoPEM \notin PEMs
    /\ WindowLen \in Nat \ {0}
    /\ MaxTime \in Nat

VARIABLES
    now,          \* the wall clock
    tenants,      \* slugs with a row in tenants
    exp,          \* tenants.expires_at, 0 for no row
    svc,          \* services: "none", or the auth mode of the row
    skey,         \* signing_keys: NoPEM, or the stored key
    clients,      \* oauth_clients rows: [slug, id, uris]
    codes,        \* auth_codes rows: [id, slug, client, uri, chal, exp, used]
    rate          \* quick_rate: [ip][window], 0 for no row

tenantRows == <<tenants, exp, svc, skey, clients, codes>>
storeVars == <<tenantRows, rate>>

Window(t) == t \div WindowLen
Windows == {Window(t) : t \in 0..MaxTime}
AuthModes == {"none", "open", "oauth"}

StoreInit ==
    /\ now = 0
    /\ tenants = {}
    /\ exp = [s \in Slugs |-> 0]
    /\ svc = [s \in Slugs |-> "none"]
    /\ skey = [s \in Slugs |-> NoPEM]
    /\ clients = {}
    /\ codes = {}
    /\ rate = [ip \in IPs |-> [w \in Windows |-> 0]]

Tick == now < MaxTime /\ now' = now + 1 /\ UNCHANGED storeVars

-----------------------------------------------------------------------------
(* tenants                                                                 *)

(* INSERT INTO tenants; the caller checks the slug is free (ErrExists).    *)
CreateTenantExpiry(s, expires) ==
    /\ s \notin tenants
    /\ tenants' = tenants \cup {s}
    /\ exp' = [exp EXCEPT ![s] = expires]
    /\ UNCHANGED <<svc, skey, clients, codes, rate>>

(* Seeded bug: foreign keys are off, so nothing cascades.                  *)
DeleteTenantNoCascade(s) ==
    /\ tenants' = tenants \ {s}
    /\ exp' = [exp EXCEPT ![s] = 0]
    /\ UNCHANGED <<svc, skey, clients, codes, rate>>

(* DELETE FROM tenants, with ON DELETE CASCADE on every other table.       *)
DeleteTenant(s) ==
    /\ tenants' = tenants \ {s}
    /\ exp' = [exp EXCEPT ![s] = 0]
    /\ svc' = [svc EXCEPT ![s] = "none"]
    /\ skey' = [skey EXCEPT ![s] = NoPEM]
    /\ clients' = {c \in clients : c.slug # s}
    /\ codes' = {c \in codes : c.slug # s}
    /\ UNCHANGED rate

(* The SELECT of DeleteExpiredTenants.                                     *)
ExpiredTenants == {s \in tenants : exp[s] <= now}

(* CountLiveTenants.                                                       *)
LiveTenants == {s \in tenants : exp[s] > now}
CountLiveTenants == Cardinality(LiveTenants)

-----------------------------------------------------------------------------
(* quick_rate                                                              *)

(* Seeded bug: every window before the caller's own is deleted.            *)
RatePruneTooSoon(w) ==
    /\ rate' = [i \in IPs |-> [v \in Windows |-> IF v < w THEN 0 ELSE rate[i][v]]]
    /\ UNCHANGED tenantRows

(* QuickRateHit, called with an earlier reading w of the clock's window:   *)
(* the DELETE of the windows long over by w ...                            *)
RatePrune(w) ==
    /\ rate' = [i \in IPs |-> [v \in Windows |-> IF v + 2 < w THEN 0 ELSE rate[i][v]]]
    /\ UNCHANGED tenantRows

(* ... and the upsert of the row of w, a new one if somebody pruned it.    *)
RateUpsert(ip, w) ==
    /\ rate' = [rate EXCEPT ![ip][w] = @ + 1]
    /\ UNCHANGED tenantRows

-----------------------------------------------------------------------------
(* services and signing keys                                               *)

(* CreateService: the tenant check and the INSERT have the effect of one   *)
(* statement, since the foreign key is checked again by the INSERT.        *)
CreateService(s, mode) ==
    /\ s \in tenants
    /\ svc[s] = "none"
    /\ svc' = [svc EXCEPT ![s] = mode]
    /\ UNCHANGED <<tenants, exp, skey, clients, codes, rate>>

(* ValidatePassword, for a caller whose password is the right one or not;  *)
(* an open service accepts any, a missing one none.                        *)
ValidatePassword(s, right) == svc[s] = "open" \/ (svc[s] = "oauth" /\ right)

(* INSERT OR IGNORE INTO signing_keys: keeps the key that is there; a      *)
(* missing tenant is still a foreign key error.                            *)
CreateSigningKey(s, pem) ==
    /\ s \in tenants
    /\ skey' = IF skey[s] = NoPEM THEN [skey EXCEPT ![s] = pem] ELSE skey
    /\ UNCHANGED <<tenants, exp, svc, clients, codes, rate>>

-----------------------------------------------------------------------------
(* oauth_clients and auth_codes                                            *)

CreateOAuthClient(s, id, uris) ==
    /\ s \in tenants
    /\ clients' = clients \cup {[slug |-> s, id |-> id, uris |-> uris]}
    /\ UNCHANGED <<tenants, exp, svc, skey, codes, rate>>

(* GetOAuthClient: the redirect URIs of one client, none if unregistered.  *)
RegisteredURIs(s, id) == UNION {c.uris : c \in {c \in clients : c.slug = s /\ c.id = id}}

CreateAuthCode(id, s, client, uri, chal, expires) ==
    /\ s \in tenants
    /\ codes' = codes \cup {[id |-> id, slug |-> s, client |-> client, uri |-> uri,
                            chal |-> chal, exp |-> expires, used |-> FALSE]}
    /\ UNCHANGED <<tenants, exp, svc, skey, clients, rate>>

(* Seeded bug: the UPDATE does not test used_at.                           *)
ClaimableAgain(id) == {c \in codes : c.id = id /\ c.exp > now}

(* The rows the UPDATE of ConsumeAuthCode would claim: one at most.        *)
Claimable(id) == {c \in codes : c.id = id /\ ~ c.used /\ c.exp > now}

(* That UPDATE, which sets used_at; a code not claimable is left alone.    *)
ClaimAuthCode(id) ==
    /\ codes' = (codes \ Claimable(id)) \cup {[c EXCEPT !.used = TRUE] : c \in Claimable(id)}
    /\ UNCHANGED <<tenants, exp, svc, skey, clients, rate>>

(* The SELECT that follows it, used or not; one row, unless the code went  *)
(* away with its tenant in between.                                        *)
ClaimedRows(id) == {c \in codes : c.id = id}

-----------------------------------------------------------------------------
TablesTypeOK ==
    /\ tenants \subseteq Slugs
    /\ exp \in [Slugs -> Nat]
    /\ svc \in [Slugs -> AuthModes]
    /\ skey \in [Slugs -> PEMs \cup {NoPEM}]
    /\ rate \in [IPs -> [Windows -> Nat]]

StoreTypeOK == now \in 0..MaxTime /\ TablesTypeOK

(* No service, signing key, OAuth client or authorization code outlives    *)
(* its tenant, however creations and deletions interleave.                 *)
NoOrphanRows ==
    /\ \A s \in Slugs : (svc[s] # "none" \/ skey[s] # NoPEM) => s \in tenants
    /\ \A c \in clients \cup codes : c.slug \in tenants
=============================================================================
