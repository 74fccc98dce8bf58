------------------------------- MODULE OAuth -------------------------------
(***************************************************************************)
(* internal/oauth and the bearer check of internal/proxy, over the store:  *)
(* the cache of per-tenant authorization servers (Resolver), dynamic       *)
(* client registration, the authorize endpoint with its password gate, the *)
(* token endpoint, and what a proxied request must show to get through.    *)
(* Handlers take one action per store call; tenants are deleted under them *)
(* (owner, operator or janitor), store calls fail, and tunneld restarts    *)
(* with an empty cache.                                                    *)
(*                                                                         *)
(* Client ids, codes and keys are random and never drawn twice.  A code's  *)
(* plaintext reaches whoever it is redirected to, and anyone may present   *)
(* any code so delivered, with any verifier.  A reply that changes no      *)
(* state (an error, the password form) is a return to idle, or no step at  *)
(* all when the handler had not started one.                               *)
(***************************************************************************)
EXTENDS Store

CONSTANTS
    ClientIds, CodeIds, URIs, Verifiers,
    Auths,       \* handleAuthorize goroutines
    Toks,        \* handleToken goroutines
    Accs,        \* proxied requests
    NoToken, NoSlug,
    TTL,         \* a tenant's lifetime, in clock ticks
    CodeTTL,     \* authCodeTTL
    MaxFaults    \* bound: store errors and restarts

ASSUME OAuthAssumption ==
    /\ NoSlug \notin Slugs
    /\ TTL \in Nat \ {0}
    /\ CodeTTL \in Nat \ {0}
    /\ MaxFaults \in Nat

VARIABLES
    cpem, cexp,          \* Resolver.servers: key and expiry of each cached Server
    rpc, rslug, rexp,    \* Resolver.server under r.mu: pc and locals
    auth, tok, acc,      \* handlers: pc and locals
    tokens,              \* access tokens handed out
    faults,
    gate,      \* history: how each delivered code got past the password gate
    minted,    \* history: tokens issued per code
    misread    \* history: tenants whose signing key a failed read replaced

cacheVars == <<cpem, cexp>>
resolverVars == <<rpc, rslug, rexp>>
history == <<gate, minted, misread>>
vars == <<now, storeVars, cacheVars, resolverVars, auth, tok, acc, tokens, faults, history>>

Idle == [pc |-> "idle"]
NotDelivered == [slug |-> NoSlug, by |-> "nobody"]

(* BASE64URL(SHA256(verifier)), free of collisions.                        *)
S256(verifier) == [s256 |-> verifier]

Init ==
    /\ StoreInit
    /\ cpem = [s \in Slugs |-> NoPEM]
    /\ cexp = [s \in Slugs |-> 0]
    /\ rpc = "free" /\ rslug = NoSlug /\ rexp = 0
    /\ auth = [a \in Auths |-> Idle]
    /\ tok = [t \in Toks |-> Idle]
    /\ acc = [x \in Accs |-> Idle]
    /\ tokens = {}
    /\ faults = 0
    /\ gate = [c \in CodeIds |-> NotDelivered]
    /\ minted = [c \in CodeIds |-> 0]
    /\ misread = {}

(* A store call fails, having run or not (see ControlPlane).               *)
Fault == faults < MaxFaults /\ faults' = faults + 1
NoFault == UNCHANGED faults
NotRun == UNCHANGED storeVars

-----------------------------------------------------------------------------
(* Tenants come and go                                                     *)

(* A slug and a key that nothing refers to.                                *)
FreshSlug(s) ==
    /\ s \notin tenants /\ s # rslug /\ cpem[s] = NoPEM
    /\ \A t \in tokens : t.iss # s
    /\ \A c \in CodeIds : gate[c].slug # s
    /\ \A h \in {auth[a] : a \in Auths} \cup {tok[t] : t \in Toks} \cup {acc[x] : x \in Accs} :
          h.pc # "idle" => h.slug # s
FreshPEM(k) ==
    /\ \A s \in Slugs : skey[s] # k /\ cpem[s] # k
    /\ \A t \in tokens : t.pem # k

(* handleQuick has answered 201.  Until then nobody else knows the slug,   *)
(* so its three statements are one step here (their interleavings are      *)
(* ControlPlane's).                                                        *)
Publish(s, mode) ==
    /\ FreshSlug(s)
    /\ tenants' = tenants \cup {s}
    /\ exp' = [exp EXCEPT ![s] = now + TTL]
    /\ svc' = [svc EXCEPT ![s] = mode]
    /\ IF mode = "oauth"
       THEN \E k \in PEMs : FreshPEM(k) /\ skey' = [skey EXCEPT ![s] = k]
       ELSE UNCHANGED skey
    /\ UNCHANGED <<now, clients, codes, rate, cacheVars, resolverVars, auth, tok, acc, tokens,
                   faults, history>>

(* Deleted by its owner, the operator, or the janitor.                     *)
Remove(s) ==
    /\ s \in tenants
    /\ DeleteTenant(s)
    /\ UNCHANGED <<now, cacheVars, resolverVars, auth, tok, acc, tokens, faults, history>>

-----------------------------------------------------------------------------
(* Resolver.server on a cache miss, one caller at a time under r.mu.  Any  *)
(* failure makes it return nil: the request is answered 404 or 401.        *)

(* Seeded bug: the fallback expiry for every tenant.                       *)
ResolveTenantFallback(s) ==
    /\ rpc = "free" /\ cpem[s] = NoPEM /\ s \in tenants
    /\ rpc' = "key" /\ rslug' = s /\ rexp' = now + TTL
    /\ UNCHANGED <<now, storeVars, cacheVars, auth, tok, acc, tokens, faults, history>>

(* GetTenant ...                                                           *)
ResolveTenant(s) ==
    /\ rpc = "free" /\ cpem[s] = NoPEM /\ s \in tenants
    /\ rpc' = "key" /\ rslug' = s /\ rexp' = exp[s]
    /\ UNCHANGED <<now, storeVars, cacheVars, auth, tok, acc, tokens, faults, history>>

Unlock == rpc' = "free" /\ rslug' = NoSlug /\ rexp' = 0
Cache(k) ==
    /\ cpem' = [cpem EXCEPT ![rslug] = k]
    /\ cexp' = [cexp EXCEPT ![rslug] = rexp]

(* ... then NewServer: GetSigningKey, where any error is taken to mean     *)
(* that the tenant has no key ...                                          *)
ResolveKey ==
    /\ rpc = "key"
    /\ \/ /\ skey[rslug] # NoPEM
          /\ Cache(skey[rslug]) /\ Unlock
          /\ NoFault
          /\ UNCHANGED misread
       \/ /\ skey[rslug] = NoPEM
          /\ rpc' = "generate"
          /\ NoFault
          /\ UNCHANGED <<rslug, rexp, cacheVars, misread>>
       \/ /\ Fault
          /\ rpc' = "generate"
          /\ misread' = misread \cup {rslug}
          /\ UNCHANGED <<rslug, rexp, cacheVars>>
    /\ UNCHANGED <<now, storeVars, auth, tok, acc, tokens, gate, minted>>

(* Seeded bug: the generated key is not stored.                            *)
ResolveGenerateUnsaved ==
    /\ rpc = "generate"
    /\ \E k \in PEMs : FreshPEM(k) /\ Cache(k)
    /\ Unlock
    /\ UNCHANGED <<now, storeVars, auth, tok, acc, tokens, faults, history>>

(* ... and then GenerateKey and CreateSigningKey, after which the server   *)
(* is built from the generated key.                                        *)
ResolveGenerate ==
    /\ rpc = "generate"
    /\ \E k \in PEMs : FreshPEM(k) /\
         \/ CreateSigningKey(rslug, k) /\ Cache(k) /\ NoFault
         \/ rslug \notin tenants /\ NotRun /\ UNCHANGED cacheVars /\ NoFault
         \/ (CreateSigningKey(rslug, k) \/ NotRun) /\ UNCHANGED cacheVars /\ Fault
    /\ Unlock
    /\ UNCHANGED <<now, auth, tok, acc, tokens, history>>

-----------------------------------------------------------------------------
(* Resolver.Handler dispatches to the tenant's cached server (a miss is    *)
(* first resolved by the steps above), and answers 404 without one.        *)
HasServer(s) == cpem[s] # NoPEM

(* handleRegister.  When its INSERT fails the client never learns the id,  *)
(* so the row, if there is one, is never used.                             *)
Register(s, id, uris) ==
    /\ HasServer(s)
    /\ \A c \in clients : c.id # id
    /\ \A a \in Auths : auth[a].pc # "idle" => auth[a].client # id
    /\ uris # {}
    /\ CreateOAuthClient(s, id, uris)
    /\ UNCHANGED <<now, cacheVars, resolverVars, auth, tok, acc, tokens, faults, history>>

-----------------------------------------------------------------------------
(* handleAuthorize                                                         *)

AuthTo(a, pc, by) == auth' = [auth EXCEPT ![a].pc = pc, ![a].by = by]
AuthReturn(a) == auth' = [auth EXCEPT ![a] = Idle]

(* GetOAuthClient, and redirect_uri compared with the registration.        *)
AuthClient(a, s, id, uri, verifier) ==
    /\ auth[a].pc = "idle"
    /\ HasServer(s)
    /\ uri \in RegisteredURIs(s, id)
    /\ auth' = [auth EXCEPT ![a] = [pc |-> "client", slug |-> s, client |-> id, uri |-> uri,
                                    chal |-> S256(verifier), by |-> "nobody"]]
    /\ UNCHANGED <<now, storeVars, cacheVars, resolverVars, tok, acc, tokens, faults, history>>

(* hasPassword: false for an open service, a missing one, and a failed     *)
(* read alike.                                                             *)
AuthGate(a) ==
    /\ auth[a].pc = "client"
    /\ \/ /\ svc[auth[a].slug] = "oauth" /\ AuthTo(a, "gated", "nobody")
          /\ NoFault
       \/ /\ svc[auth[a].slug] # "oauth" /\ AuthTo(a, "approved", "no password")
          /\ NoFault
       \/ /\ AuthTo(a, "approved", "failed read")
          /\ Fault
    /\ UNCHANGED <<now, storeVars, cacheVars, resolverVars, tok, acc, tokens, history>>

(* ValidatePassword: the password form again, unless it accepts what the   *)
(* request carries.                                                        *)
AuthPassword(a, right) ==
    /\ auth[a].pc = "gated"
    /\ \/ /\ ValidatePassword(auth[a].slug, right)
          /\ AuthTo(a, "approved", "password")
          /\ NoFault
       \/ /\ ~ ValidatePassword(auth[a].slug, right)
          /\ AuthReturn(a)
          /\ NoFault
       \/ /\ AuthReturn(a)
          /\ Fault
    /\ UNCHANGED <<now, storeVars, cacheVars, resolverVars, tok, acc, tokens, history>>

(* CreateAuthCode, then the redirect that delivers the code.               *)
AuthCode(a, c) ==
    LET f == auth[a]
        Insert == CreateAuthCode(c, f.slug, f.client, f.uri, f.chal, now + CodeTTL)
    IN
    /\ f.pc = "approved"
    /\ gate[c] = NotDelivered /\ \A row \in codes : row.id # c
    /\ \/ /\ Insert /\ NoFault
          /\ gate' = [gate EXCEPT ![c] = [slug |-> f.slug, by |-> f.by]]
       \/ /\ f.slug \notin tenants /\ NotRun /\ NoFault
          /\ UNCHANGED gate
       \/ /\ (Insert \/ NotRun) /\ Fault
          /\ UNCHANGED gate
    /\ AuthReturn(a)
    /\ UNCHANGED <<now, cacheVars, resolverVars, tok, acc, tokens, minted, misread>>

-----------------------------------------------------------------------------
(* handleToken                                                             *)

TokReturn(t) == tok' = [tok EXCEPT ![t] = Idle]

(* Seeded bug: no test that the tenant has a server.                       *)
TokClaimWithoutServer(t, s, c, id, uri, verifier) ==
    /\ tok[t].pc = "idle" /\ gate[c] # NotDelivered
    /\ Claimable(c) # {} /\ ClaimAuthCode(c)
    /\ tok' = [tok EXCEPT ![t] = [pc |-> "claimed", slug |-> s, code |-> c, client |-> id,
                                  uri |-> uri, verifier |-> verifier]]
    /\ UNCHANGED <<now, cacheVars, resolverVars, auth, acc, tokens, faults, history>>

(* The UPDATE of ConsumeAuthCode ...                                       *)
TokClaim(t, s, c, id, uri, verifier) ==
    /\ tok[t].pc = "idle"
    /\ HasServer(s)
    /\ gate[c] # NotDelivered
    /\ Claimable(c) # {}
    /\ ClaimAuthCode(c)
    /\ \/ /\ tok' = [tok EXCEPT ![t] = [pc |-> "claimed", slug |-> s, code |-> c, client |-> id,
                                        uri |-> uri, verifier |-> verifier]]
          /\ NoFault
       \/ /\ UNCHANGED tok
          /\ Fault
    /\ UNCHANGED <<now, cacheVars, resolverVars, auth, acc, tokens, history>>

(* Seeded bug: the code's tenant is not compared.                          *)
TokIssueAnyTenant(t) ==
    LET f == tok[t] IN
    /\ f.pc = "claimed"
    /\ \E row \in ClaimedRows(f.code) : row.client = f.client /\ row.chal = S256(f.verifier)
    /\ tokens' = tokens \cup {[iss |-> f.slug, pem |-> cpem[f.slug], exp |-> cexp[f.slug],
                               code |-> f.code]}
    /\ minted' = [minted EXCEPT ![f.code] = @ + 1]
    /\ TokReturn(t)
    /\ UNCHANGED <<now, storeVars, cacheVars, resolverVars, auth, acc, faults, gate, misread>>

(* ... then its SELECT; the row may be gone with its tenant.  A mismatch   *)
(* or a failure leaves the code used up; otherwise the token is signed     *)
(* with the cached key and lives as long as the tenant.                    *)
TokIssue(t) ==
    LET f == tok[t]
        Match(row) == /\ row.slug = f.slug /\ row.client = f.client /\ row.uri = f.uri
                      /\ row.chal = S256(f.verifier)
    IN
    /\ f.pc = "claimed"
    /\ \/ /\ \E row \in ClaimedRows(f.code) : Match(row)
          /\ tokens' = tokens \cup {[iss |-> f.slug, pem |-> cpem[f.slug], exp |-> cexp[f.slug],
                                     code |-> f.code]}
          /\ minted' = [minted EXCEPT ![f.code] = @ + 1]
          /\ NoFault
       \/ /\ ~ \E row \in ClaimedRows(f.code) : Match(row)
          /\ NoFault
          /\ UNCHANGED <<tokens, minted>>
       \/ /\ Fault
          /\ UNCHANGED <<tokens, minted>>
    /\ TokReturn(t)
    /\ UNCHANGED <<now, storeVars, cacheVars, resolverVars, auth, acc, gate, misread>>

-----------------------------------------------------------------------------
(* proxy.ServeHTTP up to the dial                                          *)

(* GetService: 404 for a missing one (no step); a failed read leaves svc   *)
(* nil, and the handler panics on it.                                      *)
AccService(x, s, token) ==
    /\ acc[x].pc = "idle"
    /\ svc[s] # "none"
    /\ acc' = [acc EXCEPT ![x] = [pc |-> IF svc[s] = "oauth" THEN "check" ELSE "dial",
                                  slug |-> s, mode |-> svc[s], token |-> token]]
    /\ UNCHANGED <<now, storeVars, cacheVars, resolverVars, auth, tok, tokens, faults, history>>

(* validateAccessToken, with the cached server's key and issuer.           *)
Valid(token, s) == token # NoToken /\ token.pem = cpem[s] /\ token.iss = s /\ now < token.exp

(* authorize: 401 without a server for the tenant or without a valid       *)
(* token.                                                                  *)
AccCheck(x) ==
    /\ acc[x].pc = "check"
    /\ IF Valid(acc[x].token, acc[x].slug)
       THEN acc' = [acc EXCEPT ![x].pc = "dial"]
       ELSE acc' = [acc EXCEPT ![x] = Idle]
    /\ UNCHANGED <<now, storeVars, cacheVars, resolverVars, auth, tok, tokens, faults, history>>

(* The reverse proxy is done with the request.                             *)
AccEnd(x) ==
    /\ acc[x].pc = "dial"
    /\ acc' = [acc EXCEPT ![x] = Idle]
    /\ UNCHANGED <<now, storeVars, cacheVars, resolverVars, auth, tok, tokens, faults, history>>

-----------------------------------------------------------------------------
Clock ==
    /\ Tick
    /\ UNCHANGED <<cacheVars, resolverVars, auth, tok, acc, tokens, faults, history>>

(* tunneld dies and restarts: the cache and the handlers are gone.         *)
Restart ==
    /\ Fault
    /\ cpem' = [s \in Slugs |-> NoPEM]
    /\ cexp' = [s \in Slugs |-> 0]
    /\ Unlock
    /\ auth' = [a \in Auths |-> Idle]
    /\ tok' = [t \in Toks |-> Idle]
    /\ acc' = [x \in Accs |-> Idle]
    /\ UNCHANGED <<now, storeVars, tokens, history>>

Next ==
    \/ \E s \in Slugs : Remove(s) \/ ResolveTenant(s)
    \/ \E s \in Slugs, mode \in {"open", "oauth"} : Publish(s, mode)
    \/ ResolveKey
    \/ ResolveGenerate
    \/ \E s \in Slugs, id \in ClientIds, uris \in SUBSET URIs : Register(s, id, uris)
    \/ \E a \in Auths, s \in Slugs, id \in ClientIds, uri \in URIs, v \in Verifiers :
          AuthClient(a, s, id, uri, v)
    \/ \E a \in Auths : AuthGate(a)
    \/ \E a \in Auths, right \in BOOLEAN : AuthPassword(a, right)
    \/ \E a \in Auths, c \in CodeIds : AuthCode(a, c)
    \/ \E t \in Toks, s \in Slugs, c \in CodeIds, id \in ClientIds, uri \in URIs, v \in Verifiers :
          TokClaim(t, s, c, id, uri, v)
    \/ \E t \in Toks : TokIssue(t)
    \/ \E x \in Accs, s \in Slugs, token \in tokens \cup {NoToken} : AccService(x, s, token)
    \/ \E x \in Accs : AccCheck(x) \/ AccEnd(x)
    \/ Clock
    \/ Restart

Spec == Init /\ [][Next]_vars

-----------------------------------------------------------------------------
(* Rows, tokens and the locals of handlers that have started.              *)
Challenges == {S256(v) : v \in Verifiers}
ClientRows == [slug : Slugs, id : ClientIds, uris : SUBSET URIs]
CodeRows ==
    [id : CodeIds, slug : Slugs, client : ClientIds, uri : URIs, chal : Challenges, exp : Nat,
     used : BOOLEAN]
TokenRecords == [iss : Slugs, pem : PEMs, exp : Nat, code : CodeIds]
Approvals == {"no password", "password", "failed read"}
GateRecords == {NotDelivered} \cup [slug : Slugs, by : Approvals]
AuthLocals(pcs, bys) ==
    [pc : pcs, slug : Slugs, client : ClientIds, uri : URIs, chal : Challenges, by : bys]
TokLocals ==
    [pc : {"claimed"}, slug : Slugs, code : CodeIds, client : ClientIds, uri : URIs,
     verifier : Verifiers]
AccLocals ==
    [pc : {"check", "dial"}, slug : Slugs, mode : {"open", "oauth"},
     token : TokenRecords \cup {NoToken}]

TypeOK ==
    /\ StoreTypeOK
    /\ clients \subseteq ClientRows
    /\ codes \subseteq CodeRows
    /\ cpem \in [Slugs -> PEMs \cup {NoPEM}]
    /\ cexp \in [Slugs -> Nat]
    /\ rpc \in {"free", "key", "generate"}
    /\ rslug \in Slugs \cup {NoSlug} /\ (rpc # "free" => rslug \in Slugs)
    /\ rexp \in Nat
    /\ auth \in [Auths -> {Idle} \cup AuthLocals({"client", "gated"}, {"nobody"})
                              \cup AuthLocals({"approved"}, Approvals)]
    /\ tok \in [Toks -> {Idle} \cup TokLocals]
    /\ acc \in [Accs -> {Idle} \cup AccLocals]
    /\ tokens \subseteq TokenRecords
    /\ faults \in 0..MaxFaults
    /\ gate \in [CodeIds -> GateRecords]
    /\ minted \in [CodeIds -> Nat]
    /\ misread \subseteq Slugs

(* `Consume the code atomically -- single use': however many token         *)
(* requests present one code at once, across restarts and lost replies, it *)
(* yields at most one token.                                               *)
CodeRedeemedOnce == \A c \in CodeIds : minted[c] <= 1

(* A request let through to a gated service carries a token of that very   *)
(* tenant, obtained with a code for which that tenant's password was given *)
(* -- the one exception being a store error at the password gate.  No mix  *)
(* of tenants, clients, deletions or restarts gets around it.              *)
GatedAccessTraceable ==
    \A x \in Accs : (acc[x].pc = "dial" /\ acc[x].mode = "oauth") =>
        LET token == acc[x].token IN
        /\ token # NoToken
        /\ token.iss = acc[x].slug
        /\ gate[token.code].slug = acc[x].slug
        /\ gate[token.code].by \in {"password", "failed read"}

(* The cached server signs and verifies with the key in the store, so      *)
(* that a token stays valid across a restart, unless the read of the key   *)
(* had failed.                                                             *)
CachedKeyIsStored ==
    \A s \in tenants \ misread : cpem[s] # NoPEM => cpem[s] = skey[s]

(* Access ends with the tunnel: no token is good for longer than its       *)
(* tenant's row says.                                                      *)
TokenDiesWithTenant == \A t \in tokens : t.iss \in tenants => t.exp = exp[t.iss]

-----------------------------------------------------------------------------
(* The inductive strengthenings.                                           *)

(* The server that runs a token handler stays cached while it runs.        *)
ClaimedHasServer == \A t \in Toks : tok[t].pc = "claimed" => HasServer(tok[t].slug)

(* Between the claim of a code and its token, one handler has the code and *)
(* no token has come of it.                                                *)
ClaimedOnce ==
    \A t \in Toks : tok[t].pc = "claimed" =>
        /\ minted[tok[t].code] = 0
        /\ \A t2 \in Toks : tok[t2].pc = "claimed" /\ tok[t2].code = tok[t].code => t2 = t

(* A code that is claimed or has yielded a token was delivered, so that it *)
(* is never drawn again, and its row, while it exists, is marked used.     *)
Spent(c) == minted[c] > 0 \/ \E t \in Toks : tok[t].pc = "claimed" /\ tok[t].code = c
SpentForGood ==
    \A c \in CodeIds : Spent(c) =>
        /\ gate[c] # NotDelivered
        /\ \A row \in codes : row.id = c => row.used

(* auth_codes' primary key.                                                *)
CodeIdIsKey == \A row1, row2 \in codes : row1.id = row2.id => row1 = row2

SingleUse ==
    /\ ClaimedHasServer
    /\ ClaimedOnce
    /\ SpentForGood
    /\ CodeIdIsKey
    /\ CodeRedeemedOnce

(* A code in the table, and a token, belong to the tenant for which the    *)
(* code was delivered.                                                     *)
RowsMatchGate ==
    /\ \A row \in codes : gate[row.id] # NotDelivered => gate[row.id].slug = row.slug
    /\ \A token \in tokens : gate[token.code].slug = token.iss

(* Only a service without password is approved for lack of one: slugs are  *)
(* not drawn again while a code or a handler refers to them.               *)
OpenApprovals ==
    /\ \A c \in CodeIds : gate[c].by = "no password" => svc[gate[c].slug] # "oauth"
    /\ \A a \in Auths : (auth[a].pc = "approved" /\ auth[a].by = "no password")
                            => svc[auth[a].slug] # "oauth"

(* What a request to a gated service, once it has looked the service up,   *)
(* can count on although the tenant may go away.                           *)
GatedRequests ==
    \A x \in Accs : (acc[x].pc # "idle" /\ acc[x].mode = "oauth") =>
        /\ acc[x].token \in tokens \cup {NoToken}
        /\ acc[x].slug \in tenants => svc[acc[x].slug] = "oauth"
        /\ \A c \in CodeIds : gate[c].slug = acc[x].slug => gate[c].by # "no password"

Traceability == RowsMatchGate /\ OpenApprovals /\ GatedRequests /\ GatedAccessTraceable

(* NewServer generates a key only when there is none, or misread it.       *)
GeneratesWhenAbsent ==
    (rpc = "generate" /\ rslug \in tenants \ misread) => skey[rslug] = NoPEM

(* The expiry a server was cached with, or is about to be, is the row's.   *)
CachedExpiry ==
    /\ \A s \in tenants : HasServer(s) => cexp[s] = exp[s]
    /\ (rpc # "free" /\ rslug \in tenants) => rexp = exp[rslug]

IInv ==
    /\ TypeOK
    /\ SingleUse
    /\ NoOrphanRows
    /\ Traceability
    /\ CachedKeyIsStored /\ GeneratesWhenAbsent
    /\ TokenDiesWithTenant /\ CachedExpiry
=============================================================================
