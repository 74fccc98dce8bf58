---------------------------- MODULE OAuthProofs ----------------------------
(***************************************************************************)
(* Proofs about the authorization server for any number of tenants,        *)
(* clients, codes, concurrent handlers and faults: types, the single use   *)
(* of authorization codes, the traceability of access to gated services to *)
(* a password, and the agreement of cached keys and expiries with the      *)
(* store.                                                                  *)
(***************************************************************************)
EXTENDS OAuth, TLAPS

Tables == TablesTypeOK /\ clients \subseteq ClientRows /\ codes \subseteq CodeRows
CacheOK ==
    /\ cpem \in [Slugs -> PEMs \cup {NoPEM}]
    /\ cexp \in [Slugs -> Nat]
    /\ rpc \in {"free", "key", "generate"}
    /\ rslug \in Slugs \cup {NoSlug} /\ (rpc # "free" => rslug \in Slugs)
    /\ rexp \in Nat
AuthOK == auth \in [Auths -> {Idle} \cup AuthLocals({"client", "gated"}, {"nobody"})
                                  \cup AuthLocals({"approved"}, Approvals)]
TokOK == tok \in [Toks -> {Idle} \cup TokLocals]
AccOK == acc \in [Accs -> {Idle} \cup AccLocals]
IssuedOK == tokens \subseteq TokenRecords /\ minted \in [CodeIds -> Nat]
GateOK == gate \in [CodeIds -> GateRecords]
CountsOK == now \in 0..MaxTime /\ faults \in 0..MaxFaults /\ misread \subseteq Slugs

(* The parts of the type invariant that the steps below take one by one.   *)
LEMMA TypeParts ==
    /\ TypeOK <=> /\ Tables /\ CacheOK /\ AuthOK /\ TokOK /\ AccOK
                  /\ IssuedOK /\ GateOK /\ CountsOK
    /\ TypeOK' <=> /\ Tables' /\ CacheOK' /\ AuthOK' /\ TokOK' /\ AccOK'
                   /\ IssuedOK' /\ GateOK' /\ CountsOK'
  BY DEF TypeOK, StoreTypeOK, Tables, CacheOK, AuthOK, TokOK, AccOK, IssuedOK, GateOK, CountsOK

(* Every statement keeps the tables in their types.                        *)
LEMMA StatementTypes ==
    ASSUME Tables,
           \/ UNCHANGED storeVars
           \/ \E s \in Slugs : DeleteTenant(s)
           \/ \E s \in Slugs, pem \in PEMs : CreateSigningKey(s, pem)
           \/ \E s \in Slugs, id \in ClientIds, uris \in SUBSET URIs : CreateOAuthClient(s, id, uris)
           \/ \E c \in CodeIds, s \in Slugs, id \in ClientIds, uri \in URIs, chal \in Challenges, e \in Nat :
                CreateAuthCode(c, s, id, uri, chal, e)
           \/ \E c \in CodeIds : ClaimAuthCode(c)
    PROVE  Tables'
<1> USE DEF Tables, TablesTypeOK
<1>1. CASE UNCHANGED storeVars
  BY <1>1 DEF storeVars, tenantRows
<1>2. ASSUME NEW s \in Slugs, DeleteTenant(s) PROVE Tables'
  BY <1>2 DEF DeleteTenant, AuthModes
<1>3. ASSUME NEW s \in Slugs, NEW pem \in PEMs, CreateSigningKey(s, pem) PROVE Tables'
  BY <1>3 DEF CreateSigningKey
<1>4. ASSUME NEW s \in Slugs, NEW id \in ClientIds, NEW uris \in SUBSET URIs,
             CreateOAuthClient(s, id, uris)
      PROVE  Tables'
  BY <1>4 DEF CreateOAuthClient, ClientRows
<1>5. ASSUME NEW c \in CodeIds, NEW s \in Slugs, NEW id \in ClientIds, NEW uri \in URIs,
             NEW chal \in Challenges, NEW e \in Nat, CreateAuthCode(c, s, id, uri, chal, e)
      PROVE  Tables'
  <2>1. [id |-> c, slug |-> s, client |-> id, uri |-> uri, chal |-> chal, exp |-> e, used |-> FALSE]
          \in CodeRows
    BY DEF CodeRows
  <2>2. codes' \subseteq CodeRows
    BY <1>5, <2>1 DEF CreateAuthCode
  <2> QED
    BY <1>5, <2>2 DEF CreateAuthCode
<1>6. ASSUME NEW c \in CodeIds, ClaimAuthCode(c) PROVE Tables'
  <2>1. ASSUME NEW row \in codes PROVE [row EXCEPT !.used = TRUE] \in CodeRows
    BY DEF CodeRows
  <2>2. codes' \subseteq CodeRows
    BY <1>6, <2>1 DEF ClaimAuthCode, Claimable
  <2> QED
    BY <1>6, <2>2 DEF ClaimAuthCode
<1> QED
  BY <1>1, <1>2, <1>3, <1>4, <1>5, <1>6

(* The two places handleAuthorize goes on to.                              *)
LEMMA AuthToTypes ==
    ASSUME AuthOK, NEW a \in Auths, auth[a] \in AuthLocals({"client", "gated"}, {"nobody"}),
           \/ AuthTo(a, "gated", "nobody")
           \/ \E by \in Approvals : AuthTo(a, "approved", by)
    PROVE  AuthOK'
<1>1. ASSUME AuthTo(a, "gated", "nobody") PROVE AuthOK'
  <2>1. [auth[a] EXCEPT !.pc = "gated", !.by = "nobody"] \in AuthLocals({"client", "gated"}, {"nobody"})
    BY DEF AuthLocals
  <2>2. auth' = [auth EXCEPT ![a] = [auth[a] EXCEPT !.pc = "gated", !.by = "nobody"]]
    BY <1>1 DEF AuthTo, AuthOK, AuthLocals
  <2> QED
    BY <2>1, <2>2 DEF AuthOK
<1>2. ASSUME NEW by \in Approvals, AuthTo(a, "approved", by) PROVE AuthOK'
  <2>1. [auth[a] EXCEPT !.pc = "approved", !.by = by] \in AuthLocals({"approved"}, Approvals)
    BY DEF AuthLocals
  <2>2. auth' = [auth EXCEPT ![a] = [auth[a] EXCEPT !.pc = "approved", !.by = by]]
    BY <1>2 DEF AuthTo, AuthOK, AuthLocals
  <2> QED
    BY <2>1, <2>2 DEF AuthOK
<1> QED
  BY <1>1, <1>2

(* Every step keeps tables, cache, locals and history in their types.      *)
LEMMA TypeStep == TypeOK /\ ClaimedHasServer /\ [Next]_vars => TypeOK'
<1> SUFFICES ASSUME TypeOK, ClaimedHasServer, [Next]_vars PROVE TypeOK'
  OBVIOUS
<1>t. Tables /\ CacheOK /\ AuthOK /\ TokOK /\ AccOK /\ IssuedOK /\ GateOK /\ CountsOK
  BY TypeParts
<1>q. SUFFICES Tables' /\ CacheOK' /\ AuthOK' /\ TokOK' /\ AccOK' /\ IssuedOK' /\ GateOK' /\ CountsOK'
  BY TypeParts
<1>k. ASSUME UNCHANGED <<cacheVars, resolverVars>> PROVE CacheOK'
  BY <1>k, <1>t DEF CacheOK, cacheVars, resolverVars
<1>a. ASSUME UNCHANGED auth PROVE AuthOK'
  BY <1>a, <1>t DEF AuthOK
<1>o. ASSUME UNCHANGED tok PROVE TokOK'
  BY <1>o, <1>t DEF TokOK
<1>c. ASSUME UNCHANGED acc PROVE AccOK'
  BY <1>c, <1>t DEF AccOK
<1>i. ASSUME UNCHANGED <<tokens, minted>> PROVE IssuedOK'
  BY <1>i, <1>t DEF IssuedOK
<1>g. ASSUME UNCHANGED gate PROVE GateOK'
  BY <1>g, <1>t DEF GateOK
<1>n. ASSUME UNCHANGED <<now, misread>>, UNCHANGED faults \/ Fault PROVE CountsOK'
  BY <1>n, <1>t, OAuthAssumption DEF CountsOK, Fault
<1>s. ASSUME UNCHANGED storeVars PROVE Tables'
  BY <1>s, <1>t, StatementTypes
<1>1. ASSUME NEW s \in Slugs, NEW mode \in {"open", "oauth"}, Publish(s, mode)
      PROVE  Tables' /\ CacheOK' /\ AuthOK' /\ TokOK' /\ AccOK' /\ IssuedOK' /\ GateOK' /\ CountsOK'
  <2>1. Tables'
    BY <1>1, <1>t, OAuthAssumption, StoreAssumption
       DEF Publish, Tables, TablesTypeOK, AuthModes, CountsOK
  <2> QED
    BY <1>1, <2>1, <1>k, <1>a, <1>o, <1>c, <1>i, <1>g, <1>n DEF Publish, history
<1>2. ASSUME NEW s \in Slugs, Remove(s)
      PROVE  Tables' /\ CacheOK' /\ AuthOK' /\ TokOK' /\ AccOK' /\ IssuedOK' /\ GateOK' /\ CountsOK'
  <2>1. Tables'
    BY <1>2, <1>t, StatementTypes DEF Remove
  <2> QED
    BY <1>2, <2>1, <1>k, <1>a, <1>o, <1>c, <1>i, <1>g, <1>n DEF Remove, history
<1>3. ASSUME NEW s \in Slugs, ResolveTenant(s)
      PROVE  Tables' /\ CacheOK' /\ AuthOK' /\ TokOK' /\ AccOK' /\ IssuedOK' /\ GateOK' /\ CountsOK'
  <2>1. CacheOK'
    BY <1>3, <1>t DEF ResolveTenant, CacheOK, cacheVars, Tables, TablesTypeOK
  <2> QED
    BY <1>3, <2>1, <1>s, <1>a, <1>o, <1>c, <1>i, <1>g, <1>n DEF ResolveTenant, history
<1>4. CASE ResolveKey
  <2>1. CacheOK'
    <3>1. rslug \in Slugs /\ skey[rslug] \in PEMs \cup {NoPEM}
      BY <1>4, <1>t DEF ResolveKey, CacheOK, Tables, TablesTypeOK
    <3> QED
      BY <1>4, <1>t, <3>1 DEF ResolveKey, CacheOK, Cache, Unlock, cacheVars
  <2>2. CountsOK'
    BY <1>4, <1>t, OAuthAssumption DEF ResolveKey, CountsOK, NoFault, Fault, CacheOK
  <2> QED
    BY <1>4, <2>1, <2>2, <1>s, <1>a, <1>o, <1>c, <1>i, <1>g DEF ResolveKey
<1>5. CASE ResolveGenerate
  <2>1. rslug \in Slugs
    BY <1>5, <1>t DEF ResolveGenerate, CacheOK
  <2>2. Tables'
    BY <1>5, <1>t, <2>1, StatementTypes DEF ResolveGenerate, NotRun
  <2>3. CacheOK'
    BY <1>5, <1>t, <2>1 DEF ResolveGenerate, CacheOK, Cache, Unlock, cacheVars
  <2> QED
    BY <1>5, <2>2, <2>3, <1>a, <1>o, <1>c, <1>i, <1>g, <1>n DEF ResolveGenerate, NoFault, history
<1>6. ASSUME NEW s \in Slugs, NEW id \in ClientIds, NEW uris \in SUBSET URIs, Register(s, id, uris)
      PROVE  Tables' /\ CacheOK' /\ AuthOK' /\ TokOK' /\ AccOK' /\ IssuedOK' /\ GateOK' /\ CountsOK'
  <2>1. Tables'
    BY <1>6, <1>t, StatementTypes DEF Register
  <2> QED
    BY <1>6, <2>1, <1>k, <1>a, <1>o, <1>c, <1>i, <1>g, <1>n DEF Register, history
<1>7. ASSUME NEW a \in Auths, NEW s \in Slugs, NEW id \in ClientIds, NEW uri \in URIs,
             NEW v \in Verifiers, AuthClient(a, s, id, uri, v)
      PROVE  Tables' /\ CacheOK' /\ AuthOK' /\ TokOK' /\ AccOK' /\ IssuedOK' /\ GateOK' /\ CountsOK'
  <2>1. S256(v) \in Challenges
    BY DEF Challenges
  <2>2. AuthOK'
    BY <1>7, <1>t, <2>1 DEF AuthClient, AuthOK, AuthLocals
  <2> QED
    BY <1>7, <2>2, <1>s, <1>k, <1>o, <1>c, <1>i, <1>g, <1>n DEF AuthClient, history
<1>8. ASSUME NEW a \in Auths, AuthGate(a)
      PROVE  Tables' /\ CacheOK' /\ AuthOK' /\ TokOK' /\ AccOK' /\ IssuedOK' /\ GateOK' /\ CountsOK'
  <2>1. auth[a] \in AuthLocals({"client", "gated"}, {"nobody"})
    <3>1. auth[a].pc = "client"
      BY <1>8 DEF AuthGate
    <3> QED
      BY <3>1, <1>t DEF AuthOK, AuthLocals, Idle
  <2>2. AuthOK'
    <3>1. \/ AuthTo(a, "gated", "nobody")
          \/ AuthTo(a, "approved", "no password")
          \/ AuthTo(a, "approved", "failed read")
      BY <1>8 DEF AuthGate
    <3> QED
      BY <3>1, <2>1, <1>t, AuthToTypes DEF Approvals
  <2> QED
    BY <1>8, <2>2, <1>s, <1>k, <1>o, <1>c, <1>i, <1>g, <1>n DEF AuthGate, NoFault, history
<1>9. ASSUME NEW a \in Auths, NEW right \in BOOLEAN, AuthPassword(a, right)
      PROVE  Tables' /\ CacheOK' /\ AuthOK' /\ TokOK' /\ AccOK' /\ IssuedOK' /\ GateOK' /\ CountsOK'
  <2>1. auth[a] \in AuthLocals({"client", "gated"}, {"nobody"})
    BY <1>9, <1>t DEF AuthPassword, AuthOK, AuthLocals, Idle
  <2>2. AuthOK'
    <3>1. AuthTo(a, "approved", "password") \/ AuthReturn(a)
      BY <1>9 DEF AuthPassword
    <3>2. CASE AuthReturn(a)
      BY <3>2, <1>t DEF AuthReturn, AuthOK
    <3> QED
      BY <3>1, <3>2, <2>1, <1>t, AuthToTypes DEF Approvals
  <2> QED
    BY <1>9, <2>2, <1>s, <1>k, <1>o, <1>c, <1>i, <1>g, <1>n DEF AuthPassword, NoFault, history
<1>10. ASSUME NEW a \in Auths, NEW c \in CodeIds, AuthCode(a, c)
       PROVE  Tables' /\ CacheOK' /\ AuthOK' /\ TokOK' /\ AccOK' /\ IssuedOK' /\ GateOK' /\ CountsOK'
  <2>1. auth[a] \in AuthLocals({"approved"}, Approvals)
    BY <1>10, <1>t DEF AuthCode, AuthOK, AuthLocals, Idle
  <2>2. now + CodeTTL \in Nat
    BY <1>t, OAuthAssumption, StoreAssumption DEF CountsOK
  <2>3. Tables'
    <3>1. \/ UNCHANGED storeVars
          \/ CreateAuthCode(c, auth[a].slug, auth[a].client, auth[a].uri, auth[a].chal, now + CodeTTL)
      BY <1>10 DEF AuthCode, NotRun
    <3>2. /\ auth[a].slug \in Slugs /\ auth[a].client \in ClientIds
          /\ auth[a].uri \in URIs /\ auth[a].chal \in Challenges
      BY <2>1 DEF AuthLocals
    <3> QED
      BY <3>1, <3>2, <2>2, <1>t, StatementTypes
  <2>4. AuthOK'
    BY <1>10, <1>t DEF AuthCode, AuthReturn, AuthOK
  <2>5. GateOK'
    <3>1. [slug |-> auth[a].slug, by |-> auth[a].by] \in GateRecords
      BY <2>1 DEF AuthLocals, GateRecords
    <3>2. gate' = gate \/ gate' = [gate EXCEPT ![c] = [slug |-> auth[a].slug, by |-> auth[a].by]]
      BY <1>10 DEF AuthCode
    <3> QED
      BY <3>1, <3>2, <1>t DEF GateOK
  <2> QED
    BY <1>10, <2>3, <2>4, <2>5, <1>k, <1>o, <1>c, <1>i, <1>n DEF AuthCode, NoFault
<1>11. ASSUME NEW t \in Toks, NEW s \in Slugs, NEW c \in CodeIds, NEW id \in ClientIds,
              NEW uri \in URIs, NEW v \in Verifiers, TokClaim(t, s, c, id, uri, v)
       PROVE  Tables' /\ CacheOK' /\ AuthOK' /\ TokOK' /\ AccOK' /\ IssuedOK' /\ GateOK' /\ CountsOK'
  <2>1. Tables'
    BY <1>11, <1>t, StatementTypes DEF TokClaim
  <2>2. TokOK'
    BY <1>11, <1>t DEF TokClaim, TokOK, TokLocals
  <2> QED
    BY <1>11, <2>1, <2>2, <1>k, <1>a, <1>c, <1>i, <1>g, <1>n DEF TokClaim, NoFault, history
<1>12. ASSUME NEW t \in Toks, TokIssue(t)
       PROVE  Tables' /\ CacheOK' /\ AuthOK' /\ TokOK' /\ AccOK' /\ IssuedOK' /\ GateOK' /\ CountsOK'
  <2>1. tok[t] \in TokLocals
    BY <1>12, <1>t DEF TokIssue, TokOK, Idle
  <2>2. /\ tok[t].slug \in Slugs /\ tok[t].code \in CodeIds
        /\ cpem[tok[t].slug] \in PEMs /\ cexp[tok[t].slug] \in Nat
    BY <1>12, <1>t, <2>1 DEF TokIssue, TokLocals, ClaimedHasServer, HasServer, CacheOK
  <2>3. IssuedOK'
    <3>1. [iss |-> tok[t].slug, pem |-> cpem[tok[t].slug], exp |-> cexp[tok[t].slug],
           code |-> tok[t].code] \in TokenRecords
      BY <2>2 DEF TokenRecords
    <3>2. \/ UNCHANGED <<tokens, minted>>
          \/ /\ tokens' = tokens \cup {[iss |-> tok[t].slug, pem |-> cpem[tok[t].slug],
                                        exp |-> cexp[tok[t].slug], code |-> tok[t].code]}
             /\ minted' = [minted EXCEPT ![tok[t].code] = @ + 1]
      BY <1>12 DEF TokIssue
    <3> QED
      BY <3>1, <3>2, <2>2, <1>t DEF IssuedOK
  <2>4. TokOK'
    BY <1>12, <1>t DEF TokIssue, TokReturn, TokOK
  <2> QED
    BY <1>12, <2>3, <2>4, <1>s, <1>k, <1>a, <1>c, <1>g, <1>n DEF TokIssue, NoFault
<1>13. ASSUME NEW x \in Accs, NEW s \in Slugs, NEW token \in tokens \cup {NoToken},
              AccService(x, s, token)
       PROVE  Tables' /\ CacheOK' /\ AuthOK' /\ TokOK' /\ AccOK' /\ IssuedOK' /\ GateOK' /\ CountsOK'
  <2>1. svc[s] \in {"open", "oauth"} /\ token \in TokenRecords \cup {NoToken}
    BY <1>13, <1>t DEF AccService, Tables, TablesTypeOK, AuthModes, IssuedOK
  <2>2. AccOK'
    BY <1>13, <2>1, <1>t DEF AccService, AccOK, AccLocals
  <2> QED
    BY <1>13, <2>2, <1>s, <1>k, <1>a, <1>o, <1>i, <1>g, <1>n DEF AccService, history
<1>14. ASSUME NEW x \in Accs, AccCheck(x)
       PROVE  Tables' /\ CacheOK' /\ AuthOK' /\ TokOK' /\ AccOK' /\ IssuedOK' /\ GateOK' /\ CountsOK'
  <2>1. acc[x] \in AccLocals
    BY <1>14, <1>t DEF AccCheck, AccOK, Idle
  <2>2. AccOK'
    BY <1>14, <2>1, <1>t DEF AccCheck, AccOK, AccLocals
  <2> QED
    BY <1>14, <2>2, <1>s, <1>k, <1>a, <1>o, <1>i, <1>g, <1>n DEF AccCheck, history
<1>15. ASSUME NEW x \in Accs, AccEnd(x)
       PROVE  Tables' /\ CacheOK' /\ AuthOK' /\ TokOK' /\ AccOK' /\ IssuedOK' /\ GateOK' /\ CountsOK'
  <2>1. AccOK'
    BY <1>15, <1>t DEF AccEnd, AccOK
  <2> QED
    BY <1>15, <2>1, <1>s, <1>k, <1>a, <1>o, <1>i, <1>g, <1>n DEF AccEnd, history
<1>16. CASE Clock
  <2>1. CountsOK'
    BY <1>16, <1>t, StoreAssumption DEF Clock, Tick, CountsOK, history
  <2> QED
    BY <1>16, <2>1, <1>s, <1>k, <1>a, <1>o, <1>c, <1>i, <1>g DEF Clock, Tick, history
<1>17. CASE Restart
  <2>1. CacheOK'
    BY <1>17 DEF Restart, CacheOK, Unlock
  <2>2. AuthOK' /\ TokOK' /\ AccOK'
    BY <1>17 DEF Restart, AuthOK, TokOK, AccOK
  <2> QED
    BY <1>17, <2>1, <2>2, <1>s, <1>i, <1>g, <1>n DEF Restart, history
<1>18. CASE UNCHANGED vars
  BY <1>18, <1>s, <1>k, <1>a, <1>o, <1>c, <1>i, <1>g, <1>n DEF vars, history
<1> QED
  BY <1>1, <1>2, <1>3, <1>4, <1>5, <1>6, <1>7, <1>8, <1>9, <1>10, <1>11, <1>12, <1>13, <1>14,
     <1>15, <1>16, <1>17, <1>18 DEF Next

(* Steps that issue, claim and deliver nothing keep the invariant, even if *)
(* they delete codes or cache servers.                                     *)
LEMMA QuietSteps ==
    ASSUME TypeOK, SingleUse, UNCHANGED <<tok, minted, gate>>, codes' \subseteq codes,
           \A s \in Slugs : HasServer(s) => HasServer(s)'
    PROVE  SingleUse'
<1>1. ClaimedHasServer'
  <2> SUFFICES ASSUME NEW t \in Toks, tok[t].pc = "claimed" PROVE HasServer(tok[t].slug)'
    BY DEF ClaimedHasServer
  <2>1. tok[t].slug \in Slugs
    BY DEF TypeOK, Idle, TokLocals
  <2>2. HasServer(tok[t].slug)
    BY DEF SingleUse, ClaimedHasServer
  <2> QED
    BY <2>1, <2>2 DEF HasServer
<1>2. ClaimedOnce'
  BY DEF SingleUse, ClaimedOnce
<1>3. SpentForGood'
  BY DEF SingleUse, SpentForGood, Spent
<1>4. CodeIdIsKey' /\ CodeRedeemedOnce'
  BY DEF SingleUse, CodeIdIsKey, CodeRedeemedOnce
<1> QED
  BY <1>1, <1>2, <1>3, <1>4 DEF SingleUse

(* An inserted code is one that was never delivered.                       *)
LEMMA AuthCodeStep ==
    ASSUME TypeOK, SingleUse, NEW a \in Auths, NEW c \in CodeIds, AuthCode(a, c)
    PROVE  SingleUse'
<1>1. UNCHANGED <<tok, minted, cpem>> /\ gate[c] = NotDelivered /\ \A row \in codes : row.id # c
  BY DEF AuthCode, cacheVars
<1>2. \A d \in CodeIds \ {c} : gate'[d] = gate[d]
  BY DEF AuthCode, TypeOK
<1>3. codes' = codes \/ \E new : new.id = c /\ codes' = codes \cup {new}
  BY DEF AuthCode, CreateAuthCode, NotRun, storeVars, tenantRows
<1>4. ~ Spent(c)
  BY <1>1 DEF SingleUse, SpentForGood
<1>5. ClaimedHasServer' /\ ClaimedOnce' /\ CodeRedeemedOnce'
  BY <1>1 DEF SingleUse, ClaimedHasServer, ClaimedOnce, CodeRedeemedOnce, HasServer
<1>6. SpentForGood'
  <2> SUFFICES ASSUME NEW d \in CodeIds, Spent(d)'
               PROVE  gate'[d] # NotDelivered /\ \A row \in codes' : row.id = d => row.used
    BY DEF SpentForGood
  <2>1. Spent(d) /\ d # c
    BY <1>1, <1>4 DEF Spent
  <2> QED
    BY <2>1, <1>2, <1>3 DEF SingleUse, SpentForGood
<1>7. CodeIdIsKey'
  BY <1>1, <1>3 DEF SingleUse, CodeIdIsKey
<1> QED
  BY <1>5, <1>6, <1>7 DEF SingleUse

(* A code that can be claimed is not spent, and claiming spends it.        *)
LEMMA TokClaimStep ==
    ASSUME TypeOK, SingleUse, NEW t \in Toks, NEW s \in Slugs, NEW c \in CodeIds,
           NEW id \in ClientIds, NEW uri \in URIs, NEW v \in Verifiers,
           TokClaim(t, s, c, id, uri, v)
    PROVE  SingleUse'
<1>1. /\ UNCHANGED <<minted, gate, cpem>> /\ HasServer(s) /\ gate[c] # NotDelivered
      /\ tok[t].pc = "idle"
  BY DEF TokClaim, history, cacheVars
<1>2. PICK row \in codes : row.id = c /\ ~ row.used
  BY DEF TokClaim, Claimable
<1>3. ~ Spent(c)
  BY <1>2 DEF SingleUse, SpentForGood
<1>4. \A r \in codes : r.id = c => r = row
  BY <1>2 DEF SingleUse, CodeIdIsKey
<1>5. codes' = (codes \ {row}) \cup {[row EXCEPT !.used = TRUE]}
  <2>1. Claimable(c) = {row}
    BY <1>2, <1>4 DEF TokClaim, Claimable
  <2> QED
    BY <2>1 DEF TokClaim, ClaimAuthCode
<1>6. [row EXCEPT !.used = TRUE].id = c /\ [row EXCEPT !.used = TRUE].used
  BY <1>2 DEF TypeOK, CodeRows
<1>7. \/ tok' = tok
      \/ /\ \A t2 \in Toks \ {t} : tok'[t2] = tok[t2]
         /\ tok'[t].pc = "claimed" /\ tok'[t].code = c /\ tok'[t].slug = s
  BY DEF TokClaim, TypeOK
<1>8. minted[c] = 0
  BY <1>3 DEF Spent, TypeOK
<1>9. ClaimedHasServer'
  BY <1>1, <1>7 DEF SingleUse, ClaimedHasServer, HasServer
<1>10. ClaimedOnce'
  BY <1>1, <1>3, <1>7, <1>8 DEF SingleUse, ClaimedOnce, Spent
<1>11. SpentForGood'
  <2> SUFFICES ASSUME NEW d \in CodeIds, Spent(d)'
               PROVE  gate'[d] # NotDelivered /\ \A r \in codes' : r.id = d => r.used
    BY DEF SpentForGood
  <2>1. CASE d = c
    BY <2>1, <1>1, <1>2, <1>4, <1>5, <1>6
  <2>2. CASE d # c
    <3>1. Spent(d)
      BY <2>2, <1>1, <1>7 DEF Spent
    <3> QED
      BY <3>1, <2>2, <1>1, <1>5, <1>6 DEF SingleUse, SpentForGood
  <2> QED
    BY <2>1, <2>2
<1>12. CodeIdIsKey'
  BY <1>2, <1>4, <1>5, <1>6 DEF SingleUse, CodeIdIsKey
<1>13. CodeRedeemedOnce'
  BY <1>1 DEF SingleUse, CodeRedeemedOnce
<1> QED
  BY <1>9, <1>10, <1>11, <1>12, <1>13 DEF SingleUse

(* The one handler that has a code issues its only token.                  *)
LEMMA TokIssueStep ==
    ASSUME TypeOK, SingleUse, NEW t \in Toks, TokIssue(t)
    PROVE  SingleUse'
<1> DEFINE c == tok[t].code
<1>1. /\ UNCHANGED <<codes, gate, cpem>> /\ tok[t].pc = "claimed"
      /\ \A t2 \in Toks \ {t} : tok'[t2] = tok[t2]
      /\ tok'[t].pc = "idle"
  BY DEF TokIssue, TokReturn, cacheVars, storeVars, tenantRows, TypeOK, Idle
<1>2. c \in CodeIds /\ Spent(c) /\ minted[c] = 0
  BY <1>1 DEF TypeOK, TokLocals, Idle, Spent, SingleUse, ClaimedOnce
<1>3. minted' = minted \/ minted' = [minted EXCEPT ![c] = @ + 1]
  BY DEF TokIssue
<1>4. \A d \in CodeIds : minted'[d] = minted[d] \/ (d = c /\ minted'[d] = 1)
  BY <1>2, <1>3 DEF TypeOK
<1> HIDE DEF c
<1>5. ClaimedHasServer'
  BY <1>1 DEF SingleUse, ClaimedHasServer, HasServer
<1>6. ClaimedOnce'
  <2> SUFFICES ASSUME NEW u \in Toks, tok'[u].pc = "claimed"
               PROVE  /\ minted'[tok'[u].code] = 0
                      /\ \A t2 \in Toks : tok'[t2].pc = "claimed" /\ tok'[t2].code = tok'[u].code => t2 = u
    BY DEF ClaimedOnce
  <2>1. u # t /\ tok'[u] = tok[u]
    BY <1>1
  <2>2. tok[u].code \in CodeIds /\ tok[u].code # c
    BY <2>1, <1>1 DEF c, TypeOK, TokLocals, Idle, SingleUse, ClaimedOnce
  <2> QED
    BY <2>1, <2>2, <1>1, <1>4 DEF SingleUse, ClaimedOnce
<1>7. SpentForGood'
  <2> SUFFICES ASSUME NEW d \in CodeIds, Spent(d)' PROVE Spent(d)
    BY <1>1 DEF SpentForGood, SingleUse
  <2> QED
    BY <1>1, <1>2, <1>4 DEF Spent
<1>8. CodeIdIsKey' /\ CodeRedeemedOnce'
  BY <1>1, <1>4 DEF SingleUse, CodeIdIsKey, CodeRedeemedOnce
<1> QED
  BY <1>5, <1>6, <1>7, <1>8 DEF SingleUse

(* Every step keeps codes single-use.                                      *)
LEMMA SingleUseStep == TypeOK /\ SingleUse /\ [Next]_vars => SingleUse'
<1> SUFFICES ASSUME TypeOK, SingleUse, [Next]_vars PROVE SingleUse'
  OBVIOUS
<1>q. ASSUME UNCHANGED <<tok, minted, gate>>, codes' \subseteq codes, UNCHANGED cpem PROVE SingleUse'
  BY <1>q, QuietSteps DEF HasServer
<1>k. ASSUME UNCHANGED <<tok, minted, gate, codes>>,
             UNCHANGED cpem \/ \E k \in PEMs : Cache(k)
      PROVE  SingleUse'
  <2>1. \A s \in Slugs : HasServer(s) => HasServer(s)'
    BY <1>k, StoreAssumption DEF HasServer, Cache, TypeOK
  <2> QED
    BY <1>k, <2>1, QuietSteps
<1> USE DEF history, cacheVars, storeVars, tenantRows
<1>1. ASSUME NEW s \in Slugs, NEW mode \in {"open", "oauth"}, Publish(s, mode) PROVE SingleUse'
  BY <1>1, <1>q DEF Publish
<1>2. ASSUME NEW s \in Slugs, Remove(s) \/ ResolveTenant(s) PROVE SingleUse'
  BY <1>2, <1>q DEF Remove, DeleteTenant, ResolveTenant
<1>3. CASE ResolveKey
  <2>1. UNCHANGED <<tok, minted, gate, codes>>
    BY <1>3 DEF ResolveKey
  <2>2. UNCHANGED cpem \/ \E k \in PEMs : Cache(k)
    <3>1. rslug \in Slugs /\ skey[rslug] \in PEMs \cup {NoPEM}
      BY <1>3 DEF ResolveKey, TypeOK, StoreTypeOK, TablesTypeOK
    <3>2. UNCHANGED cpem \/ (skey[rslug] # NoPEM /\ Cache(skey[rslug]))
      BY <1>3 DEF ResolveKey
    <3> QED
      BY <3>1, <3>2
  <2> QED
    BY <2>1, <2>2, <1>k
<1>4. CASE ResolveGenerate
  <2>1. UNCHANGED <<tok, minted, gate, codes>>
    BY <1>4 DEF ResolveGenerate, CreateSigningKey, NotRun
  <2>2. UNCHANGED cpem \/ \E k \in PEMs : Cache(k)
    BY <1>4 DEF ResolveGenerate
  <2> QED
    BY <2>1, <2>2, <1>k
<1>5. ASSUME NEW s \in Slugs, NEW id \in ClientIds, NEW uris \in SUBSET URIs, Register(s, id, uris)
      PROVE  SingleUse'
  BY <1>5, <1>q DEF Register, CreateOAuthClient
<1>6. ASSUME NEW a \in Auths, NEW s \in Slugs, NEW id \in ClientIds, NEW uri \in URIs,
             NEW v \in Verifiers, AuthClient(a, s, id, uri, v)
      PROVE  SingleUse'
  BY <1>6, <1>q DEF AuthClient
<1>7. ASSUME NEW a \in Auths, AuthGate(a) PROVE SingleUse'
  BY <1>7, <1>q DEF AuthGate
<1>8. ASSUME NEW a \in Auths, NEW right \in BOOLEAN, AuthPassword(a, right) PROVE SingleUse'
  BY <1>8, <1>q DEF AuthPassword
<1>9. ASSUME NEW x \in Accs, NEW s \in Slugs, NEW token \in tokens \cup {NoToken},
             AccService(x, s, token)
      PROVE  SingleUse'
  BY <1>9, <1>q DEF AccService
<1>10. ASSUME NEW x \in Accs, AccCheck(x) \/ AccEnd(x) PROVE SingleUse'
  BY <1>10, <1>q DEF AccCheck, AccEnd
<1>11. CASE Clock \/ UNCHANGED vars
  BY <1>11, <1>q DEF Clock, Tick, vars
<1>12. CASE Restart
  <2>1. UNCHANGED <<minted, gate, codes>> /\ \A t \in Toks : tok'[t].pc = "idle"
    BY <1>12 DEF Restart, Idle
  <2>2. ClaimedHasServer' /\ ClaimedOnce'
    BY <2>1 DEF ClaimedHasServer, ClaimedOnce
  <2>3. SpentForGood'
    BY <2>1 DEF SingleUse, SpentForGood, Spent
  <2>4. CodeIdIsKey' /\ CodeRedeemedOnce'
    BY <2>1 DEF SingleUse, CodeIdIsKey, CodeRedeemedOnce
  <2> QED
    BY <2>2, <2>3, <2>4 DEF SingleUse
<1> QED
  BY <1>1, <1>2, <1>3, <1>4, <1>5, <1>6, <1>7, <1>8, <1>9, <1>10, <1>11, <1>12,
     AuthCodeStep, TokClaimStep, TokIssueStep DEF Next

(* Every statement keeps rows with their tenants.                          *)
LEMMA OrphanStatements ==
    ASSUME TypeOK, NoOrphanRows,
           \/ UNCHANGED storeVars
           \/ \E s \in Slugs : DeleteTenant(s)
           \/ \E s \in Slugs, pem \in PEMs : CreateSigningKey(s, pem)
           \/ \E s \in Slugs, id \in ClientIds, uris \in SUBSET URIs : CreateOAuthClient(s, id, uris)
           \/ \E c, s, id, uri, chal, e : CreateAuthCode(c, s, id, uri, chal, e)
           \/ \E c \in CodeIds : ClaimAuthCode(c)
    PROVE  NoOrphanRows'
<1> USE DEF NoOrphanRows
<1>1. CASE UNCHANGED storeVars
  BY <1>1 DEF storeVars, tenantRows
<1>2. ASSUME NEW s \in Slugs, DeleteTenant(s) PROVE NoOrphanRows'
  BY <1>2 DEF DeleteTenant, TypeOK, StoreTypeOK, TablesTypeOK
<1>3. ASSUME NEW s \in Slugs, NEW pem \in PEMs, CreateSigningKey(s, pem) PROVE NoOrphanRows'
  BY <1>3 DEF CreateSigningKey, TypeOK, StoreTypeOK, TablesTypeOK
<1>4. ASSUME NEW s \in Slugs, NEW id \in ClientIds, NEW uris \in SUBSET URIs,
             CreateOAuthClient(s, id, uris)
      PROVE  NoOrphanRows'
  BY <1>4 DEF CreateOAuthClient
<1>5. ASSUME NEW c, NEW s, NEW id, NEW uri, NEW chal, NEW e,
             CreateAuthCode(c, s, id, uri, chal, e)
      PROVE  NoOrphanRows'
  BY <1>5 DEF CreateAuthCode
<1>6. ASSUME NEW c \in CodeIds, ClaimAuthCode(c) PROVE NoOrphanRows'
  <2>1. ASSUME NEW row \in codes PROVE [row EXCEPT !.used = TRUE].slug = row.slug
    BY DEF TypeOK, CodeRows
  <2> QED
    BY <1>6, <2>1 DEF ClaimAuthCode, Claimable
<1> QED
  BY <1>1, <1>2, <1>3, <1>4, <1>5, <1>6

(* Every step keeps rows with their tenants.                               *)
LEMMA RowsStep == TypeOK /\ NoOrphanRows /\ [Next]_vars => NoOrphanRows'
<1> SUFFICES ASSUME TypeOK, NoOrphanRows, [Next]_vars PROVE NoOrphanRows'
  OBVIOUS
<1>u. ASSUME UNCHANGED storeVars PROVE NoOrphanRows'
  BY <1>u, OrphanStatements
<1>1. ASSUME NEW s \in Slugs, NEW mode \in {"open", "oauth"}, Publish(s, mode) PROVE NoOrphanRows'
  BY <1>1 DEF Publish, NoOrphanRows, TypeOK, StoreTypeOK, TablesTypeOK
<1>2. ASSUME NEW s \in Slugs, Remove(s) PROVE NoOrphanRows'
  BY <1>2, OrphanStatements DEF Remove
<1>3. CASE ResolveGenerate
  <2>1. rslug \in Slugs
    BY <1>3 DEF ResolveGenerate, TypeOK
  <2> QED
    BY <1>3, <2>1, OrphanStatements DEF ResolveGenerate, NotRun
<1>4. ASSUME NEW s \in Slugs, NEW id \in ClientIds, NEW uris \in SUBSET URIs, Register(s, id, uris)
      PROVE  NoOrphanRows'
  BY <1>4, OrphanStatements DEF Register
<1>5. ASSUME NEW a \in Auths, NEW c \in CodeIds, AuthCode(a, c) PROVE NoOrphanRows'
  BY <1>5, OrphanStatements DEF AuthCode, NotRun
<1>6. ASSUME NEW t \in Toks, NEW s \in Slugs, NEW c \in CodeIds, NEW id \in ClientIds,
             NEW uri \in URIs, NEW v \in Verifiers, TokClaim(t, s, c, id, uri, v)
      PROVE  NoOrphanRows'
  BY <1>6, OrphanStatements DEF TokClaim
<1>7. ASSUME NEW s \in Slugs, ResolveTenant(s) PROVE NoOrphanRows'
  BY <1>7, <1>u DEF ResolveTenant
<1>8. CASE ResolveKey \/ Clock \/ Restart \/ UNCHANGED vars
  BY <1>8, <1>u DEF ResolveKey, Clock, Tick, Restart, vars
<1>9. ASSUME NEW a \in Auths, NEW s \in Slugs, NEW id \in ClientIds, NEW uri \in URIs,
             NEW v \in Verifiers, AuthClient(a, s, id, uri, v)
      PROVE  NoOrphanRows'
  BY <1>9, <1>u DEF AuthClient
<1>10. ASSUME NEW a \in Auths, AuthGate(a) \/ \E right \in BOOLEAN : AuthPassword(a, right)
       PROVE  NoOrphanRows'
  BY <1>10, <1>u DEF AuthGate, AuthPassword
<1>11. ASSUME NEW t \in Toks, TokIssue(t) PROVE NoOrphanRows'
  BY <1>11, <1>u DEF TokIssue
<1>12. ASSUME NEW x \in Accs, NEW s \in Slugs, NEW token \in tokens \cup {NoToken},
              AccService(x, s, token)
       PROVE  NoOrphanRows'
  BY <1>12, <1>u DEF AccService
<1>13. ASSUME NEW x \in Accs, AccCheck(x) \/ AccEnd(x) PROVE NoOrphanRows'
  BY <1>13, <1>u DEF AccCheck, AccEnd
<1> QED
  BY <1>1, <1>2, <1>3, <1>4, <1>5, <1>6, <1>7, <1>8, <1>9, <1>10, <1>11, <1>12, <1>13 DEF Next

(* The tenants that approvals are about.                                   *)
LEMMA ApprovalSlugs ==
    ASSUME TypeOK
    PROVE  /\ \A c \in CodeIds : gate[c].by = "no password" => gate[c].slug \in Slugs
           /\ \A a \in Auths : auth[a].pc = "approved" => auth[a].slug \in Slugs
<1>1. ASSUME NEW c \in CodeIds, gate[c].by = "no password" PROVE gate[c].slug \in Slugs
  <2>1. CASE gate[c] = NotDelivered
    BY <1>1, <2>1 DEF NotDelivered
  <2>2. CASE gate[c] \in [slug : Slugs, by : Approvals]
    BY <2>2
  <2> QED
    BY <2>1, <2>2 DEF TypeOK, GateRecords
<1>2. ASSUME NEW a \in Auths, auth[a].pc = "approved" PROVE auth[a].slug \in Slugs
  BY <1>2 DEF TypeOK, AuthLocals, Idle
<1> QED
  BY <1>1, <1>2

(* Steps that deliver no code, issue no token and let no request through:  *)
(* tenants and codes may only go away, handlers may only return or get a   *)
(* justified approval.                                                     *)
LEMMA TraceFrame ==
    ASSUME TypeOK, Traceability, UNCHANGED <<gate, tokens>>,
           \A row \in codes' : \E r \in codes : r.id = row.id /\ r.slug = row.slug,
           \A s \in Slugs : svc'[s] = "oauth" => svc[s] = "oauth",
           \A s \in tenants' : s \in tenants /\ svc'[s] = svc[s],
           \A a \in Auths : \/ auth'[a] = auth[a]
                            \/ auth'[a].pc # "approved"
                            \/ auth'[a].by # "no password"
                            \/ svc'[auth'[a].slug] # "oauth",
           \A x \in Accs : acc'[x] = acc[x] \/ acc'[x].pc = "idle"
    PROVE  Traceability'
<1>1. RowsMatchGate'
  <2>1. ASSUME NEW row \in codes', gate[row.id] # NotDelivered PROVE gate[row.id].slug = row.slug
    <3>1. PICK r \in codes : r.id = row.id /\ r.slug = row.slug
      OBVIOUS
    <3> QED
      BY <2>1, <3>1 DEF Traceability, RowsMatchGate
  <2>2. \A token \in tokens : gate[token.code].slug = token.iss
    BY DEF Traceability, RowsMatchGate
  <2> QED
    BY <2>1, <2>2 DEF RowsMatchGate
<1>2. OpenApprovals'
  <2>1. ASSUME NEW c \in CodeIds, gate[c].by = "no password" PROVE svc'[gate[c].slug] # "oauth"
    BY <2>1, ApprovalSlugs DEF Traceability, OpenApprovals
  <2>2. ASSUME NEW a \in Auths, auth'[a].pc = "approved", auth'[a].by = "no password"
        PROVE  svc'[auth'[a].slug] # "oauth"
    <3>1. CASE auth'[a] = auth[a]
      <4>1. auth[a].slug \in Slugs
        BY <2>2, <3>1, ApprovalSlugs
      <4> QED
        BY <2>2, <3>1, <4>1 DEF Traceability, OpenApprovals
    <3> QED
      BY <2>2, <3>1
  <2> QED
    BY <2>1, <2>2 DEF OpenApprovals
<1>3. GatedRequests'
  <2> SUFFICES ASSUME NEW x \in Accs, acc'[x].pc # "idle", acc'[x].mode = "oauth"
               PROVE  /\ acc'[x].token \in tokens \cup {NoToken}
                      /\ acc'[x].slug \in tenants' => svc'[acc'[x].slug] = "oauth"
                      /\ \A c \in CodeIds : gate[c].slug = acc'[x].slug => gate[c].by # "no password"
    BY DEF GatedRequests
  <2>1. acc'[x] = acc[x]
    OBVIOUS
  <2>2. /\ acc[x].token \in tokens \cup {NoToken}
        /\ acc[x].slug \in tenants => svc[acc[x].slug] = "oauth"
        /\ \A c \in CodeIds : gate[c].slug = acc[x].slug => gate[c].by # "no password"
    BY <2>1 DEF Traceability, GatedRequests
  <2> QED
    BY <2>1, <2>2
<1>4. GatedAccessTraceable'
  BY DEF Traceability, GatedAccessTraceable
<1> QED
  BY <1>1, <1>2, <1>3, <1>4 DEF Traceability

(* A new tenant has a slug to which no code, token or handler refers.      *)
LEMMA PublishTrace ==
    ASSUME TypeOK, Traceability, NEW s \in Slugs, NEW mode \in {"open", "oauth"}, Publish(s, mode)
    PROVE  Traceability'
<1>1. /\ UNCHANGED <<gate, tokens, codes, auth, acc>>
      /\ tenants' = tenants \cup {s}
      /\ \A r \in Slugs \ {s} : svc'[r] = svc[r]
  BY DEF Publish, history, TypeOK, StoreTypeOK, TablesTypeOK
<1>2. /\ \A c \in CodeIds : gate[c].slug # s
      /\ \A a \in Auths : auth[a].pc # "idle" => auth[a].slug # s
      /\ \A x \in Accs : acc[x].pc # "idle" => acc[x].slug # s
  BY DEF Publish, FreshSlug
<1>3. RowsMatchGate' /\ GatedAccessTraceable'
  BY <1>1 DEF Traceability, RowsMatchGate, GatedAccessTraceable
<1>4. OpenApprovals'
  <2>1. ASSUME NEW c \in CodeIds, gate[c].by = "no password" PROVE svc'[gate[c].slug] # "oauth"
    BY <1>1, <1>2, <2>1, ApprovalSlugs DEF Traceability, OpenApprovals
  <2>2. ASSUME NEW a \in Auths, auth[a].pc = "approved", auth[a].by = "no password"
        PROVE  svc'[auth[a].slug] # "oauth"
    BY <1>1, <1>2, <2>2, ApprovalSlugs DEF Traceability, OpenApprovals
  <2> QED
    BY <1>1, <2>1, <2>2 DEF OpenApprovals
<1>5. GatedRequests'
  <2>1. ASSUME NEW x \in Accs, acc[x].pc # "idle" PROVE acc[x].slug \in Slugs
    BY <2>1 DEF TypeOK, AccLocals, Idle
  <2> QED
    BY <1>1, <1>2, <2>1 DEF Traceability, GatedRequests
<1> QED
  BY <1>3, <1>4, <1>5 DEF Traceability

(* A code delivered for lack of a password is for a tenant that is there   *)
(* and whose service is not gated.                                         *)
LEMMA AuthCodeTrace ==
    ASSUME TypeOK, Traceability, NEW a \in Auths, NEW c \in CodeIds, AuthCode(a, c)
    PROVE  Traceability'
<1> DEFINE f == auth[a]
           new == [id |-> c, slug |-> f.slug, client |-> f.client, uri |-> f.uri, chal |-> f.chal,
                   exp |-> now + CodeTTL, used |-> FALSE]
<1>1. /\ UNCHANGED <<tokens, acc, svc, tenants>>
      /\ f.pc = "approved" /\ gate[c] = NotDelivered /\ \A row \in codes : row.id # c
      /\ \A b \in Auths \ {a} : auth'[b] = auth[b]
      /\ auth'[a].pc = "idle"
  BY DEF AuthCode, AuthReturn, CreateAuthCode, NotRun, storeVars, tenantRows, TypeOK, Idle
<1>2. f.slug \in Slugs /\ f.by \in Approvals
  BY <1>1 DEF TypeOK, AuthLocals, Idle
<1>3. \/ gate' = gate /\ codes' \subseteq codes \cup {new}
      \/ /\ gate' = [gate EXCEPT ![c] = [slug |-> f.slug, by |-> f.by]]
         /\ codes' = codes \cup {new}
         /\ f.slug \in tenants
  BY DEF AuthCode, CreateAuthCode, NotRun, storeVars, tenantRows
<1>4. /\ \A d \in CodeIds \ {c} : gate'[d] = gate[d]
      /\ \/ gate'[c] = NotDelivered
         \/ /\ gate'[c].slug = f.slug /\ gate'[c].by = f.by
            /\ f.slug \in tenants
  BY <1>1, <1>3 DEF TypeOK
<1>5. new.id = c /\ new.slug = f.slug
  OBVIOUS
<1>6. codes' \subseteq codes \cup {new}
  BY <1>3
<1>7. NotDelivered.slug \notin Slugs /\ NotDelivered.by = "nobody"
  BY OAuthAssumption DEF NotDelivered
<1>8. \A token \in tokens : token.code \in CodeIds \ {c}
  BY <1>1, <1>7 DEF TypeOK, TokenRecords, Traceability, RowsMatchGate
<1> HIDE DEF new, f
<1>9. RowsMatchGate'
  <2>1. ASSUME NEW row \in codes', gate'[row.id] # NotDelivered PROVE gate'[row.id].slug = row.slug
    <3>1. CASE row \in codes
      <4>1. row.id \in CodeIds \ {c}
        BY <3>1, <1>1 DEF TypeOK, CodeRows
      <4> QED
        BY <2>1, <3>1, <4>1, <1>4 DEF Traceability, RowsMatchGate
    <3>2. CASE row = new
      BY <2>1, <3>2, <1>4, <1>5
    <3> QED
      BY <3>1, <3>2, <1>6
  <2>2. ASSUME NEW token \in tokens' PROVE gate'[token.code].slug = token.iss
    BY <1>1, <1>4, <1>8 DEF Traceability, RowsMatchGate
  <2> QED
    BY <2>1, <2>2 DEF RowsMatchGate
<1>10. f.by = "no password" => svc[f.slug] # "oauth"
  BY <1>1 DEF f, Traceability, OpenApprovals
<1>11. OpenApprovals'
  <2>1. ASSUME NEW d \in CodeIds, gate'[d].by = "no password" PROVE svc'[gate'[d].slug] # "oauth"
    BY <2>1, <1>1, <1>4, <1>7, <1>10 DEF Traceability, OpenApprovals
  <2>2. ASSUME NEW b \in Auths, auth'[b].pc = "approved", auth'[b].by = "no password"
        PROVE  svc'[auth'[b].slug] # "oauth"
    BY <2>2, <1>1 DEF Traceability, OpenApprovals
  <2> QED
    BY <2>1, <2>2 DEF OpenApprovals
<1>12. GatedRequests'
  <2> SUFFICES ASSUME NEW x \in Accs, acc[x].pc # "idle", acc[x].mode = "oauth"
               PROVE  /\ acc[x].token \in tokens \cup {NoToken}
                      /\ acc[x].slug \in tenants => svc[acc[x].slug] = "oauth"
                      /\ \A d \in CodeIds : gate'[d].slug = acc[x].slug => gate'[d].by # "no password"
    BY <1>1 DEF GatedRequests
  <2>1. /\ acc[x].token \in tokens \cup {NoToken}
        /\ acc[x].slug \in tenants => svc[acc[x].slug] = "oauth"
        /\ \A d \in CodeIds : gate[d].slug = acc[x].slug => gate[d].by # "no password"
    BY DEF Traceability, GatedRequests
  <2>2. ASSUME NEW d \in CodeIds, gate'[d].slug = acc[x].slug PROVE gate'[d].by # "no password"
    <3>1. CASE d = c
      BY <2>1, <2>2, <3>1, <1>4, <1>7, <1>10
    <3>2. CASE d # c
      BY <2>1, <2>2, <3>2, <1>4
    <3> QED
      BY <3>1, <3>2
  <2> QED
    BY <2>1, <2>2
<1>13. GatedAccessTraceable'
  <2> SUFFICES ASSUME NEW x \in Accs, acc[x].pc = "dial", acc[x].mode = "oauth"
               PROVE  /\ acc[x].token # NoToken /\ acc[x].token.iss = acc[x].slug
                      /\ gate'[acc[x].token.code].slug = acc[x].slug
                      /\ gate'[acc[x].token.code].by \in {"password", "failed read"}
    BY <1>1 DEF GatedAccessTraceable
  <2>1. /\ acc[x].token # NoToken /\ acc[x].token.iss = acc[x].slug
        /\ gate[acc[x].token.code].slug = acc[x].slug
        /\ gate[acc[x].token.code].by \in {"password", "failed read"}
    BY DEF Traceability, GatedAccessTraceable
  <2>2. acc[x].token \in tokens
    BY <2>1 DEF Traceability, GatedRequests
  <2> QED
    BY <2>1, <2>2, <1>4, <1>8
<1> QED
  BY <1>9, <1>11, <1>12, <1>13 DEF Traceability

(* A token is issued for the tenant of the row that was claimed.           *)
LEMMA TokIssueTrace ==
    ASSUME TypeOK, SingleUse, Traceability, NEW t \in Toks, TokIssue(t)
    PROVE  Traceability'
<1>1. /\ UNCHANGED <<gate, codes, svc, tenants, auth, acc>> /\ tokens \subseteq tokens'
      /\ tok[t].pc = "claimed"
  BY DEF TokIssue, storeVars, tenantRows
<1>2. tok[t].code \in CodeIds /\ gate[tok[t].code] # NotDelivered
  BY <1>1 DEF TypeOK, TokLocals, Idle, SingleUse, SpentForGood, Spent
<1>3. ASSUME NEW token \in tokens' PROVE gate[token.code].slug = token.iss
  <2>1. CASE token \in tokens
    BY <2>1 DEF Traceability, RowsMatchGate
  <2>2. CASE token \notin tokens
    <3>1. /\ token.iss = tok[t].slug /\ token.code = tok[t].code
          /\ \E row \in codes : row.id = tok[t].code /\ row.slug = tok[t].slug
      BY <2>2 DEF TokIssue, ClaimedRows
    <3> QED
      BY <3>1, <1>2 DEF Traceability, RowsMatchGate
  <2> QED
    BY <2>1, <2>2
<1>4. RowsMatchGate'
  BY <1>1, <1>3 DEF Traceability, RowsMatchGate
<1>5. OpenApprovals' /\ GatedRequests' /\ GatedAccessTraceable'
  BY <1>1 DEF Traceability, OpenApprovals, GatedRequests, GatedAccessTraceable
<1> QED
  BY <1>4, <1>5 DEF Traceability

(* A request that starts has passed no check yet ...                       *)
LEMMA AccServiceTrace ==
    ASSUME TypeOK, Traceability, NEW x \in Accs, NEW s \in Slugs,
           NEW token \in tokens \cup {NoToken}, AccService(x, s, token)
    PROVE  Traceability'
<1>1. /\ UNCHANGED <<gate, codes, svc, tenants, auth, tokens>>
      /\ \A y \in Accs \ {x} : acc'[y] = acc[y]
      /\ acc'[x].mode = svc[s] /\ acc'[x].slug = s /\ acc'[x].token = token
      /\ svc[s] = "oauth" => acc'[x].pc = "check"
  BY DEF AccService, storeVars, tenantRows, history, TypeOK
<1>2. RowsMatchGate' /\ OpenApprovals'
  BY <1>1 DEF Traceability, RowsMatchGate, OpenApprovals
<1>3. GatedRequests'
  <2> SUFFICES ASSUME NEW y \in Accs, acc'[y].pc # "idle", acc'[y].mode = "oauth"
               PROVE  /\ acc'[y].token \in tokens \cup {NoToken}
                      /\ acc'[y].slug \in tenants => svc[acc'[y].slug] = "oauth"
                      /\ \A c \in CodeIds : gate[c].slug = acc'[y].slug => gate[c].by # "no password"
    BY <1>1 DEF GatedRequests
  <2>1. CASE y # x
    BY <2>1, <1>1 DEF Traceability, GatedRequests
  <2>2. CASE y = x
    BY <2>2, <1>1 DEF Traceability, OpenApprovals
  <2> QED
    BY <2>1, <2>2
<1>4. GatedAccessTraceable'
  BY <1>1 DEF Traceability, GatedAccessTraceable
<1> QED
  BY <1>2, <1>3, <1>4 DEF Traceability

(* ... and passes with a token of its tenant only.                         *)
LEMMA AccCheckTrace ==
    ASSUME TypeOK, Traceability, NEW x \in Accs, AccCheck(x)
    PROVE  Traceability'
<1>1. /\ UNCHANGED <<gate, codes, svc, tenants, auth, tokens>>
      /\ \A y \in Accs \ {x} : acc'[y] = acc[y]
      /\ acc[x].pc = "check"
      /\ \/ acc'[x].pc = "idle"
         \/ /\ acc'[x].mode = acc[x].mode /\ acc'[x].slug = acc[x].slug
            /\ acc'[x].token = acc[x].token
            /\ acc[x].token # NoToken /\ acc[x].token.iss = acc[x].slug
  <2>1. acc[x] \in AccLocals
    BY DEF AccCheck, TypeOK, Idle
  <2> QED
    BY <2>1 DEF AccCheck, Valid, storeVars, tenantRows, history, TypeOK, AccLocals, Idle
<1>2. RowsMatchGate' /\ OpenApprovals'
  BY <1>1 DEF Traceability, RowsMatchGate, OpenApprovals
<1>3. GatedRequests'
  <2> SUFFICES ASSUME NEW y \in Accs, acc'[y].pc # "idle", acc'[y].mode = "oauth"
               PROVE  /\ acc'[y].token \in tokens \cup {NoToken}
                      /\ acc'[y].slug \in tenants => svc[acc'[y].slug] = "oauth"
                      /\ \A c \in CodeIds : gate[c].slug = acc'[y].slug => gate[c].by # "no password"
    BY <1>1 DEF GatedRequests
  <2>1. /\ acc'[y].token = acc[y].token /\ acc'[y].slug = acc[y].slug
        /\ acc[y].pc # "idle" /\ acc[y].mode = "oauth"
    BY <1>1
  <2> QED
    BY <2>1 DEF Traceability, GatedRequests
<1>4. GatedAccessTraceable'
  <2> SUFFICES ASSUME NEW y \in Accs, acc'[y].pc = "dial", acc'[y].mode = "oauth"
               PROVE  /\ acc'[y].token # NoToken /\ acc'[y].token.iss = acc'[y].slug
                      /\ gate[acc'[y].token.code].slug = acc'[y].slug
                      /\ gate[acc'[y].token.code].by \in {"password", "failed read"}
    BY <1>1 DEF GatedAccessTraceable
  <2>1. CASE y # x
    BY <2>1, <1>1 DEF Traceability, GatedAccessTraceable
  <2>2. CASE y = x
    <3>1. /\ acc'[x].token = acc[x].token /\ acc'[x].slug = acc[x].slug
          /\ acc[x].mode = "oauth"
          /\ acc[x].token # NoToken /\ acc[x].token.iss = acc[x].slug
      BY <2>2, <1>1
    <3>2. acc[x].token \in tokens
      BY <3>1, <1>1 DEF Traceability, GatedRequests
    <3>3. acc[x].token.code \in CodeIds /\ acc[x].slug \in Slugs
      BY <3>1, <3>2 DEF TypeOK, TokenRecords
    <3>4. gate[acc[x].token.code].slug = acc[x].slug
      BY <3>1, <3>2 DEF Traceability, RowsMatchGate
    <3>5. gate[acc[x].token.code].by \in Approvals
      BY <3>3, <3>4, OAuthAssumption DEF TypeOK, GateRecords, NotDelivered
    <3>6. gate[acc[x].token.code].by # "no password"
      BY <3>1, <3>3, <3>4, <1>1 DEF Traceability, GatedRequests
    <3> QED
      BY <2>2, <3>1, <3>4, <3>5, <3>6 DEF Approvals
  <2> QED
    BY <2>1, <2>2
<1> QED
  BY <1>2, <1>3, <1>4 DEF Traceability

(* What handleAuthorize's two ways on leave in its locals.                 *)
LEMMA AuthToFields ==
    ASSUME TypeOK, NEW a \in Auths, auth[a] \in AuthLocals({"client", "gated"}, {"nobody"}),
           NEW pc, NEW by, AuthTo(a, pc, by)
    PROVE  auth'[a].pc = pc /\ auth'[a].by = by /\ auth'[a].slug = auth[a].slug
<1>1. auth'[a] = [auth[a] EXCEPT !.pc = pc, !.by = by]
  BY DEF AuthTo, TypeOK
<1> QED
  BY <1>1 DEF AuthLocals

(* Every step keeps codes, tokens and requests with the tenant, and the    *)
(* approval, they came from.                                               *)
LEMMA TraceStep == TypeOK /\ SingleUse /\ Traceability /\ [Next]_vars => Traceability'
<1> SUFFICES ASSUME TypeOK, SingleUse, Traceability, [Next]_vars PROVE Traceability'
  OBVIOUS
<1>u. ASSUME UNCHANGED <<gate, tokens, storeVars, auth, acc>> PROVE Traceability'
  BY <1>u, TraceFrame DEF storeVars, tenantRows
<1>a. ASSUME UNCHANGED <<gate, tokens, storeVars, acc>>, NEW a \in Auths,
             \A b \in Auths \ {a} : auth'[b] = auth[b],
             \/ auth'[a].pc # "approved"
             \/ auth'[a].by # "no password"
             \/ svc[auth'[a].slug] # "oauth"
      PROVE  Traceability'
  BY <1>a, TraceFrame DEF storeVars, tenantRows
<1>1. ASSUME NEW s \in Slugs, NEW mode \in {"open", "oauth"}, Publish(s, mode) PROVE Traceability'
  BY <1>1, PublishTrace
<1>2. ASSUME NEW s \in Slugs, Remove(s) PROVE Traceability'
  <2>1. /\ UNCHANGED <<gate, tokens, auth, acc>> /\ codes' \subseteq codes
        /\ \A r \in Slugs : svc'[r] = "oauth" => svc[r] = "oauth"
        /\ \A r \in tenants' : r \in tenants /\ svc'[r] = svc[r]
    BY <1>2 DEF Remove, DeleteTenant, history, TypeOK, StoreTypeOK, TablesTypeOK
  <2> QED
    BY <2>1, TraceFrame
<1>3. ASSUME NEW s \in Slugs, ResolveTenant(s) PROVE Traceability'
  BY <1>3, <1>u DEF ResolveTenant, history
<1>4. CASE ResolveKey \/ Clock \/ UNCHANGED vars
  BY <1>4, <1>u DEF ResolveKey, Clock, Tick, vars, history
<1>5. CASE ResolveGenerate
  <2>1. UNCHANGED <<gate, tokens, codes, svc, tenants, auth, acc>>
    BY <1>5 DEF ResolveGenerate, CreateSigningKey, NotRun, storeVars, tenantRows, history
  <2> QED
    BY <2>1, TraceFrame
<1>6. ASSUME NEW s \in Slugs, NEW id \in ClientIds, NEW uris \in SUBSET URIs, Register(s, id, uris)
      PROVE  Traceability'
  <2>1. UNCHANGED <<gate, tokens, codes, svc, tenants, auth, acc>>
    BY <1>6 DEF Register, CreateOAuthClient, history
  <2> QED
    BY <2>1, TraceFrame
<1>7. ASSUME NEW a \in Auths, NEW s \in Slugs, NEW id \in ClientIds, NEW uri \in URIs,
             NEW v \in Verifiers, AuthClient(a, s, id, uri, v)
      PROVE  Traceability'
  <2>1. \A b \in Auths \ {a} : auth'[b] = auth[b]
    BY <1>7 DEF AuthClient, TypeOK
  <2>2. auth'[a].pc # "approved"
    BY <1>7 DEF AuthClient, TypeOK
  <2> QED
    BY <1>7, <2>1, <2>2, <1>a DEF AuthClient, history
<1>8. ASSUME NEW a \in Auths, AuthGate(a) PROVE Traceability'
  <2>1. auth[a] \in AuthLocals({"client", "gated"}, {"nobody"})
    <3>1. auth[a].pc = "client"
      BY <1>8 DEF AuthGate
    <3> QED
      BY <3>1 DEF TypeOK, AuthLocals, Idle
  <2>2. \A b \in Auths \ {a} : auth'[b] = auth[b]
    BY <1>8 DEF AuthGate, AuthTo, TypeOK
  <2>3. \/ auth'[a].pc # "approved"
        \/ auth'[a].by # "no password"
        \/ svc[auth'[a].slug] # "oauth"
    <3>1. \/ AuthTo(a, "gated", "nobody")
          \/ svc[auth[a].slug] # "oauth" /\ AuthTo(a, "approved", "no password")
          \/ AuthTo(a, "approved", "failed read")
      BY <1>8 DEF AuthGate
    <3>2. ASSUME AuthTo(a, "gated", "nobody") PROVE auth'[a].pc = "gated"
      BY <2>1, <3>2, AuthToFields
    <3>3. ASSUME AuthTo(a, "approved", "no password") PROVE auth'[a].slug = auth[a].slug
      BY <2>1, <3>3, AuthToFields
    <3>4. ASSUME AuthTo(a, "approved", "failed read") PROVE auth'[a].by = "failed read"
      BY <2>1, <3>4, AuthToFields
    <3> QED
      BY <3>1, <3>2, <3>3, <3>4
  <2> QED
    BY <1>8, <2>2, <2>3, <1>a DEF AuthGate, history
<1>9. ASSUME NEW a \in Auths, NEW right \in BOOLEAN, AuthPassword(a, right) PROVE Traceability'
  <2>1. auth[a] \in AuthLocals({"client", "gated"}, {"nobody"})
    BY <1>9 DEF AuthPassword, TypeOK, Idle, AuthLocals
  <2>2. \A b \in Auths \ {a} : auth'[b] = auth[b]
    BY <1>9 DEF AuthPassword, AuthTo, AuthReturn, TypeOK
  <2>3. auth'[a].pc # "approved" \/ auth'[a].by # "no password"
    <3>1. AuthTo(a, "approved", "password") \/ AuthReturn(a)
      BY <1>9 DEF AuthPassword
    <3>2. ASSUME AuthTo(a, "approved", "password") PROVE auth'[a].by = "password"
      BY <2>1, <3>2, AuthToFields
    <3>3. ASSUME AuthReturn(a) PROVE auth'[a].pc # "approved"
      BY <3>3 DEF AuthReturn, TypeOK, Idle
    <3> QED
      BY <3>1, <3>2, <3>3
  <2> QED
    BY <1>9, <2>2, <2>3, <1>a DEF AuthPassword, history
<1>10. ASSUME NEW a \in Auths, NEW c \in CodeIds, AuthCode(a, c) PROVE Traceability'
  BY <1>10, AuthCodeTrace
<1>11. ASSUME NEW t \in Toks, NEW s \in Slugs, NEW c \in CodeIds, NEW id \in ClientIds,
              NEW uri \in URIs, NEW v \in Verifiers, TokClaim(t, s, c, id, uri, v)
       PROVE  Traceability'
  <2>1. ASSUME NEW row \in codes'
        PROVE  \E r \in codes : r.id = row.id /\ r.slug = row.slug
    <3>1. ASSUME NEW r \in codes
          PROVE  [r EXCEPT !.used = TRUE].id = r.id /\ [r EXCEPT !.used = TRUE].slug = r.slug
      BY DEF TypeOK, CodeRows
    <3> QED
      BY <1>11, <3>1 DEF TokClaim, ClaimAuthCode, Claimable
  <2>2. UNCHANGED <<gate, tokens, svc, tenants, auth, acc>>
    BY <1>11 DEF TokClaim, ClaimAuthCode, history
  <2> QED
    BY <2>1, <2>2, TraceFrame
<1>12. ASSUME NEW t \in Toks, TokIssue(t) PROVE Traceability'
  BY <1>12, TokIssueTrace
<1>13. ASSUME NEW x \in Accs, NEW s \in Slugs, NEW token \in tokens \cup {NoToken},
              AccService(x, s, token)
       PROVE  Traceability'
  BY <1>13, AccServiceTrace
<1>14. ASSUME NEW x \in Accs, AccCheck(x) PROVE Traceability'
  BY <1>14, AccCheckTrace
<1>15. ASSUME NEW x \in Accs, AccEnd(x) PROVE Traceability'
  <2>1. /\ UNCHANGED <<gate, tokens, codes, svc, tenants, auth>>
        /\ \A y \in Accs : acc'[y] = acc[y] \/ acc'[y].pc = "idle"
    BY <1>15 DEF AccEnd, storeVars, tenantRows, history, TypeOK, Idle
  <2> QED
    BY <2>1, TraceFrame
<1>16. CASE Restart
  <2>1. /\ UNCHANGED <<gate, tokens, codes, svc, tenants>>
        /\ \A a \in Auths : auth'[a].pc = "idle"
        /\ \A y \in Accs : acc'[y].pc = "idle"
    BY <1>16 DEF Restart, storeVars, tenantRows, history, Idle
  <2> QED
    BY <2>1, TraceFrame
<1> QED
  BY <1>1, <1>2, <1>3, <1>4, <1>5, <1>6, <1>7, <1>8, <1>9, <1>10, <1>11, <1>12, <1>13, <1>14,
     <1>15, <1>16 DEF Next

KeysInv == CachedKeyIsStored /\ GeneratesWhenAbsent
ExpiryInv == TokenDiesWithTenant /\ CachedExpiry

(* Steps that neither touch keys, expiries, the cache, the resolver nor    *)
(* the tokens: all a tenant can do is go away.                             *)
LEMMA KeyFrame ==
    ASSUME KeysInv, ExpiryInv, UNCHANGED <<cacheVars, resolverVars, misread, tokens>>,
           \A s \in tenants' : s \in tenants /\ skey'[s] = skey[s] /\ exp'[s] = exp[s]
    PROVE  KeysInv' /\ ExpiryInv'
  BY DEF KeysInv, CachedKeyIsStored, GeneratesWhenAbsent, ExpiryInv, TokenDiesWithTenant,
         CachedExpiry, HasServer, cacheVars, resolverVars

(* Every step keeps the cached key and expiry, and the expiry of tokens,   *)
(* equal to the store's.                                                   *)
LEMMA KeyStep == TypeOK /\ SingleUse /\ KeysInv /\ ExpiryInv /\ [Next]_vars => KeysInv' /\ ExpiryInv'
<1> SUFFICES ASSUME TypeOK, SingleUse, KeysInv, ExpiryInv, [Next]_vars PROVE KeysInv' /\ ExpiryInv'
  OBVIOUS
<1>k. /\ cpem \in [Slugs -> PEMs \cup {NoPEM}] /\ cexp \in [Slugs -> Nat]
      /\ skey \in [Slugs -> PEMs \cup {NoPEM}] /\ tenants \subseteq Slugs
      /\ NoPEM \notin PEMs
  BY StoreAssumption DEF TypeOK, StoreTypeOK, TablesTypeOK
<1>u. ASSUME UNCHANGED <<cacheVars, resolverVars, misread, tokens, tenants, skey, exp>>
      PROVE  KeysInv' /\ ExpiryInv'
  BY <1>u, KeyFrame
<1>1. ASSUME NEW s \in Slugs, NEW mode \in {"open", "oauth"}, Publish(s, mode)
      PROVE  KeysInv' /\ ExpiryInv'
  <2>1. /\ UNCHANGED <<cpem, cexp, rpc, rslug, rexp, misread, tokens>>
        /\ tenants' = tenants \cup {s}
        /\ cpem[s] = NoPEM /\ s # rslug /\ \A t \in tokens : t.iss # s
    BY <1>1 DEF Publish, FreshSlug, cacheVars, resolverVars, history
  <2>2. \A r \in tenants \ {s} : skey'[r] = skey[r] /\ exp'[r] = exp[r]
    BY <1>1 DEF Publish, TypeOK, StoreTypeOK, TablesTypeOK
  <2>3. KeysInv'
    BY <2>1, <2>2 DEF KeysInv, CachedKeyIsStored, GeneratesWhenAbsent
  <2>4. ExpiryInv'
    BY <2>1, <2>2 DEF ExpiryInv, TokenDiesWithTenant, CachedExpiry, HasServer
  <2> QED
    BY <2>3, <2>4
<1>2. ASSUME NEW s \in Slugs, Remove(s) PROVE KeysInv' /\ ExpiryInv'
  <2>1. \A r \in tenants' : r \in tenants /\ skey'[r] = skey[r] /\ exp'[r] = exp[r]
    BY <1>2 DEF Remove, DeleteTenant, TypeOK, StoreTypeOK, TablesTypeOK
  <2> QED
    BY <1>2, <2>1, KeyFrame DEF Remove, history
<1>3. ASSUME NEW s \in Slugs, ResolveTenant(s) PROVE KeysInv' /\ ExpiryInv'
  <2>1. /\ UNCHANGED <<cpem, cexp, misread, tokens, tenants, skey, exp>>
        /\ rpc' = "key" /\ rslug' = s /\ rexp' = exp[s]
    BY <1>3 DEF ResolveTenant, cacheVars, storeVars, tenantRows, history
  <2> QED
    BY <2>1 DEF KeysInv, CachedKeyIsStored, GeneratesWhenAbsent, ExpiryInv, TokenDiesWithTenant,
                CachedExpiry, HasServer
<1>4. CASE ResolveKey
  <2>1. /\ UNCHANGED <<tokens, tenants, skey, exp>>
        /\ rpc = "key" /\ rslug \in Slugs
    BY <1>4 DEF ResolveKey, storeVars, tenantRows, TypeOK
  <2>2. \/ /\ cpem' = [cpem EXCEPT ![rslug] = skey[rslug]]
           /\ cexp' = [cexp EXCEPT ![rslug] = rexp]
           /\ rpc' = "free" /\ UNCHANGED misread
        \/ /\ skey[rslug] = NoPEM
           /\ rpc' = "generate" /\ UNCHANGED <<rslug, rexp, cpem, cexp, misread>>
        \/ /\ rpc' = "generate" /\ misread' = misread \cup {rslug}
           /\ UNCHANGED <<rslug, rexp, cpem, cexp>>
    BY <1>4 DEF ResolveKey, Cache, Unlock, cacheVars
  <2>3. KeysInv'
    BY <2>1, <2>2, <1>k DEF KeysInv, CachedKeyIsStored, GeneratesWhenAbsent
  <2>4. ExpiryInv'
    BY <2>1, <2>2, <1>k DEF ExpiryInv, TokenDiesWithTenant, CachedExpiry, HasServer
  <2> QED
    BY <2>3, <2>4
<1>5. CASE ResolveGenerate
  <2>1. /\ UNCHANGED <<tokens, tenants, exp, misread>>
        /\ rpc = "generate" /\ rslug \in Slugs /\ rpc' = "free"
    BY <1>5 DEF ResolveGenerate, CreateSigningKey, NotRun, storeVars, tenantRows, Unlock, history,
                TypeOK
  <2>2. PICK k \in PEMs :
          /\ FreshPEM(k)
          /\ \/ CreateSigningKey(rslug, k) /\ Cache(k)
             \/ UNCHANGED <<skey, cpem, cexp>>
             \/ CreateSigningKey(rslug, k) /\ UNCHANGED <<cpem, cexp>>
    BY <1>5 DEF ResolveGenerate, NotRun, storeVars, tenantRows, cacheVars
  <2>3. /\ \/ skey' = skey
           \/ skey' = [skey EXCEPT ![rslug] = k]
        /\ \/ UNCHANGED <<cpem, cexp>>
           \/ /\ cpem' = [cpem EXCEPT ![rslug] = k] /\ cexp' = [cexp EXCEPT ![rslug] = rexp]
              /\ skey[rslug] = NoPEM => skey' = [skey EXCEPT ![rslug] = k]
    BY <2>2 DEF CreateSigningKey, Cache
  <2>4. rslug \in tenants \ misread => skey[rslug] = NoPEM /\ cpem[rslug] = NoPEM
    BY <2>1, <1>k DEF KeysInv, CachedKeyIsStored, GeneratesWhenAbsent
  <2>5. KeysInv'
    BY <2>1, <2>3, <2>4, <1>k DEF KeysInv, CachedKeyIsStored, GeneratesWhenAbsent
  <2>6. ExpiryInv'
    BY <2>1, <2>3, <1>k DEF ExpiryInv, TokenDiesWithTenant, CachedExpiry, HasServer
  <2> QED
    BY <2>5, <2>6
<1>6. ASSUME NEW s \in Slugs, NEW id \in ClientIds, NEW uris \in SUBSET URIs, Register(s, id, uris)
      PROVE  KeysInv' /\ ExpiryInv'
  BY <1>6, <1>u DEF Register, CreateOAuthClient, history
<1>7. ASSUME NEW a \in Auths, NEW s \in Slugs, NEW id \in ClientIds, NEW uri \in URIs,
             NEW v \in Verifiers, AuthClient(a, s, id, uri, v)
      PROVE  KeysInv' /\ ExpiryInv'
  BY <1>7, <1>u DEF AuthClient, storeVars, tenantRows, history
<1>8. ASSUME NEW a \in Auths, AuthGate(a) \/ \E right \in BOOLEAN : AuthPassword(a, right)
      PROVE  KeysInv' /\ ExpiryInv'
  BY <1>8, <1>u DEF AuthGate, AuthPassword, storeVars, tenantRows, history
<1>9. ASSUME NEW a \in Auths, NEW c \in CodeIds, AuthCode(a, c) PROVE KeysInv' /\ ExpiryInv'
  BY <1>9, <1>u DEF AuthCode, CreateAuthCode, NotRun, storeVars, tenantRows
<1>10. ASSUME NEW t \in Toks, NEW s \in Slugs, NEW c \in CodeIds, NEW id \in ClientIds,
              NEW uri \in URIs, NEW v \in Verifiers, TokClaim(t, s, c, id, uri, v)
       PROVE  KeysInv' /\ ExpiryInv'
  BY <1>10, <1>u DEF TokClaim, ClaimAuthCode, history
<1>11. ASSUME NEW t \in Toks, TokIssue(t) PROVE KeysInv' /\ ExpiryInv'
  <2>1. /\ UNCHANGED <<cpem, cexp, rpc, rslug, rexp, misread, tenants, skey, exp>>
        /\ tok[t].pc = "claimed" /\ HasServer(tok[t].slug)
    BY <1>11 DEF TokIssue, cacheVars, resolverVars, storeVars, tenantRows, SingleUse, ClaimedHasServer
  <2>2. KeysInv' /\ CachedExpiry'
    BY <2>1 DEF KeysInv, CachedKeyIsStored, GeneratesWhenAbsent, ExpiryInv, CachedExpiry, HasServer
  <2>3. ASSUME NEW token \in tokens', token.iss \in tenants PROVE token.exp = exp[token.iss]
    <3>1. CASE token \in tokens
      BY <2>3, <3>1 DEF ExpiryInv, TokenDiesWithTenant
    <3>2. CASE token \notin tokens
      <4>1. token.iss = tok[t].slug /\ token.exp = cexp[tok[t].slug]
        BY <1>11, <3>2 DEF TokIssue
      <4> QED
        BY <2>1, <2>3, <4>1 DEF ExpiryInv, CachedExpiry
    <3> QED
      BY <3>1, <3>2
  <2> QED
    BY <2>1, <2>2, <2>3 DEF ExpiryInv, TokenDiesWithTenant
<1>12. ASSUME NEW x \in Accs, NEW s \in Slugs, NEW token \in tokens \cup {NoToken},
              AccService(x, s, token)
       PROVE  KeysInv' /\ ExpiryInv'
  BY <1>12, <1>u DEF AccService, storeVars, tenantRows, history
<1>13. ASSUME NEW x \in Accs, AccCheck(x) \/ AccEnd(x) PROVE KeysInv' /\ ExpiryInv'
  BY <1>13, <1>u DEF AccCheck, AccEnd, storeVars, tenantRows, history
<1>14. CASE Clock \/ UNCHANGED vars
  BY <1>14, <1>u DEF Clock, Tick, vars, storeVars, tenantRows, history
<1>15. CASE Restart
  <2>1. /\ UNCHANGED <<tokens, tenants, skey, exp, misread>> /\ rpc' = "free"
        /\ \A s \in Slugs : cpem'[s] = NoPEM
    BY <1>15 DEF Restart, Unlock, storeVars, tenantRows, history
  <2> QED
    BY <2>1, <1>k DEF KeysInv, CachedKeyIsStored, GeneratesWhenAbsent, ExpiryInv,
                      TokenDiesWithTenant, CachedExpiry, HasServer
<1> QED
  BY <1>1, <1>2, <1>3, <1>4, <1>5, <1>6, <1>7, <1>8, <1>9, <1>10, <1>11, <1>12, <1>13, <1>14,
     <1>15 DEF Next

(* The invariant holds initially.                                          *)
LEMMA InitInv == Init => IInv
<1> SUFFICES ASSUME Init PROVE IInv
  OBVIOUS
<1>1. TypeOK
  <2>1. NotDelivered \in GateRecords
    BY DEF GateRecords
  <2>2. StoreTypeOK
    BY StoreAssumption DEF Init, StoreInit, StoreTypeOK, TablesTypeOK, AuthModes
  <2> QED
    BY <2>1, <2>2, OAuthAssumption DEF Init, StoreInit, TypeOK
<1>2. SingleUse
  BY DEF Init, StoreInit, SingleUse, ClaimedHasServer, ClaimedOnce, SpentForGood, Spent,
         CodeIdIsKey, CodeRedeemedOnce, Idle
<1>3. NoOrphanRows
  BY DEF Init, StoreInit, NoOrphanRows
<1>4. Traceability
  BY DEF Init, StoreInit, Traceability, RowsMatchGate, OpenApprovals, GatedRequests,
         GatedAccessTraceable, Idle, NotDelivered
<1>5. CachedKeyIsStored /\ GeneratesWhenAbsent /\ TokenDiesWithTenant /\ CachedExpiry
  BY DEF Init, StoreInit, CachedKeyIsStored, GeneratesWhenAbsent, TokenDiesWithTenant, CachedExpiry
<1> QED
  BY <1>1, <1>2, <1>3, <1>4, <1>5 DEF IInv

(* The inductive invariant holds in every reachable state.                 *)
THEOREM Invariance == Spec => []IInv
<1>1. IInv /\ [Next]_vars => IInv'
  BY TypeStep, SingleUseStep, RowsStep, TraceStep, KeyStep
     DEF IInv, SingleUse, KeysInv, ExpiryInv
<1> QED
  BY <1>1, InitInv, PTL DEF Spec

(* Tables, cached servers, handlers' locals and tokens are well typed; in  *)
(* particular a token handler never runs without its tenant's server.      *)
THEOREM TypeCorrect == Spec => []TypeOK
<1>1. IInv => TypeOK
  BY DEF IInv
<1> QED
  BY <1>1, Invariance, PTL

(* `Consume the code atomically -- single use': no code ever yields two    *)
(* tokens, for any number of concurrent token requests, lost store answers *)
(* and restarts of tunneld.                                                *)
THEOREM SingleUseCodes == Spec => []CodeRedeemedOnce
<1>1. IInv => CodeRedeemedOnce
  BY DEF IInv, SingleUse
<1> QED
  BY <1>1, Invariance, PTL

(* No service, key, client or code outlives its tenant, whichever handler  *)
(* was half way through when the tenant was deleted.                       *)
THEOREM ReferentialIntegrity == Spec => []NoOrphanRows
<1>1. IInv => NoOrphanRows
  BY DEF IInv
<1> QED
  BY <1>1, Invariance, PTL

(* Whoever gets through to a gated service presented a token that goes     *)
(* back to that service's password, or to a failed read at its gate.       *)
THEOREM GatedAccess == Spec => []GatedAccessTraceable
<1>1. IInv => GatedAccessTraceable
  BY DEF IInv, Traceability
<1> QED
  BY <1>1, Invariance, PTL

(* The resolver's cached key is the stored one, unless the read of the key *)
(* had failed.                                                             *)
THEOREM KeysAgree == Spec => []CachedKeyIsStored
<1>1. IInv => CachedKeyIsStored
  BY DEF IInv
<1> QED
  BY <1>1, Invariance, PTL

(* A token expires when its tenant does.                                   *)
THEOREM ExpiryAgrees == Spec => []TokenDiesWithTenant
<1>1. IInv => TokenDiesWithTenant
  BY DEF IInv
<1> QED
  BY <1>1, Invariance, PTL
=============================================================================
