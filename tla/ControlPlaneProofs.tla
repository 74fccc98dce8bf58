------------------------- MODULE ControlPlaneProofs -------------------------
(***************************************************************************)
(* Proofs about the control plane for any number of handlers, slugs,       *)
(* addresses and faults, any cap, rate limit and time to live.             *)
(***************************************************************************)
EXTENDS ControlPlane, FiniteSetTheorems, TLAPS

(* Later instants fall in later windows.                                   *)
LEMMA WindowMonotone ==
    ASSUME NEW a \in Nat, NEW b \in Nat, a <= b
    PROVE  Window(a) \in Nat /\ Window(b) \in Nat /\ Window(a) <= Window(b)
  BY StoreAssumption, Z3 DEF Window

(* Every window is a number.                                               *)
LEMMA WindowsAreNat == Windows \subseteq Nat
  BY WindowMonotone, StoreAssumption DEF Windows

(* Every statement keeps the tables in their types.                        *)
LEMMA StatementTypes ==
    ASSUME TablesTypeOK, clients = {}, codes = {},
           \/ UNCHANGED storeVars
           \/ \E s \in Slugs, e \in Nat : CreateTenantExpiry(s, e)
           \/ \E s \in Slugs \cup {NoSlug} : DeleteTenant(s)
           \/ \E s \in Slugs \cup {NoSlug}, m \in {"open", "oauth"} : CreateService(s, m)
           \/ \E s \in Slugs \cup {NoSlug}, pem \in PEMs : CreateSigningKey(s, pem)
           \/ \E ip \in IPs, w \in Windows : RateUpsert(ip, w)
           \/ \E w \in Windows : RatePrune(w)
    PROVE  TablesTypeOK' /\ clients' = {} /\ codes' = {}
<1> USE DEF TablesTypeOK, storeVars, tenantRows, AuthModes
<1>1. CASE UNCHANGED storeVars
  BY <1>1
<1>2. ASSUME NEW s \in Slugs, NEW e \in Nat, CreateTenantExpiry(s, e)
      PROVE  TablesTypeOK' /\ clients' = {} /\ codes' = {}
  BY <1>2 DEF CreateTenantExpiry
<1>3. ASSUME NEW s \in Slugs \cup {NoSlug}, DeleteTenant(s)
      PROVE  TablesTypeOK' /\ clients' = {} /\ codes' = {}
  BY <1>3 DEF DeleteTenant
<1>4. ASSUME NEW s \in Slugs \cup {NoSlug}, NEW m \in {"open", "oauth"}, CreateService(s, m)
      PROVE  TablesTypeOK' /\ clients' = {} /\ codes' = {}
  BY <1>4 DEF CreateService
<1>5. ASSUME NEW s \in Slugs \cup {NoSlug}, NEW pem \in PEMs, CreateSigningKey(s, pem)
      PROVE  TablesTypeOK' /\ clients' = {} /\ codes' = {}
  BY <1>5 DEF CreateSigningKey
<1>6. ASSUME NEW ip \in IPs, NEW w \in Windows, RateUpsert(ip, w)
      PROVE  TablesTypeOK' /\ clients' = {} /\ codes' = {}
  <2>1. [rate[ip] EXCEPT ![w] = @ + 1] \in [Windows -> Nat]
    OBVIOUS
  <2>2. rate' \in [IPs -> [Windows -> Nat]]
    BY <1>6, <2>1 DEF RateUpsert
  <2> QED
    BY <1>6, <2>2 DEF RateUpsert
<1>7. ASSUME NEW w \in Windows, RatePrune(w)
      PROVE  TablesTypeOK' /\ clients' = {} /\ codes' = {}
  BY <1>7, WindowsAreNat DEF RatePrune
<1> QED
  BY <1>1, <1>2, <1>3, <1>4, <1>5, <1>6, <1>7

(* Every step keeps the tables and every goroutine's locals in their types.*)
LEMMA TypeStep == TypeOK /\ WindowsRead /\ [Next]_vars => TypeOK'
<1> SUFFICES ASSUME TypeOK, WindowsRead, [Next]_vars PROVE TypeOK'
  OBVIOUS
<1>w. Window(now) \in Windows /\ Windows \subseteq Nat
  BY WindowsAreNat DEF Windows, TypeOK, StoreTypeOK
<1>z. 0 \in Windows
  BY StoreAssumption, Z3 DEF Windows, Window
<1> DEFINE Tables == TablesTypeOK /\ clients = {} /\ codes = {}
           Quick ==
             /\ qpc \in [Reqs -> QuickPC]
             /\ qip \in [Reqs -> IPs \cup {NoIP}]
             /\ qwin \in [Reqs -> Windows]
             /\ qbody \in [Reqs -> Bodies]
             /\ qslug \in [Reqs -> Slugs \cup {NoSlug}]
           Owned == owned \in [Slugs -> {"none"} \cup Bodies]
           Locals ==
             /\ now \in 0..MaxTime
             /\ dlpc \in [Dels -> {"idle", "validated"}]
             /\ dlslug \in [Dels -> Slugs \cup {NoSlug}]
             /\ jlist \subseteq Slugs
             /\ requests \in 0..MaxRequests
             /\ faults \in 0..MaxFaults
             /\ passed \in [IPs -> [Windows -> Nat]]
<1>t. TypeOK <=> Tables /\ Quick /\ Owned /\ Locals
  BY DEF TypeOK, StoreTypeOK
<1>u. TypeOK' <=> Tables' /\ Quick' /\ Owned' /\ Locals'
  BY DEF TypeOK, StoreTypeOK
<1>s. ASSUME \/ UNCHANGED storeVars
             \/ \E s \in Slugs, e \in Nat : CreateTenantExpiry(s, e)
             \/ \E s \in Slugs \cup {NoSlug} : DeleteTenant(s)
             \/ \E s \in Slugs \cup {NoSlug}, m \in {"open", "oauth"} : CreateService(s, m)
             \/ \E s \in Slugs \cup {NoSlug}, pem \in PEMs : CreateSigningKey(s, pem)
             \/ \E ip \in IPs, w \in Windows : RateUpsert(ip, w)
             \/ \E w \in Windows : RatePrune(w)
      PROVE  Tables'
  BY <1>s, <1>t, StatementTypes
<1>q. ASSUME NEW r \in Reqs, Return(r) \/ \E pc \in QuickPC : Goto(r, pc)
      PROVE  Quick'
  <2>1. CASE Return(r)
    <3>1. "idle" \in QuickPC /\ "open" \in Bodies
      BY DEF QuickPC, Bodies
    <3> QED
      BY <2>1, <3>1, <1>t, <1>z DEF Return
  <2>2. ASSUME NEW pc \in QuickPC, Goto(r, pc) PROVE Quick'
    BY <2>2, <1>t DEF Goto
  <2> QED
    BY <1>q, <2>1, <2>2
<1>o. ASSUME NEW r \in Reqs, UNCHANGED owned \/ Created(r) PROVE Owned'
  <2>1. qbody[r] \in Bodies /\ owned \in [Slugs -> {"none"} \cup Bodies]
    BY <1>t
  <2>2. owned' = owned \/ owned' = [owned EXCEPT ![qslug[r]] = qbody[r]]
    BY <1>o DEF Created
  <2> QED
    BY <2>1, <2>2
<1> HIDE DEF Tables
<1> USE StoreAssumption, ControlPlaneAssumption
    DEF quickVars, delVars, history, Fault, NoFault, NotRun
<1>1. ASSUME NEW r \in Reqs, NEW ip \in IPs, QuickWindow(r, ip) PROVE TypeOK'
  <2>1. Tables'
    BY <1>1, <1>s DEF QuickWindow
  <2>2. Quick'
    BY <1>1, <1>t, <1>w DEF QuickWindow, QuickPC, HitPC
  <2>3. Owned' /\ Locals'
    BY <1>1, <1>t DEF QuickWindow
  <2> QED
    BY <2>1, <2>2, <2>3, <1>u
<1>h. ASSUME NEW r \in Reqs, QuickPrune(r) \/ QuickUpsert(r) PROVE TypeOK'
  <2>0. qwin[r] \in Windows /\ qip[r] \in IPs
    BY <1>h, <1>t DEF QuickPrune, QuickUpsert, WindowsRead, HitPC
  <2>1. Tables'
    BY <1>h, <1>s, <2>0 DEF QuickPrune, QuickUpsert
  <2>2. Quick'
    BY <1>h, <1>q DEF QuickPrune, QuickUpsert, QuickPC, HitPC
  <2>3. Owned' /\ Locals'
    BY <1>h, <1>t DEF QuickPrune, QuickUpsert
  <2> QED
    BY <2>1, <2>2, <2>3, <1>u
<1>2. ASSUME NEW r \in Reqs, QuickReadBack(r) PROVE TypeOK'
  <2>1. Tables'
    BY <1>2, <1>s DEF QuickReadBack
  <2>2. Quick'
    BY <1>2, <1>q DEF QuickReadBack, QuickPC
  <2>3. Owned'
    BY <1>2, <1>t DEF QuickReadBack
  <2>4. Locals'
    <3>1. qwin[r] \in Windows /\ passed \in [IPs -> [Windows -> Nat]]
      BY <1>t
    <3>2. \/ passed' = passed
          \/ passed' = [passed EXCEPT ![qip[r]][qwin[r]] = @ + 1]
      BY <1>2 DEF QuickReadBack
    <3>3. \A ip \in IPs : [passed[ip] EXCEPT ![qwin[r]] = @ + 1] \in [Windows -> Nat]
      BY <3>1
    <3>4. passed' \in [IPs -> [Windows -> Nat]]
      BY <3>1, <3>2, <3>3
    <3> QED
      BY <1>2, <3>4, <1>t DEF QuickReadBack
  <2> QED
    BY <2>1, <2>2, <2>3, <2>4, <1>u
<1>3. ASSUME NEW r \in Reqs, QuickCount(r) PROVE TypeOK'
  <2>1. Tables'
    BY <1>3, <1>s DEF QuickCount
  <2>2. Quick'
    <3>1. CASE Return(r)
      BY <3>1, <1>q
    <3>2. CASE ~ Return(r)
      BY <3>2, <1>3, <1>t DEF QuickCount, QuickPC
    <3> QED
      BY <3>1, <3>2
  <2>3. Owned'
    BY <1>3, <1>t DEF QuickCount
  <2>4. Locals'
    BY <1>3, <1>t DEF QuickCount
  <2> QED
    BY <2>1, <2>2, <2>3, <2>4, <1>u
<1>4. ASSUME NEW r \in Reqs, QuickTenant(r) PROVE TypeOK'
  <2>0. now + TTL \in Nat
    BY <1>t
  <2>1. Tables'
    BY <1>4, <1>s, <2>0 DEF QuickTenant
  <2>2. Quick'
    <3>1. CASE Return(r)
      BY <3>1, <1>q
    <3>2. CASE ~ Return(r)
      BY <3>2, <1>4, <1>t DEF QuickTenant, QuickPC
    <3> QED
      BY <3>1, <3>2
  <2>3. Owned'
    BY <1>4, <1>t DEF QuickTenant
  <2>4. Locals'
    BY <1>4, <1>t DEF QuickTenant
  <2> QED
    BY <2>1, <2>2, <2>3, <2>4, <1>u
<1>5. ASSUME NEW r \in Reqs, QuickService(r) PROVE TypeOK'
  <2>0. qslug[r] \in Slugs \cup {NoSlug} /\ qbody[r] \in Bodies
    BY <1>t
  <2>1. Tables'
    BY <1>5, <1>s, <2>0 DEF QuickService, Bodies
  <2>2. Quick'
    BY <1>5, <1>q DEF QuickService, QuickPC, Created
  <2>3. Owned'
    BY <1>5, <1>o DEF QuickService
  <2>4. Locals'
    BY <1>5, <1>t DEF QuickService
  <2> QED
    BY <2>1, <2>2, <2>3, <2>4, <1>u
<1>6. ASSUME NEW r \in Reqs, QuickSigningKey(r) PROVE TypeOK'
  <2>0. qslug[r] \in Slugs \cup {NoSlug}
    BY <1>t
  <2>1. Tables'
    BY <1>6, <1>s, <2>0 DEF QuickSigningKey
  <2>2. Quick'
    BY <1>6, <1>q DEF QuickSigningKey, Created
  <2>3. Owned'
    BY <1>6, <1>o DEF QuickSigningKey
  <2>4. Locals'
    BY <1>6, <1>t DEF QuickSigningKey
  <2> QED
    BY <2>1, <2>2, <2>3, <2>4, <1>u
<1>7. ASSUME NEW d \in Dels, NEW s \in Slugs, DeleteValidate(d, s) PROVE TypeOK'
  <2>1. Tables'
    BY <1>7, <1>s DEF DeleteValidate
  <2>2. Quick' /\ Owned' /\ Locals'
    BY <1>7, <1>t DEF DeleteValidate
  <2> QED
    BY <2>1, <2>2, <1>u
<1>8. ASSUME NEW d \in Dels, DeleteRun(d) PROVE TypeOK'
  <2>0. dlslug[d] \in Slugs \cup {NoSlug}
    BY <1>t
  <2>1. Tables'
    BY <1>8, <1>s, <2>0 DEF DeleteRun
  <2>2. Quick' /\ Owned' /\ Locals'
    BY <1>8, <1>t DEF DeleteRun
  <2> QED
    BY <2>1, <2>2, <1>u
<1>9. ASSUME NEW s \in Slugs, Kill(s) PROVE TypeOK'
  <2>1. Tables'
    BY <1>9, <1>s DEF Kill
  <2>2. Quick' /\ Owned' /\ Locals'
    BY <1>9, <1>t DEF Kill
  <2> QED
    BY <2>1, <2>2, <1>u
<1>10. ASSUME NEW s \in Slugs, JanitorDelete(s) PROVE TypeOK'
  <2>1. Tables'
    BY <1>10, <1>s DEF JanitorDelete
  <2>2. Quick' /\ Owned' /\ Locals'
    BY <1>10, <1>t DEF JanitorDelete
  <2> QED
    BY <2>1, <2>2, <1>u
<1>11. ASSUME JanitorSelect PROVE TypeOK'
  <2>1. Tables'
    BY <1>11, <1>s DEF JanitorSelect
  <2>2. Quick' /\ Owned' /\ Locals'
    BY <1>11, <1>t DEF JanitorSelect, ExpiredTenants, Tables, TablesTypeOK
  <2> QED
    BY <2>1, <2>2, <1>u
<1>12. ASSUME Clock PROVE TypeOK'
  <2>1. Tables'
    BY <1>12, <1>s DEF Clock, Tick
  <2>2. Quick' /\ Owned' /\ Locals'
    BY <1>12, <1>t DEF Clock, Tick
  <2> QED
    BY <2>1, <2>2, <1>u
<1>13. ASSUME Crash PROVE TypeOK'
  <2>1. Tables'
    BY <1>13, <1>s DEF Crash
  <2>2. Quick' /\ Owned' /\ Locals'
    BY <1>13, <1>t, <1>z DEF Crash, QuickPC, Bodies
  <2> QED
    BY <2>1, <2>2, <1>u
<1>14. CASE UNCHANGED vars
  <2>1. Tables'
    BY <1>14, <1>s DEF vars
  <2>2. Quick' /\ Owned' /\ Locals'
    BY <1>14, <1>t DEF vars
  <2> QED
    BY <2>1, <2>2, <1>u
<1> QED
  BY <1>1, <1>h, <1>2, <1>3, <1>4, <1>5, <1>6, <1>7, <1>8, <1>9, <1>10, <1>11, <1>12, <1>13, <1>14
     DEF Next, QuickStep

-----------------------------------------------------------------------------
(* The sets the bounds count are finite, in this state and in the next.    *)
LEMMA Counted ==
    ASSUME TypeOK
    PROVE  /\ IsFiniteSet(LiveTenants) /\ CountLiveTenants \in Nat
           /\ IsFiniteSet(Admitted) /\ Cardinality(Admitted) \in Nat
           /\ Cardinality(Admitted) <= Cardinality(Reqs)
           /\ Cardinality(Reqs) \in Nat
<1>1. LiveTenants \subseteq Slugs /\ Admitted \subseteq Reqs
  BY DEF LiveTenants, Admitted, TypeOK, StoreTypeOK, TablesTypeOK
<1> QED
  BY <1>1, ControlPlaneAssumption, FS_Subset, FS_CardinalityType DEF CountLiveTenants

(* Fewer live tenants and fewer admitted handlers: the bound survives.     *)
LEMMA BoundShrinks ==
    ASSUME TypeOK, TypeOK', LiveBound, LiveTenants' \subseteq LiveTenants,
           Admitted' \subseteq Admitted
    PROVE  LiveBound'
<1>1. CountLiveTenants' <= CountLiveTenants
  BY Counted, FS_Subset DEF CountLiveTenants
<1>2. Cardinality(Admitted') <= Cardinality(Admitted)
  BY Counted, FS_Subset
<1>3. CountLiveTenants' \in Nat /\ Cardinality(Admitted') \in Nat
  BY Counted, FS_Subset, FS_CardinalityType DEF CountLiveTenants
<1> QED
  BY <1>1, <1>2, <1>3, Counted, ControlPlaneAssumption DEF LiveBound

(* A deletion leaves no more live tenants than before.                     *)
LEMMA DeleteShrinks ==
    ASSUME NEW s, TypeOK, DeleteTenant(s), now' = now
    PROVE  LiveTenants' \subseteq LiveTenants
  BY DEF LiveTenants, DeleteTenant, TypeOK, StoreTypeOK, TablesTypeOK

(* handleQuick's check-then-insert keeps the overshoot bounded: the test   *)
(* admits a handler only below the cap, an insertion uses up an admission, *)
(* and no other step adds to either.                                       *)
LEMMA LiveStep == TypeOK /\ TypeOK' /\ LiveBound /\ [Next]_vars => LiveBound'
<1> SUFFICES ASSUME TypeOK, TypeOK', LiveBound, [Next]_vars PROVE LiveBound'
  OBVIOUS
<1>t. /\ qpc \in [Reqs -> QuickPC] /\ tenants \subseteq Slugs /\ exp \in [Slugs -> Nat]
      /\ now \in Nat
  BY StoreAssumption DEF TypeOK, StoreTypeOK, TablesTypeOK
<1> USE DEF storeVars, tenantRows, quickVars, delVars, Fault, NoFault, NotRun
<1>1. ASSUME NEW r \in Reqs,
             (\E ip \in IPs : QuickWindow(r, ip)) \/ QuickPrune(r) \/ QuickUpsert(r)
      PROVE  LiveBound'
  <2>1. LiveTenants' = LiveTenants
    BY <1>1 DEF QuickWindow, QuickPrune, QuickUpsert, RatePrune, RateUpsert, LiveTenants
  <2>2. Admitted' \subseteq Admitted
    BY <1>1, <1>t DEF QuickWindow, QuickPrune, QuickUpsert, Goto, Admitted
  <2> QED
    BY <2>1, <2>2, BoundShrinks
<1>2. ASSUME NEW r \in Reqs, QuickReadBack(r) PROVE LiveBound'
  <2>1. LiveTenants' = LiveTenants
    BY <1>2 DEF QuickReadBack, LiveTenants
  <2>2. Admitted' \subseteq Admitted
    BY <1>2, <1>t DEF QuickReadBack, Admitted, Return, Goto
  <2> QED
    BY <2>1, <2>2, BoundShrinks
<1>3. ASSUME NEW r \in Reqs, QuickCount(r) PROVE LiveBound'
  <2>1. LiveTenants' = LiveTenants
    BY <1>3 DEF QuickCount, LiveTenants
  <2>2. CASE CountLiveTenants < MaxLive
    <3>1. CountLiveTenants' = CountLiveTenants
      BY <2>1 DEF CountLiveTenants
    <3>2. Admitted' \subseteq Reqs
      BY DEF Admitted
    <3>3. Cardinality(Admitted') <= Cardinality(Reqs) /\ Cardinality(Admitted') \in Nat
      BY <3>2, ControlPlaneAssumption, FS_Subset, FS_CardinalityType
    <3> QED
      BY <2>2, <3>1, <3>3, Counted, ControlPlaneAssumption DEF LiveBound
  <2>3. CASE ~ (CountLiveTenants < MaxLive)
    <3>1. Admitted' \subseteq Admitted
      BY <1>3, <2>3, <1>t DEF QuickCount, Admitted, Return
    <3> QED
      BY <2>1, <3>1, BoundShrinks
  <2> QED
    BY <2>2, <2>3
<1>4. ASSUME NEW r \in Reqs, QuickTenant(r) PROVE LiveBound'
  <2>1. r \in Admitted /\ Admitted' = Admitted \ {r}
    BY <1>4, <1>t DEF QuickTenant, Admitted, Return
  <2>2. Cardinality(Admitted') = Cardinality(Admitted) - 1
    BY <2>1, Counted, FS_RemoveElement
  <2>3. CASE UNCHANGED storeVars
    <3>1. LiveTenants' = LiveTenants
      BY <2>3, <1>4 DEF QuickTenant, LiveTenants
    <3> QED
      BY <2>1, <3>1, BoundShrinks
  <2>4. CASE \E s \in Slugs : CreateTenantExpiry(s, now + TTL)
    <3>1. PICK s \in Slugs : CreateTenantExpiry(s, now + TTL)
      BY <2>4
    <3>2. LiveTenants' \subseteq LiveTenants \cup {s}
      BY <3>1, <1>4, <1>t DEF QuickTenant, CreateTenantExpiry, LiveTenants
    <3>3. /\ IsFiniteSet(LiveTenants \cup {s})
          /\ Cardinality(LiveTenants \cup {s}) <= CountLiveTenants + 1
      <4>1. IsFiniteSet(LiveTenants) /\ Cardinality(LiveTenants) \in Nat
        BY Counted DEF CountLiveTenants
      <4>2. /\ IsFiniteSet(LiveTenants \cup {s})
            /\ Cardinality(LiveTenants \cup {s}) =
                 IF s \in LiveTenants THEN Cardinality(LiveTenants)
                 ELSE Cardinality(LiveTenants) + 1
        BY <4>1, FS_AddElement
      <4> QED
        BY <4>1, <4>2 DEF CountLiveTenants
    <3>4. /\ CountLiveTenants' <= Cardinality(LiveTenants \cup {s})
          /\ CountLiveTenants' \in Nat /\ Cardinality(LiveTenants \cup {s}) \in Nat
      BY <3>2, <3>3, FS_Subset, FS_CardinalityType DEF CountLiveTenants
    <3> QED
      BY <2>2, <3>3, <3>4, Counted, ControlPlaneAssumption DEF LiveBound
  <2> QED
    BY <1>4, <2>3, <2>4 DEF QuickTenant
<1>5. ASSUME NEW r \in Reqs, QuickService(r) PROVE LiveBound'
  <2>1. LiveTenants' = LiveTenants
    BY <1>5 DEF QuickService, CreateService, LiveTenants
  <2>2. Admitted' \subseteq Admitted
    BY <1>5, <1>t DEF QuickService, Admitted, Created, Return, Goto
  <2> QED
    BY <2>1, <2>2, BoundShrinks
<1>6. ASSUME NEW r \in Reqs, QuickSigningKey(r) PROVE LiveBound'
  <2>1. LiveTenants' = LiveTenants
    BY <1>6 DEF QuickSigningKey, CreateSigningKey, LiveTenants
  <2>2. Admitted' \subseteq Admitted
    BY <1>6, <1>t DEF QuickSigningKey, Admitted, Created, Return
  <2> QED
    BY <2>1, <2>2, BoundShrinks
<1>7. ASSUME now' = now, UNCHANGED quickVars,
             UNCHANGED storeVars \/ \E s : DeleteTenant(s)
      PROVE  LiveBound'
  <2>1. LiveTenants' \subseteq LiveTenants
    BY <1>7, DeleteShrinks DEF LiveTenants
  <2>2. Admitted' = Admitted
    BY <1>7 DEF Admitted
  <2> QED
    BY <2>1, <2>2, BoundShrinks
<1>8. ASSUME Clock PROVE LiveBound'
  <2>1. LiveTenants' \subseteq LiveTenants /\ Admitted' = Admitted
    BY <1>8, <1>t DEF Clock, Tick, LiveTenants, Admitted
  <2> QED
    BY <2>1, BoundShrinks
<1>9. ASSUME Crash PROVE LiveBound'
  <2>1. LiveTenants' = LiveTenants /\ Admitted' \subseteq Admitted
    BY <1>9 DEF Crash, LiveTenants, Admitted
  <2> QED
    BY <2>1, BoundShrinks
<1>10. ASSUME NEW d \in Dels, DeleteRun(d) \/ \E s \in Slugs : DeleteValidate(d, s)
       PROVE  LiveBound'
  BY <1>7, <1>10 DEF DeleteRun, DeleteValidate
<1>11. ASSUME NEW s \in Slugs, Kill(s) \/ JanitorDelete(s) PROVE LiveBound'
  BY <1>7, <1>11 DEF Kill, JanitorDelete
<1>12. ASSUME JanitorSelect PROVE LiveBound'
  BY <1>7, <1>12 DEF JanitorSelect
<1>13. CASE UNCHANGED vars
  BY <1>7, <1>13 DEF vars
<1> QED
  BY <1>1, <1>2, <1>3, <1>4, <1>5, <1>6, <1>8, <1>9, <1>10, <1>11, <1>12, <1>13
     DEF Next, QuickStep

-----------------------------------------------------------------------------
(* Locals of a handler outside QuickRateHit do not matter to the counters; *)
(* HitFrame says that a step keeps handler q's, or takes it out.           *)
HitFrame(q) ==
    qpc'[q] \in HitPC => qpc'[q] = qpc[q] /\ qip'[q] = qip[q] /\ qwin'[q] = qwin[q]

(* The sets CounterCovers counts are finite and fewer than the handlers.   *)
LEMMA HitsCounted ==
    ASSUME NEW ip, NEW w
    PROVE  /\ IsFiniteSet(Counting(ip, w)) /\ Cardinality(Counting(ip, w)) \in Nat
           /\ IsFiniteSet(Hitting(ip, w)) /\ Cardinality(Hitting(ip, w)) \in Nat
           /\ IsFiniteSet(Counting(ip, w)') /\ Cardinality(Counting(ip, w)') \in Nat
           /\ IsFiniteSet(Hitting(ip, w)') /\ Cardinality(Hitting(ip, w)') \in Nat
<1>1. Counting(ip, w) \subseteq Reqs /\ Hitting(ip, w) \subseteq Reqs
  BY DEF Counting, Hitting
<1>2. Counting(ip, w)' \subseteq Reqs /\ Hitting(ip, w)' \subseteq Reqs
  BY DEF Counting, Hitting
<1> QED
  BY <1>1, <1>2, FS_Subset, FS_CardinalityType, ControlPlaneAssumption

(* The part of CounterCovers about one address and one window.             *)
Covers(ip, w) ==
    \/ /\ passed[ip][w] + Cardinality(Hitting(ip, w)) <= rate[ip][w]
       /\ passed[ip][w] <= RateLimit
    \/ /\ w + 2 < Window(now)
       /\ passed[ip][w] + Cardinality(Counting(ip, w)) <= RateLimit + Cardinality(Reqs) - 1

(* A counter that no handler joins, that is not pruned and that admits     *)
(* nobody stays covered while the clock does not turn back.                *)
LEMMA CoversFrame ==
    ASSUME TypeOK, TypeOK', now <= now', NEW ip \in IPs, NEW w \in Windows, Covers(ip, w),
           passed'[ip][w] = passed[ip][w], rate'[ip][w] >= rate[ip][w],
           Hitting(ip, w)' \subseteq Hitting(ip, w), Counting(ip, w)' \subseteq Counting(ip, w)
    PROVE  Covers(ip, w)'
<1>1. /\ Cardinality(Hitting(ip, w)') <= Cardinality(Hitting(ip, w))
      /\ Cardinality(Counting(ip, w)') <= Cardinality(Counting(ip, w))
  BY HitsCounted, FS_Subset
<1>2. passed[ip][w] \in Nat /\ rate[ip][w] \in Nat /\ rate'[ip][w] \in Nat /\ w \in Nat
  BY WindowsAreNat DEF TypeOK, StoreTypeOK, TablesTypeOK
<1>0. now \in Nat /\ now' \in Nat
  BY StoreAssumption DEF TypeOK, StoreTypeOK
<1>3. Window(now) \in Nat /\ Window(now') \in Nat /\ Window(now) <= Window(now')
  BY <1>0, WindowMonotone
<1>4. Cardinality(Reqs) \in Nat /\ RateLimit \in Nat
  BY FS_CardinalityType, ControlPlaneAssumption
<1> QED
  BY <1>1, <1>2, <1>3, <1>4, HitsCounted DEF Covers

(* The upsert precedes every read-back, so a counter goes on covering the  *)
(* requests it admitted and those about to read it; the handler that       *)
(* prunes its row is one of the handlers and not inside that counter.      *)
LEMMA RateStep ==
    TypeOK /\ TypeOK' /\ WindowsRead /\ CounterCovers /\ [Next]_vars
      => WindowsRead' /\ CounterCovers'
<1> SUFFICES ASSUME TypeOK, TypeOK', WindowsRead, CounterCovers, [Next]_vars
             PROVE  WindowsRead' /\ CounterCovers'
  OBVIOUS
<1>t. /\ qpc \in [Reqs -> QuickPC] /\ qip \in [Reqs -> IPs \cup {NoIP}]
      /\ qwin \in [Reqs -> Windows] /\ now \in Nat /\ now' \in Nat
      /\ rate \in [IPs -> [Windows -> Nat]] /\ passed \in [IPs -> [Windows -> Nat]]
  BY StoreAssumption DEF TypeOK, StoreTypeOK, TablesTypeOK
<1>w. Window(now) \in Nat /\ Windows \subseteq Nat
  BY WindowMonotone, WindowsAreNat, <1>t
<1>n. Cardinality(Reqs) \in Nat /\ RateLimit \in Nat
  BY FS_CardinalityType, ControlPlaneAssumption
<1>c. \A i \in IPs, v \in Windows : Covers(i, v)
  BY DEF CounterCovers, Covers
<1>d. (\A i \in IPs, v \in Windows : Covers(i, v)') => CounterCovers'
  BY DEF CounterCovers, Covers
<1> USE DEF HitFrame
<1>f. ASSUME NEW i \in IPs, NEW v \in Windows, \A q \in Reqs : HitFrame(q)
      PROVE  Hitting(i, v)' \subseteq Hitting(i, v) /\ Counting(i, v)' \subseteq Counting(i, v)
  BY <1>f DEF Hitting, Counting, HitPC
<1>g. ASSUME now <= now', \A q \in Reqs : HitFrame(q) PROVE WindowsRead'
  <2>1. Window(now') \in Nat /\ Window(now) <= Window(now')
    BY <1>g, <1>t, WindowMonotone
  <2>2. \A q \in Reqs : qwin[q] \in Nat
    BY <1>t, <1>w
  <2> QED
    BY <1>g, <2>1, <2>2, <1>w DEF WindowsRead
<1>1. ASSUME UNCHANGED <<rate, passed>>, now <= now', \A q \in Reqs : HitFrame(q)
      PROVE  WindowsRead' /\ CounterCovers'
  <2>1. ASSUME NEW i \in IPs, NEW v \in Windows PROVE Covers(i, v)'
    <3>1. rate[i][v] \in Nat
      BY <1>t
    <3> QED
      BY <3>1, <1>1, <1>f, <1>c, CoversFrame
  <2> QED
    BY <2>1, <1>1, <1>d, <1>g
<1>2. ASSUME NEW r \in Reqs, NEW ip \in IPs, QuickWindow(r, ip)
      PROVE  WindowsRead' /\ CounterCovers'
  <2>1. /\ UNCHANGED <<passed, rate, now>> /\ qpc[r] = "idle"
        /\ qpc'[r] = "window" /\ qip'[r] = ip /\ qwin'[r] = Window(now)
        /\ \A q \in Reqs \ {r} : HitFrame(q)
    BY <1>2, <1>t DEF QuickWindow, history, storeVars
  <2>2. WindowsRead'
    BY <2>1, <1>w DEF WindowsRead
  <2>3. ASSUME NEW i \in IPs, NEW v \in Windows PROVE Covers(i, v)'
    <3>1. Hitting(i, v)' \subseteq Hitting(i, v)
      BY <2>1 DEF Hitting, HitPC
    <3>2. CASE v # Window(now)
      <4>1. Counting(i, v)' \subseteq Counting(i, v)
        BY <3>2, <2>1 DEF Counting
      <4>2. rate[i][v] \in Nat
        BY <1>t
      <4> QED
        BY <4>1, <4>2, <3>1, <2>1, <1>c, <1>t, CoversFrame
    <3>3. CASE v = Window(now)
      <4>1. passed[i][v] + Cardinality(Hitting(i, v)) <= rate[i][v] /\ passed[i][v] <= RateLimit
        BY <3>3, <1>c, <1>w DEF Covers
      <4>2. Cardinality(Hitting(i, v)') <= Cardinality(Hitting(i, v))
        BY <3>1, HitsCounted, FS_Subset
      <4>3. passed[i][v] \in Nat /\ rate[i][v] \in Nat
        BY <1>t
      <4> QED
        BY <4>1, <4>2, <4>3, <2>1, HitsCounted DEF Covers
    <3> QED
      BY <3>2, <3>3
  <2> QED
    BY <2>2, <2>3, <1>d
<1>3. ASSUME NEW r \in Reqs, QuickPrune(r) PROVE WindowsRead' /\ CounterCovers'
  <2>1. /\ UNCHANGED <<passed, now, qip, qwin>> /\ qpc[r] = "window"
        /\ qpc'[r] \in {"pruned", "allowed"} /\ \A q \in Reqs \ {r} : HitFrame(q)
    BY <1>3, <1>t DEF QuickPrune, Goto, history
  <2>2. WindowsRead'
    BY <2>1 DEF WindowsRead, HitPC
  <2>3. ASSUME NEW i \in IPs, NEW v \in Windows PROVE Covers(i, v)'
    <3>1. Hitting(i, v)' \subseteq Hitting(i, v) /\ Counting(i, v)' \subseteq Counting(i, v)
      BY <2>1 DEF Hitting, Counting, HitPC
    <3>2. rate[i][v] \in Nat /\ passed[i][v] \in Nat /\ v \in Nat
      BY <1>t, <1>w
    <3>3. rate'[i][v] = rate[i][v] \/ v + 2 < qwin[r]
      <4>1. RatePrune(qwin[r]) \/ NotRun
        BY <1>3 DEF QuickPrune
      <4> QED
        BY <4>1, <1>t DEF RatePrune, NotRun, storeVars
    <3>4. CASE rate'[i][v] = rate[i][v]
      BY <3>1, <3>2, <3>4, <2>1, <1>c, <1>t, CoversFrame
    <3>5. CASE v + 2 < qwin[r]
      <4>1. v + 2 < Window(now) /\ v # qwin[r]
        <5>1. qwin[r] <= Window(now) /\ qwin[r] \in Nat
          BY <2>1, <1>t, <1>w DEF WindowsRead, HitPC
        <5> QED
          BY <3>5, <3>2, <5>1, <1>w
      <4>2. Counting(i, v)' \subseteq Reqs \ {r}
        BY <4>1, <2>1 DEF Counting
      <4>3. Cardinality(Counting(i, v)') <= Cardinality(Reqs) - 1
        <5>1. IsFiniteSet(Reqs \ {r}) /\ Cardinality(Reqs \ {r}) = Cardinality(Reqs) - 1
          BY FS_RemoveElement, ControlPlaneAssumption
        <5> QED
          BY <4>2, <5>1, FS_Subset
      <4>4. \/ passed[i][v] <= RateLimit
            \/ passed[i][v] + Cardinality(Counting(i, v)) <= RateLimit + Cardinality(Reqs) - 1
        BY <1>c DEF Covers
      <4>5. Cardinality(Counting(i, v)') <= Cardinality(Counting(i, v))
        BY <3>1, HitsCounted, FS_Subset
      <4>6. passed[i][v] + Cardinality(Counting(i, v)') <= RateLimit + Cardinality(Reqs) - 1
        BY <4>3, <4>4, <4>5, <3>2, <1>n, HitsCounted
      <4> QED
        BY <4>1, <4>6, <2>1 DEF Covers
    <3> QED
      BY <3>3, <3>4, <3>5
  <2> QED
    BY <2>2, <2>3, <1>d
<1>4. ASSUME NEW r \in Reqs, QuickUpsert(r) PROVE WindowsRead' /\ CounterCovers'
  <2>1. /\ UNCHANGED <<passed, now, qip, qwin>> /\ qpc[r] = "pruned"
        /\ qpc'[r] \in {"hit", "allowed"} /\ \A q \in Reqs \ {r} : HitFrame(q)
    BY <1>4, <1>t DEF QuickUpsert, Goto, history
  <2>2. WindowsRead'
    BY <2>1 DEF WindowsRead, HitPC
  <2>3. ASSUME NEW i \in IPs, NEW v \in Windows PROVE Covers(i, v)'
    <3>1. Counting(i, v)' \subseteq Counting(i, v)
      BY <2>1 DEF Counting, HitPC
    <3>2. rate[i][v] \in Nat /\ passed[i][v] \in Nat /\ v \in Nat
      BY <1>t, <1>w
    <3>3. rate'[i][v] >= rate[i][v]
      <4>1. rate' = [rate EXCEPT ![qip[r]][qwin[r]] = @ + 1] \/ rate' = rate
        BY <1>4 DEF QuickUpsert, RateUpsert, NotRun, storeVars
      <4> QED
        BY <4>1, <3>2, <1>t
    <3>4. CASE Hitting(i, v)' \subseteq Hitting(i, v)
      BY <3>1, <3>2, <3>3, <3>4, <2>1, <1>c, <1>t, CoversFrame
    <3>5. CASE ~ (Hitting(i, v)' \subseteq Hitting(i, v))
      <4>1. /\ qpc'[r] = "hit" /\ i = qip[r] /\ v = qwin[r]
            /\ Hitting(i, v)' \subseteq Hitting(i, v) \cup {r}
        BY <3>5, <2>1 DEF Hitting, HitPC
      <4>2. rate'[i][v] = rate[i][v] + 1
        <5>1. rate' = [rate EXCEPT ![qip[r]][qwin[r]] = @ + 1]
          BY <1>4, <4>1, <1>t DEF QuickUpsert, RateUpsert, Goto
        <5> QED
          BY <4>1, <5>1, <1>t
      <4>3. Cardinality(Hitting(i, v)') <= Cardinality(Hitting(i, v)) + 1
        <5>1. /\ IsFiniteSet(Hitting(i, v) \cup {r})
              /\ Cardinality(Hitting(i, v) \cup {r}) =
                   IF r \in Hitting(i, v) THEN Cardinality(Hitting(i, v))
                   ELSE Cardinality(Hitting(i, v)) + 1
          BY HitsCounted, FS_AddElement
        <5>2. Cardinality(Hitting(i, v)') <= Cardinality(Hitting(i, v) \cup {r})
          BY <4>1, <5>1, FS_Subset
        <5> QED
          BY <5>1, <5>2, HitsCounted
      <4>4. Cardinality(Counting(i, v)') <= Cardinality(Counting(i, v))
        BY <3>1, HitsCounted, FS_Subset
      <4> QED
        BY <4>2, <4>3, <4>4, <3>2, <2>1, <1>c, <1>n, <1>w, HitsCounted DEF Covers
    <3> QED
      BY <3>4, <3>5
  <2> QED
    BY <2>2, <2>3, <1>d
<1>5. ASSUME NEW r \in Reqs, QuickReadBack(r) PROVE WindowsRead' /\ CounterCovers'
  <2>0. PICK ip \in IPs, w \in Windows : qpc[r] = "hit" /\ ip = qip[r] /\ w = qwin[r]
    BY <1>5, <1>t DEF QuickReadBack, WindowsRead, HitPC
  <2>1. /\ UNCHANGED <<rate, now>> /\ qpc'[r] \notin HitPC
        /\ \A q \in Reqs \ {r} : qpc'[q] = qpc[q] /\ qip'[q] = qip[q] /\ qwin'[q] = qwin[q]
    BY <1>5, <1>t DEF QuickReadBack, Goto, Return, storeVars, HitPC
  <2>2. \A q \in Reqs : HitFrame(q)
    BY <2>1
  <2>3. CASE UNCHANGED passed
    BY <2>1, <2>2, <2>3, <1>1, <1>t
  <2>4. CASE passed' # passed
    <3>1. rate[ip][w] \in 1..RateLimit /\ passed' = [passed EXCEPT ![ip][w] = @ + 1]
      BY <2>0, <2>4, <1>5 DEF QuickReadBack
    <3>2. ASSUME NEW i \in IPs, NEW v \in Windows, i # ip \/ v # w PROVE Covers(i, v)'
      <4>1. passed'[i][v] = passed[i][v] /\ rate[i][v] \in Nat
        BY <3>2, <3>1, <1>t
      <4> QED
        BY <4>1, <2>1, <2>2, <1>f, <1>c, <1>t, CoversFrame
    <3>3. Covers(ip, w)'
      <4>1. r \in Hitting(ip, w) /\ r \in Counting(ip, w)
        BY <2>0 DEF Hitting, Counting, HitPC
      <4>2. Hitting(ip, w)' = Hitting(ip, w) \ {r}
        BY <2>0, <2>1 DEF Hitting, HitPC
      <4>3. Counting(ip, w)' = Counting(ip, w) \ {r}
        BY <2>0, <2>1 DEF Counting
      <4>4. /\ Cardinality(Hitting(ip, w)') = Cardinality(Hitting(ip, w)) - 1
            /\ Cardinality(Counting(ip, w)') = Cardinality(Counting(ip, w)) - 1
        BY <4>1, <4>2, <4>3, HitsCounted, FS_RemoveElement
      <4>5. passed'[ip][w] = passed[ip][w] + 1 /\ passed[ip][w] \in Nat /\ rate[ip][w] \in Nat
        BY <3>1, <1>t
      <4>6. \/ passed'[ip][w] + Cardinality(Hitting(ip, w)') <= rate'[ip][w]
               /\ passed'[ip][w] <= RateLimit
            \/ w + 2 < Window(now)
               /\ passed'[ip][w] + Cardinality(Counting(ip, w)') <= RateLimit + Cardinality(Reqs) - 1
        <5>1. \/ passed[ip][w] + Cardinality(Hitting(ip, w)) <= rate[ip][w]
              \/ w + 2 < Window(now)
                 /\ passed[ip][w] + Cardinality(Counting(ip, w)) <= RateLimit + Cardinality(Reqs) - 1
          BY <1>c DEF Covers
        <5>2. CASE passed[ip][w] + Cardinality(Hitting(ip, w)) <= rate[ip][w]
          <6>1. 1 <= Cardinality(Hitting(ip, w)) /\ rate[ip][w] <= RateLimit
            BY <3>1, <4>4, HitsCounted
          <6> QED
            BY <5>2, <6>1, <4>4, <4>5, <2>1, <1>n, HitsCounted
        <5>3. CASE w + 2 < Window(now)
                   /\ passed[ip][w] + Cardinality(Counting(ip, w)) <= RateLimit + Cardinality(Reqs) - 1
          BY <5>3, <4>4, <4>5, <1>n, HitsCounted
        <5> QED
          BY <5>1, <5>2, <5>3
      <4> QED
        BY <4>6, <2>1 DEF Covers
    <3>4. CounterCovers'
      BY <3>2, <3>3, <1>d
    <3>5. WindowsRead'
      BY <2>1, <2>2, <1>t, <1>g
    <3> QED
      BY <3>4, <3>5
  <2> QED
    BY <2>3, <2>4
<1>m. now <= now
  BY <1>t
<1> USE DEF storeVars, tenantRows, quickVars, history, NotRun, HitPC
<1>6. ASSUME NEW r \in Reqs, QuickCount(r) PROVE WindowsRead' /\ CounterCovers'
  BY <1>6, <1>1, <1>m, <1>t DEF QuickCount, Return
<1>7. ASSUME NEW r \in Reqs, QuickTenant(r) PROVE WindowsRead' /\ CounterCovers'
  BY <1>7, <1>1, <1>m, <1>t DEF QuickTenant, CreateTenantExpiry, Return
<1>8. ASSUME NEW r \in Reqs, QuickService(r) PROVE WindowsRead' /\ CounterCovers'
  BY <1>8, <1>1, <1>m, <1>t DEF QuickService, CreateService, Created, Return, Goto
<1>9. ASSUME NEW r \in Reqs, QuickSigningKey(r) PROVE WindowsRead' /\ CounterCovers'
  BY <1>9, <1>1, <1>m, <1>t DEF QuickSigningKey, CreateSigningKey, Created, Return
<1>10. ASSUME NEW d \in Dels, DeleteRun(d) \/ \E s \in Slugs : DeleteValidate(d, s)
       PROVE  WindowsRead' /\ CounterCovers'
  BY <1>10, <1>1, <1>m DEF DeleteRun, DeleteValidate, DeleteTenant
<1>11. ASSUME NEW s \in Slugs, Kill(s) \/ JanitorDelete(s)
       PROVE  WindowsRead' /\ CounterCovers'
  BY <1>11, <1>1, <1>m DEF Kill, JanitorDelete, DeleteTenant
<1>12. ASSUME JanitorSelect PROVE WindowsRead' /\ CounterCovers'
  BY <1>12, <1>1, <1>m DEF JanitorSelect
<1>13. ASSUME Clock PROVE WindowsRead' /\ CounterCovers'
  BY <1>13, <1>1, <1>t DEF Clock, Tick
<1>14. ASSUME Crash PROVE WindowsRead' /\ CounterCovers'
  BY <1>14, <1>1, <1>m DEF Crash
<1>15. CASE UNCHANGED vars
  BY <1>15, <1>1, <1>m DEF vars
<1> QED
  BY <1>2, <1>3, <1>4, <1>5, <1>6, <1>7, <1>8, <1>9, <1>10, <1>11, <1>12, <1>13, <1>14, <1>15
     DEF Next, QuickStep

-----------------------------------------------------------------------------
(* Creations, deletions, the kill switch and the janitor keep the rows of  *)
(* a tenant together and every 201 answer true.                            *)
Rows == NoOrphanRows /\ InFlight /\ AnsweredTunnelIsComplete

(* Every step keeps the invariants of the tables.                          *)
LEMMA RowsStep == TypeOK /\ TypeOK' /\ Rows /\ [Next]_vars => Rows'
<1> SUFFICES ASSUME TypeOK, TypeOK', Rows, [Next]_vars PROVE Rows'
  OBVIOUS
<1>t. /\ qpc \in [Reqs -> QuickPC] /\ qip \in [Reqs -> IPs \cup {NoIP}]
      /\ qslug \in [Reqs -> Slugs \cup {NoSlug}] /\ qbody \in [Reqs -> Bodies]
      /\ tenants \subseteq Slugs /\ svc \in [Slugs -> AuthModes]
      /\ skey \in [Slugs -> PEMs \cup {NoPEM}]
      /\ owned \in [Slugs -> {"none"} \cup Bodies]
      /\ clients = {} /\ codes = {} /\ clients' = {} /\ codes' = {}
  BY DEF TypeOK, StoreTypeOK, TablesTypeOK
<1>r. NoOrphanRows /\ InFlight /\ AnsweredTunnelIsComplete
  BY DEF Rows
<1> USE StoreAssumption, ControlPlaneAssumption
    DEF NotRun, storeVars, tenantRows, quickVars, history
<1>1. ASSUME UNCHANGED tenantRows, UNCHANGED owned,
             \A q \in Reqs : \/ qpc'[q] \in HitPC \cup {"idle", "allowed", "admitted"}
                             \/ /\ qpc'[q] = qpc[q] /\ qslug'[q] = qslug[q]
                                /\ qbody'[q] = qbody[q]
      PROVE  Rows'
  <2>1. NoOrphanRows' /\ AnsweredTunnelIsComplete'
    BY <1>1, <1>r DEF NoOrphanRows, AnsweredTunnelIsComplete
  <2>2. InFlight'
    BY <1>1, <1>r DEF InFlight, HitPC
  <2> QED
    BY <2>1, <2>2 DEF Rows
<1>2. ASSUME NEW s, DeleteTenant(s), UNCHANGED owned, UNCHANGED quickVars PROVE Rows'
  <2>1. NoOrphanRows' /\ AnsweredTunnelIsComplete'
    BY <1>2, <1>r, <1>t DEF NoOrphanRows, AnsweredTunnelIsComplete, DeleteTenant
  <2>2. InFlight'
    BY <1>2, <1>r, <1>t DEF InFlight, DeleteTenant
  <2> QED
    BY <2>1, <2>2 DEF Rows
<1>3. ASSUME NEW r \in Reqs,
             (\E ip \in IPs : QuickWindow(r, ip)) \/ QuickPrune(r) \/ QuickUpsert(r)
      PROVE  Rows'
  BY <1>1, <1>3, <1>t DEF QuickWindow, QuickPrune, QuickUpsert, RatePrune, RateUpsert, Goto, HitPC
<1>4. ASSUME NEW r \in Reqs, QuickReadBack(r) PROVE Rows'
  BY <1>1, <1>4, <1>t DEF QuickReadBack, Return, Goto
<1>5. ASSUME NEW r \in Reqs, QuickCount(r) PROVE Rows'
  BY <1>1, <1>5, <1>t DEF QuickCount, Return
<1>6. ASSUME NEW r \in Reqs, QuickTenant(r) PROVE Rows'
  <2>1. CASE \E s \in Slugs : Fresh(s) /\ CreateTenantExpiry(s, now + TTL)
                               /\ owned' = [owned EXCEPT ![s] = "none"]
    <3>1. PICK s \in Slugs : /\ Fresh(s) /\ CreateTenantExpiry(s, now + TTL)
                             /\ owned' = [owned EXCEPT ![s] = "none"]
      BY <2>1
    <3>2. svc[s] = "none"
      BY <3>1, <1>r DEF Fresh, NoOrphanRows
    <3>3. NoOrphanRows' /\ AnsweredTunnelIsComplete'
      BY <3>1, <1>r, <1>t DEF CreateTenantExpiry, NoOrphanRows, AnsweredTunnelIsComplete
    <3>4. InFlight'
      <4>1. /\ qpc'[r] \in {"idle", "tenant"}
            /\ qpc'[r] = "tenant" => qslug'[r] \in Slugs
        BY <1>6, <1>t DEF QuickTenant, Return
      <4>2. \A q \in Reqs \ {r} : qpc'[q] = qpc[q] /\ qip'[q] = qip[q] /\ qslug'[q] = qslug[q]
                                  /\ qbody'[q] = qbody[q]
        BY <1>6, <1>t DEF QuickTenant, Return
      <4>3. svc' = svc /\ tenants' = tenants \cup {s} /\ \A q \in Reqs : qslug[q] # s
        BY <3>1 DEF CreateTenantExpiry, Fresh
      <4> QED
        BY <4>1, <4>2, <4>3, <1>r DEF InFlight
    <3> QED
      BY <3>3, <3>4 DEF Rows
  <2>2. CASE UNCHANGED storeVars /\ UNCHANGED owned
    BY <1>1, <1>6, <2>2, <1>t DEF QuickTenant, Return, CreateTenantExpiry
  <2>3. CASE UNCHANGED storeVars /\ \E s \in Slugs : Fresh(s) /\ owned' = [owned EXCEPT ![s] = "none"]
    <3>1. PICK s \in Slugs : Fresh(s) /\ owned' = [owned EXCEPT ![s] = "none"]
      BY <2>3
    <3>2. NoOrphanRows' /\ AnsweredTunnelIsComplete'
      BY <2>3, <3>1, <1>r, <1>t DEF Fresh, NoOrphanRows, AnsweredTunnelIsComplete
    <3>3. InFlight'
      <4>1. Return(r)
        BY <1>6, <2>3, <1>t DEF QuickTenant, CreateTenantExpiry
      <4> QED
        BY <4>1, <2>3, <1>r, <1>t DEF Return, InFlight
    <3> QED
      BY <3>2, <3>3 DEF Rows
  <2> QED
    BY <1>6, <2>1, <2>2, <2>3 DEF QuickTenant
<1>7. ASSUME NEW r \in Reqs, QuickService(r) PROVE Rows'
  <2>0. qpc[r] = "tenant" /\ qslug[r] \in Slugs
    BY <1>7, <1>r DEF QuickService, InFlight
  <2> DEFINE s == qslug[r]
  <2>1. CASE UNCHANGED storeVars
    <3>1. UNCHANGED owned /\ Return(r)
      <4>1. ~ CreateService(s, qbody[r]) \/ qbody[r] = "none"
        BY <2>0, <2>1, <1>t DEF CreateService
      <4> QED
        BY <4>1, <1>7, <1>t DEF QuickService, Bodies
    <3> QED
      BY <1>1, <2>1, <3>1, <1>t DEF Return
  <2>2. CASE CreateService(s, qbody[r]) /\ qbody[r] # "unhashable"
    <3>1. s \in tenants /\ svc[s] = "none" /\ qbody[r] \in {"open", "oauth"}
      BY <2>2, <1>t DEF CreateService, Bodies
    <3>2. owned[s] = "none"
      BY <3>1, <2>0, <1>t, <1>r DEF AnsweredTunnelIsComplete
    <3>3. NoOrphanRows'
      BY <2>2, <2>0, <1>t, <1>r DEF CreateService, NoOrphanRows
    <3>4. \/ UNCHANGED owned
          \/ owned' = [owned EXCEPT ![s] = qbody[r]] /\ qbody[r] = "open"
      BY <1>7 DEF QuickService, Created
    <3>5. AnsweredTunnelIsComplete'
      BY <3>1, <3>2, <3>4, <2>2, <2>0, <1>t, <1>r DEF CreateService, AnsweredTunnelIsComplete
    <3>6. /\ Return(r) \/ (Goto(r, "service") /\ qbody[r] = "oauth")
      BY <1>7, <3>1 DEF QuickService, Created
    <3>7. InFlight'
      <4>1. svc' = [svc EXCEPT ![s] = qbody[r]] /\ tenants' = tenants
        BY <2>2 DEF CreateService
      <4>2. ASSUME NEW q \in Reqs, q # r
            PROVE  /\ qpc'[q] = qpc[q] /\ qip'[q] = qip[q] /\ qslug'[q] = qslug[q]
                   /\ qbody'[q] = qbody[q]
        BY <3>6, <4>2, <1>t DEF Return, Goto
      <4>3. ASSUME NEW q \in Reqs, q # r, qpc[q] = "service"
            PROVE  qslug[q] \in tenants => svc'[qslug[q]] = "oauth"
        BY <4>1, <4>3, <3>1, <2>0, <1>t, <1>r DEF InFlight
      <4>4. /\ qpc'[r] \in {"idle", "service"}
            /\ qpc'[r] = "service" => /\ qslug'[r] = s /\ qbody'[r] = "oauth"
                                      /\ svc'[s] = "oauth"
        BY <3>6, <4>1, <2>0, <1>t DEF Return, Goto
      <4> QED
        BY <4>1, <4>2, <4>3, <4>4, <2>0, <1>r DEF InFlight
    <3> QED
      BY <3>3, <3>5, <3>7 DEF Rows
  <2> QED
    BY <1>7, <2>1, <2>2 DEF QuickService
<1>8. ASSUME NEW r \in Reqs, QuickSigningKey(r) PROVE Rows'
  <2>0. qpc[r] = "service" /\ qslug[r] \in Slugs /\ qbody[r] = "oauth"
        /\ (qslug[r] \in tenants => svc[qslug[r]] = "oauth")
    BY <1>8, <1>r DEF QuickSigningKey, InFlight
  <2> DEFINE s == qslug[r]
  <2>1. Return(r) /\ (UNCHANGED owned \/ owned' = [owned EXCEPT ![s] = "oauth"])
    BY <1>8, <2>0 DEF QuickSigningKey, Created
  <2>2. CASE UNCHANGED storeVars /\ UNCHANGED owned
    BY <1>1, <2>1, <2>2, <1>t DEF Return
  <2>3. CASE \E pem \in PEMs : CreateSigningKey(s, pem)
    <3>1. /\ s \in tenants /\ skey'[s] # NoPEM /\ tenants' = tenants /\ svc' = svc
          /\ \A x \in Slugs : x # s => skey'[x] = skey[x]
      BY <2>3, <2>0, <1>t DEF CreateSigningKey
    <3>2. NoOrphanRows'
      BY <3>1, <1>t, <1>r DEF NoOrphanRows
    <3>3. AnsweredTunnelIsComplete'
      BY <3>1, <2>0, <2>1, <1>t, <1>r DEF AnsweredTunnelIsComplete
    <3>4. InFlight'
      BY <3>1, <2>1, <1>t, <1>r DEF InFlight, Return
    <3> QED
      BY <3>2, <3>3, <3>4 DEF Rows
  <2> QED
    BY <1>8, <2>2, <2>3 DEF QuickSigningKey
<1>9. ASSUME NEW d \in Dels, DeleteRun(d) \/ \E s \in Slugs : DeleteValidate(d, s)
      PROVE  Rows'
  BY <1>1, <1>2, <1>9 DEF DeleteRun, DeleteValidate
<1>10. ASSUME NEW s \in Slugs, Kill(s) \/ JanitorDelete(s) PROVE Rows'
  BY <1>1, <1>2, <1>10 DEF Kill, JanitorDelete
<1>11. ASSUME JanitorSelect PROVE Rows'
  BY <1>1, <1>11 DEF JanitorSelect
<1>12. ASSUME Clock PROVE Rows'
  BY <1>1, <1>12 DEF Clock, Tick
<1>13. ASSUME Crash PROVE Rows'
  BY <1>1, <1>13 DEF Crash
<1>14. CASE UNCHANGED vars
  BY <1>1, <1>14 DEF vars
<1> QED
  BY <1>3, <1>4, <1>5, <1>6, <1>7, <1>8, <1>9, <1>10, <1>11, <1>12, <1>13, <1>14
     DEF Next, QuickStep

-----------------------------------------------------------------------------
(* The inductive invariant of the control plane.                           *)
IInv == TypeOK /\ LiveBound /\ WindowsRead /\ CounterCovers /\ Rows

(* An empty database satisfies it.                                         *)
LEMMA InitInv == Init => IInv
<1> SUFFICES ASSUME Init PROVE IInv
  OBVIOUS
<1>z. 0 \in Windows /\ 0 \in 0..MaxTime
  BY StoreAssumption, Z3 DEF Windows, Window
<1>1. TypeOK
  BY <1>z, ControlPlaneAssumption
     DEF Init, StoreInit, TypeOK, StoreTypeOK, TablesTypeOK, AuthModes, QuickPC, Bodies
<1>2. LiveBound
  <2>1. LiveTenants = {} /\ Admitted = {}
    BY DEF Init, StoreInit, LiveTenants, Admitted
  <2>2. CountLiveTenants = 0 /\ Cardinality(Admitted) = 0
    BY <2>1, FS_EmptySet DEF CountLiveTenants
  <2> QED
    BY <2>2, <1>1, Counted, ControlPlaneAssumption DEF LiveBound
<1>3. WindowsRead /\ CounterCovers
  <2>1. WindowsRead /\ \A ip \in IPs, w \in Windows : Hitting(ip, w) = {}
    BY DEF Init, Hitting, WindowsRead, HitPC
  <2>2. \A ip \in IPs, w \in Windows : Cardinality(Hitting(ip, w)) = 0
    BY <2>1, FS_EmptySet
  <2> QED
    BY <2>1, <2>2, ControlPlaneAssumption DEF Init, StoreInit, CounterCovers
<1>4. Rows
  BY DEF Init, StoreInit, Rows, NoOrphanRows, InFlight, AnsweredTunnelIsComplete
<1> QED
  BY <1>1, <1>2, <1>3, <1>4 DEF IInv

(* The inductive invariant holds in every reachable state.                 *)
THEOREM Invariance == Spec => []IInv
<1>1. IInv /\ [Next]_vars => IInv'
  <2> SUFFICES ASSUME IInv, [Next]_vars PROVE IInv'
    OBVIOUS
  <2>1. TypeOK /\ TypeOK'
    BY TypeStep DEF IInv
  <2> QED
    BY <2>1, LiveStep, RateStep, RowsStep DEF IInv
<1> QED
  BY <1>1, InitInv, PTL DEF Spec

(* Type correctness of the tables and of every goroutine's locals.         *)
THEOREM TypeCorrect == Spec => []TypeOK
<1>1. IInv => TypeOK
  BY DEF IInv
<1> QED
  BY <1>1, Invariance, PTL

(* handleQuick exceeds maxLiveTunnels by fewer tenants than there are      *)
(* concurrent handlers, whatever the cap and however many handlers.        *)
THEOREM Overshoot == Spec => []LiveOvershoot
<1>1. IInv => LiveOvershoot
  BY Counted, ControlPlaneAssumption DEF IInv, LiveBound, LiveOvershoot
<1> QED
  BY <1>1, Invariance, PTL

(* The persisted counter admits no more than quickRateLimit requests of    *)
(* one address in one window until the window can be pruned, and fewer     *)
(* than one per handler on top of that afterwards.                         *)
THEOREM RateLimitHolds == Spec => []RateOvershoot
<1>1. IInv => RateOvershoot
  <2> SUFFICES ASSUME TypeOK, CounterCovers, NEW ip \in IPs, NEW w \in Windows
               PROVE  passed[ip][w] <= IF w + 2 < Window(now)
                                       THEN RateLimit + Cardinality(Reqs) - 1 ELSE RateLimit
    BY DEF IInv, RateOvershoot
  <2>1. passed[ip][w] \in Nat /\ rate[ip][w] \in Nat
    BY DEF TypeOK, StoreTypeOK, TablesTypeOK
  <2>2. Cardinality(Reqs) \in Nat /\ Cardinality(Reqs) # 0 /\ RateLimit \in Nat
    BY FS_EmptySet, FS_CardinalityType, ControlPlaneAssumption
  <2> QED
    BY <2>1, <2>2, HitsCounted DEF CounterCovers
<1> QED
  BY <1>1, Invariance, PTL

(* No row outlives its tenant.                                             *)
THEOREM ReferentialIntegrity == Spec => []NoOrphanRows
<1>1. IInv => NoOrphanRows
  BY DEF IInv, Rows
<1> QED
  BY <1>1, Invariance, PTL

(* Every tunnel answered 201 has its service and, when gated, its key.     *)
THEOREM AnswersAreTrue == Spec => []AnsweredTunnelIsComplete
<1>1. IInv => AnsweredTunnelIsComplete
  BY DEF IInv, Rows
<1> QED
  BY <1>1, Invariance, PTL
=============================================================================
