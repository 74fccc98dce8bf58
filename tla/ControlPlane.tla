---------------------------- MODULE ControlPlane ----------------------------
(***************************************************************************)
(* internal/controlplane with the processes that share its tables: the     *)
(* janitor goroutine and the kill switch of cmd/tunneld.  A quick-tunnel   *)
(* creation (a member of Reqs, a handler slot that serves request after    *)
(* request) and a deletion (Dels) take one action per store call; the      *)
(* values they read stay in locals until the statement that depends on     *)
(* them.  tunneld may crash and restart at any point: handlers and the     *)
(* janitor's work list are lost, the tables are not.                       *)
(*                                                                         *)
(* Slugs are drawn from 36^10 values, so a slug that anyone still refers   *)
(* to is never drawn again (see Fresh); a finite set of names suffices.    *)
(***************************************************************************)
EXTENDS Store

CONSTANTS
    Reqs,        \* handleQuick goroutines
    Dels,        \* handleDelete goroutines
    NoSlug,
    NoIP,
    MaxLive,     \* maxLiveTunnels
    RateLimit,   \* quickRateLimit
    TTL,         \* QuickTTL, in clock ticks
    MaxRequests, \* bound: creations asked for
    MaxFaults    \* bound: store errors and crashes

ASSUME ControlPlaneAssumption ==
    /\ NoSlug \notin Slugs
    /\ NoIP \notin IPs
    /\ IsFiniteSet(Slugs)
    /\ IsFiniteSet(Reqs) /\ Reqs # {}
    /\ MaxLive \in Nat \ {0}
    /\ RateLimit \in Nat
    /\ TTL \in Nat \ {0}
    /\ MaxRequests \in Nat
    /\ MaxFaults \in Nat

VARIABLES
    qpc, qip, qwin, qbody, qslug,  \* handleQuick: pc and locals
    dlpc, dlslug,                  \* handleDelete: pc and tenant
    jlist,                         \* DeleteExpiredTenants' slugs still to delete
    requests, faults,              \* how many have happened
    passed,   \* history: requests the counter admitted, per address and window
    owned     \* history: slugs answered 201, with their auth mode

quickVars == <<qpc, qip, qwin, qbody, qslug>>
delVars == <<dlpc, dlslug>>
history == <<passed, owned>>
vars == <<now, storeVars, quickVars, delVars, jlist, requests, faults, history>>

(* The pcs inside QuickRateHit, and all of them.                           *)
HitPC == {"window", "pruned", "hit"}
QuickPC == HitPC \cup {"idle", "allowed", "admitted", "tenant", "service"}

(* What a usable body asks for: an open tunnel, a gated one, or a gated    *)
(* one whose password bcrypt refuses (over 72 bytes).                      *)
Bodies == {"open", "oauth", "unhashable"}

Init ==
    /\ StoreInit
    /\ qpc = [r \in Reqs |-> "idle"]
    /\ qip = [r \in Reqs |-> NoIP]
    /\ qwin = [r \in Reqs |-> 0]
    /\ qbody = [r \in Reqs |-> "open"]
    /\ qslug = [r \in Reqs |-> NoSlug]
    /\ dlpc = [d \in Dels |-> "idle"]
    /\ dlslug = [d \in Dels |-> NoSlug]
    /\ jlist = {}
    /\ requests = 0
    /\ faults = 0
    /\ passed = [ip \in IPs |-> [w \in Windows |-> 0]]
    /\ owned = [s \in Slugs |-> "none"]

(* A store call fails.  With SQLite it did nothing; with D1 the statement  *)
(* may have run and only its answer been lost.                             *)
Fault == faults < MaxFaults /\ faults' = faults + 1
NoFault == UNCHANGED faults
NotRun == UNCHANGED storeVars

(* r's handler writes its response and its goroutine is free again.        *)
Return(r) ==
    /\ qpc' = [qpc EXCEPT ![r] = "idle"]
    /\ qip' = [qip EXCEPT ![r] = NoIP]
    /\ qwin' = [qwin EXCEPT ![r] = 0]
    /\ qbody' = [qbody EXCEPT ![r] = "open"]
    /\ qslug' = [qslug EXCEPT ![r] = NoSlug]

Goto(r, pc) ==
    /\ qpc' = [qpc EXCEPT ![r] = pc]
    /\ UNCHANGED <<qip, qwin, qbody, qslug>>

-----------------------------------------------------------------------------
(* handleQuick                                                             *)

(* Seeded bug: the window is rounded up.                                   *)
QuickWindowRoundsUp(r, ip) ==
    /\ qpc[r] = "idle"
    /\ requests < MaxRequests /\ requests' = requests + 1
    /\ qip' = [qip EXCEPT ![r] = ip]
    /\ qwin' = [qwin EXCEPT ![r] = Window(now) + 1]
    /\ qpc' = [qpc EXCEPT ![r] = "window"]
    /\ UNCHANGED <<now, storeVars, qbody, qslug, delVars, jlist, faults, history>>

(* allowQuick: time.Now() fixes the window, however late the statements    *)
(* below run.                                                              *)
QuickWindow(r, ip) ==
    /\ qpc[r] = "idle"
    /\ requests < MaxRequests /\ requests' = requests + 1
    /\ qip' = [qip EXCEPT ![r] = ip]
    /\ qwin' = [qwin EXCEPT ![r] = Window(now)]
    /\ qpc' = [qpc EXCEPT ![r] = "window"]
    /\ UNCHANGED <<now, storeVars, qbody, qslug, delVars, jlist, faults, history>>

(* QuickRateHit: the prune ...                                             *)
QuickPrune(r) ==
    /\ qpc[r] = "window"
    /\ \/ RatePrune(qwin[r]) /\ NoFault /\ Goto(r, "pruned")
       \/ Fault /\ (RatePrune(qwin[r]) \/ NotRun) /\ Goto(r, "allowed")
    /\ UNCHANGED <<requests, now, delVars, jlist, history>>

(* ... and the upsert.  An error of any of the three statements makes      *)
(* allowQuick fail open.                                                   *)
QuickUpsert(r) ==
    /\ qpc[r] = "pruned"
    /\ \/ RateUpsert(qip[r], qwin[r]) /\ NoFault /\ Goto(r, "hit")
       \/ Fault /\ (RateUpsert(qip[r], qwin[r]) \/ NotRun) /\ Goto(r, "allowed")
    /\ UNCHANGED <<requests, now, delVars, jlist, history>>

(* The read-back, and allowQuick's verdict on it.  A missing row and a     *)
(* store error fail open; a count over the limit is answered 429.          *)
QuickReadBack(r) ==
    /\ qpc[r] = "hit"
    /\ LET count == rate[qip[r]][qwin[r]] IN
       \/ /\ count \in 1..RateLimit
          /\ Goto(r, "allowed")
          /\ passed' = [passed EXCEPT ![qip[r]][qwin[r]] = @ + 1]
          /\ NoFault
       \/ /\ count > RateLimit
          /\ Return(r)
          /\ NoFault
          /\ UNCHANGED passed
       \/ /\ (count = 0 /\ NoFault) \/ Fault
          /\ Goto(r, "allowed")
          /\ UNCHANGED passed
    /\ UNCHANGED <<requests, now, storeVars, delVars, jlist, owned>>

(* Seeded bug: no capacity test.                                           *)
QuickCountUncapped(r) ==
    /\ qpc[r] = "allowed"
    /\ \E body \in Bodies : qbody' = [qbody EXCEPT ![r] = body]
    /\ qpc' = [qpc EXCEPT ![r] = "admitted"]
    /\ UNCHANGED <<requests, now, storeVars, qip, qwin, qslug, delVars, jlist, faults, history>>

(* CountLiveTenants and the capacity test, then the body.  The handler     *)
(* ends here with 503 at capacity, and may end here with 500 on a store    *)
(* error or 400 for a body it cannot use.                                  *)
QuickCount(r) ==
    /\ qpc[r] = "allowed"
    /\ \/ /\ CountLiveTenants < MaxLive
          /\ \E body \in Bodies : qbody' = [qbody EXCEPT ![r] = body]
          /\ qpc' = [qpc EXCEPT ![r] = "admitted"]
          /\ NoFault
          /\ UNCHANGED <<qip, qwin, qslug>>
       \/ /\ NoFault
          /\ Return(r)
    /\ UNCHANGED <<requests, now, storeVars, delVars, jlist, history>>

(* A slug that is free and that nobody refers to.                          *)
Fresh(s) ==
    /\ s \notin tenants \cup jlist
    /\ \A r \in Reqs : qslug[r] # s
    /\ \A d \in Dels : dlslug[d] # s

(* createQuickTenant: draws until the INSERT succeeds; ten collisions or a *)
(* store error answer 500.                                                 *)
QuickTenant(r) ==
    /\ qpc[r] = "admitted"
    /\ \/ \E s \in Slugs :
            /\ Fresh(s)
            /\ \/ /\ NoFault
                  /\ CreateTenantExpiry(s, now + TTL)
                  /\ qpc' = [qpc EXCEPT ![r] = "tenant"]
                  /\ qslug' = [qslug EXCEPT ![r] = s]
                  /\ UNCHANGED <<qip, qwin, qbody>>
               \/ /\ Fault /\ (CreateTenantExpiry(s, now + TTL) \/ NotRun)
                  /\ Return(r)
            /\ owned' = [owned EXCEPT ![s] = "none"]
       \/ /\ ~ \E s \in Slugs : Fresh(s)
          /\ Return(r)
          /\ NoFault
          /\ UNCHANGED <<storeVars, owned>>
    /\ UNCHANGED <<requests, now, delVars, jlist, passed>>

(* The 201 answer hands the slug and its agent key to the client.          *)
Created(r) ==
    /\ Return(r)
    /\ owned' = [owned EXCEPT ![qslug[r]] = qbody[r]]

(* Seeded bug: a gated tunnel is announced before it has a signing key.    *)
QuickServiceAnswersEarly(r) ==
    /\ qpc[r] = "tenant"
    /\ qbody[r] # "unhashable"
    /\ CreateService(qslug[r], qbody[r])
    /\ Created(r)
    /\ UNCHANGED <<requests, now, delVars, jlist, faults, passed>>

(* HashSecret, then CreateService: 500 when bcrypt refuses the password,   *)
(* when the tenant is gone by now, or on a store error; the tenant row     *)
(* stays behind.                                                           *)
QuickService(r) ==
    /\ qpc[r] = "tenant"
    /\ \/ /\ qbody[r] # "unhashable"
          /\ CreateService(qslug[r], qbody[r])
          /\ NoFault
          /\ IF qbody[r] = "open" THEN Created(r)
             ELSE Goto(r, "service") /\ UNCHANGED owned
       \/ /\ qbody[r] = "unhashable" \/ qslug[r] \notin tenants
          /\ NoFault
          /\ Return(r)
          /\ UNCHANGED <<storeVars, owned>>
       \/ /\ qbody[r] # "unhashable"
          /\ Fault /\ (CreateService(qslug[r], qbody[r]) \/ NotRun)
          /\ Return(r)
          /\ UNCHANGED owned
    /\ UNCHANGED <<requests, now, delVars, jlist, passed>>

(* GenerateKey and CreateSigningKey, for gated tunnels.                    *)
QuickSigningKey(r) ==
    /\ qpc[r] = "service"
    /\ \E pem \in PEMs :
       \/ CreateSigningKey(qslug[r], pem) /\ NoFault /\ Created(r)
       \/ /\ qslug[r] \notin tenants
          /\ NoFault
          /\ Return(r)
          /\ UNCHANGED <<storeVars, owned>>
       \/ /\ Fault /\ (CreateSigningKey(qslug[r], pem) \/ NotRun)
          /\ Return(r)
          /\ UNCHANGED owned
    /\ UNCHANGED <<requests, now, delVars, jlist, passed>>

-----------------------------------------------------------------------------
(* handleDelete: ValidateAgentKey (401 unless the service row is there and *)
(* the caller has its key, which it got with the 201) ...                  *)
DeleteValidate(d, s) ==
    /\ dlpc[d] = "idle"
    /\ owned[s] # "none" /\ svc[s] # "none"
    /\ dlpc' = [dlpc EXCEPT ![d] = "validated"]
    /\ dlslug' = [dlslug EXCEPT ![d] = s]
    /\ UNCHANGED <<requests, now, storeVars, quickVars, jlist, faults, history>>

(* ... then DeleteTenant: 204 when it deleted the row, 404 when someone    *)
(* else did in between, 500 on a store error.                              *)
DeleteRun(d) ==
    /\ dlpc[d] = "validated"
    /\ \/ DeleteTenant(dlslug[d]) /\ NoFault
       \/ Fault /\ (DeleteTenant(dlslug[d]) \/ NotRun)
    /\ dlpc' = [dlpc EXCEPT ![d] = "idle"]
    /\ dlslug' = [dlslug EXCEPT ![d] = NoSlug]
    /\ UNCHANGED <<requests, now, quickVars, jlist, history>>

(* tunneld -kill-tenant, run by the operator in a process of its own.      *)
Kill(s) ==
    /\ s \in tenants
    /\ DeleteTenant(s)
    /\ UNCHANGED <<requests, now, quickVars, delVars, jlist, faults, history>>

-----------------------------------------------------------------------------
(* Seeded bug: selects through services, so a tenant without one is never  *)
(* swept.                                                                  *)
JanitorSelectServed ==
    LET found == {s \in ExpiredTenants : svc[s] # "none"} IN
    /\ jlist = {} /\ found # {}
    /\ jlist' = found
    /\ UNCHANGED <<requests, now, storeVars, quickVars, delVars, faults, history>>

(* The janitor's tick: DeleteExpiredTenants selects the expired slugs ...  *)
JanitorSelect ==
    /\ jlist = {}
    /\ ExpiredTenants # {}
    /\ \/ jlist' = ExpiredTenants /\ NoFault
       \/ UNCHANGED jlist /\ Fault
    /\ UNCHANGED <<requests, now, storeVars, quickVars, delVars, history>>

(* ... and deletes them one by one; an error abandons the rest of the list *)
(* to the next tick.                                                       *)
JanitorDelete(s) ==
    /\ s \in jlist
    /\ \/ /\ DeleteTenant(s)
          /\ jlist' = jlist \ {s}
          /\ NoFault
       \/ /\ Fault /\ (DeleteTenant(s) \/ NotRun)
          /\ jlist' = {}
    /\ UNCHANGED <<requests, now, quickVars, delVars, history>>

Clock == Tick /\ UNCHANGED <<requests, quickVars, delVars, jlist, faults, history>>

(* tunneld dies: its goroutines are gone, the tables are not.              *)
Crash ==
    /\ Fault
    /\ qpc' = [r \in Reqs |-> "idle"]
    /\ qip' = [r \in Reqs |-> NoIP]
    /\ qwin' = [r \in Reqs |-> 0]
    /\ qbody' = [r \in Reqs |-> "open"]
    /\ qslug' = [r \in Reqs |-> NoSlug]
    /\ dlpc' = [d \in Dels |-> "idle"]
    /\ dlslug' = [d \in Dels |-> NoSlug]
    /\ jlist' = {}
    /\ UNCHANGED <<requests, now, storeVars, history>>

QuickStep(r) ==
    \/ QuickPrune(r) \/ QuickUpsert(r) \/ QuickReadBack(r)
    \/ QuickCount(r) \/ QuickTenant(r) \/ QuickService(r) \/ QuickSigningKey(r)

Next ==
    \/ \E r \in Reqs, ip \in IPs : QuickWindow(r, ip)
    \/ \E r \in Reqs : QuickStep(r)
    \/ \E d \in Dels, s \in Slugs : DeleteValidate(d, s)
    \/ \E d \in Dels : DeleteRun(d)
    \/ \E s \in Slugs : Kill(s) \/ JanitorDelete(s)
    \/ JanitorSelect
    \/ Clock
    \/ Crash

Spec == Init /\ [][Next]_vars

(* The janitor's ticker keeps firing and its goroutine runs.               *)
FairSpec ==
    /\ Spec
    /\ WF_vars(JanitorSelect)
    /\ WF_vars(\E s \in Slugs : JanitorDelete(s))

-----------------------------------------------------------------------------
TypeOK ==
    /\ StoreTypeOK
    /\ clients = {} /\ codes = {}
    /\ qpc \in [Reqs -> QuickPC]
    /\ qip \in [Reqs -> IPs \cup {NoIP}]
    /\ qwin \in [Reqs -> Windows]
    /\ qbody \in [Reqs -> Bodies]
    /\ qslug \in [Reqs -> Slugs \cup {NoSlug}]
    /\ dlpc \in [Dels -> {"idle", "validated"}]
    /\ dlslug \in [Dels -> Slugs \cup {NoSlug}]
    /\ jlist \subseteq Slugs
    /\ requests \in 0..MaxRequests
    /\ faults \in 0..MaxFaults
    /\ passed \in [IPs -> [Windows -> Nat]]
    /\ owned \in [Slugs -> {"none"} \cup Bodies]

(* What the capacity guard really enforces: handlers that passed the test  *)
(* and have not inserted yet may all insert, so the live tenants can       *)
(* exceed the cap by one less than the number of concurrent handlers, and  *)
(* never by more, through errors, crashes, deletions and expiries.         *)
LiveOvershoot == CountLiveTenants <= MaxLive + Cardinality(Reqs) - 1

(* What the persisted counter really enforces (requests let through        *)
(* because the store failed are not its admissions).  Until a window can   *)
(* be pruned, more than two windows after it, at most quickRateLimit       *)
(* requests of an address are admitted in it.  After that a handler that   *)
(* read the clock in that window and stalled before its upsert creates the *)
(* pruned row again, at 1: each such handler may be admitted on top, and   *)
(* there are fewer of them than handlers, as another one pruned the row.   *)
RateOvershoot ==
    \A ip \in IPs, w \in Windows :
        passed[ip][w] <=
            IF w + 2 < Window(now) THEN RateLimit + Cardinality(Reqs) - 1 ELSE RateLimit

(* A tunnel answered 201 is complete for as long as its tenant exists: the *)
(* service is there in the mode that was asked for, and a gated one has a  *)
(* signing key.                                                            *)
AnsweredTunnelIsComplete ==
    \A s \in tenants : owned[s] # "none" =>
        /\ svc[s] = owned[s]
        /\ owned[s] = "oauth" => skey[s] # NoPEM

(* Every tenant row, those of failed creations included, is eventually     *)
(* removed once it has expired.                                            *)
ExpiredEventuallySwept ==
    \A s \in Slugs : (s \in ExpiredTenants) ~> (s \notin ExpiredTenants)

-----------------------------------------------------------------------------
(* The inductive strengthenings.                                           *)

(* Handlers that passed the capacity test and have not inserted yet.       *)
Admitted == {r \in Reqs : qpc[r] = "admitted"}

(* Live tenants and admitted handlers together stay within the overshoot:  *)
(* an insertion moves one unit from the second to the first.               *)
LiveBound == CountLiveTenants + Cardinality(Admitted) <= MaxLive + Cardinality(Reqs) - 1

(* Handlers inside QuickRateHit on one counter, and those of them between  *)
(* the upsert and the read-back.                                           *)
Counting(ip, w) == {r \in Reqs : qpc[r] \in HitPC /\ qip[r] = ip /\ qwin[r] = w}
Hitting(ip, w) == {r \in Reqs : qpc[r] = "hit" /\ qip[r] = ip /\ qwin[r] = w}

(* No handler has read a later window than the clock's.                    *)
WindowsRead ==
    \A r \in Reqs : qpc[r] \in HitPC => qip[r] \in IPs /\ qwin[r] <= Window(now)

(* The counter covers the requests it admitted and those about to read it  *)
(* until its row is pruned, when the window is long over: no handler can   *)
(* join it any more, and those still inside may all be admitted.           *)
CounterCovers ==
    \A ip \in IPs, w \in Windows :
        \/ /\ passed[ip][w] + Cardinality(Hitting(ip, w)) <= rate[ip][w]
           /\ passed[ip][w] <= RateLimit
        \/ /\ w + 2 < Window(now)
           /\ passed[ip][w] + Cardinality(Counting(ip, w)) <= RateLimit + Cardinality(Reqs) - 1

(* What a creation in progress knows of its tenant.                        *)
InFlight ==
    \A r \in Reqs :
        /\ qpc[r] \in {"tenant", "service"} => qslug[r] \in Slugs
        /\ qpc[r] = "service" =>
              /\ qbody[r] = "oauth"
              /\ qslug[r] \in tenants => svc[qslug[r]] = "oauth"
=============================================================================
