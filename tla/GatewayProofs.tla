--------------------------- MODULE GatewayProofs ---------------------------
(***************************************************************************)
(* Proofs about the registry for any number of keys, connections and       *)
(* callers of Dial.                                                        *)
(***************************************************************************)
EXTENDS Gateway, TLAPS

(* Every step of the gateway keeps its variables in their types.           *)
LEMMA TypeStep == TypeOK /\ [Next]_vars => TypeOK'
<1> SUFFICES ASSUME TypeOK, [Next]_vars PROVE TypeOK'
  OBVIOUS
<1> USE NoConnAssumption DEF TypeOK, HandlerPC, DialPC, connVars, dialVars
<1>1. ASSUME NEW c \in Conns, NEW k \in Keys, Arrive(c, k) PROVE TypeOK'
  BY <1>1 DEF Arrive
<1>2. ASSUME NEW c \in Conns, Validate(c) PROVE TypeOK'
  BY <1>2 DEF Validate
<1>3. ASSUME NEW c \in Conns, Upgrade(c) PROVE TypeOK'
  BY <1>3 DEF Upgrade
<1>4. ASSUME NEW c \in Conns, Register(c) PROVE TypeOK'
  BY <1>4 DEF Register
<1>5. ASSUME NEW c \in Conns, CloseOld(c) PROVE TypeOK'
  BY <1>5 DEF CloseOld
<1>6. ASSUME NEW c \in Conns, Unregister(c) PROVE TypeOK'
  BY <1>6 DEF Unregister
<1>7. ASSUME NEW c \in Conns, Drop(c) PROVE TypeOK'
  BY <1>7 DEF Drop
<1>8. ASSUME NEW d \in Dials, NEW k \in Keys, DialLookup(d, k) PROVE TypeOK'
  BY <1>8 DEF DialLookup
<1>9. ASSUME NEW d \in Dials, DialOpen(d) PROVE TypeOK'
  BY <1>9 DEF DialOpen
<1>10. ASSUME NEW d \in Dials, DialEnd(d) PROVE TypeOK'
  BY <1>10 DEF DialEnd
<1>11. CASE UNCHANGED vars
  BY <1>11 DEF vars
<1> QED
  BY <1>1, <1>2, <1>3, <1>4, <1>5, <1>6, <1>7, <1>8, <1>9, <1>10, <1>11 DEF Next, HandlerStep

(* The initial registry is empty, so the invariant holds.                  *)
LEMMA InitInv == Init => IInv
  BY NoConnAssumption
     DEF Init, IInv, TypeOK, HandlerPC, DialPC, OpenHasHandler, HeldSession,
         EntryHasOwner, NoOrphanSession, StreamReachesDialedKey, Registered

(* Every step preserves the inductive invariant, one case per action.      *)
LEMMA StepInv == IInv /\ [Next]_vars => IInv'
<1> SUFFICES ASSUME IInv, [Next]_vars PROVE IInv'
  OBVIOUS
<1>t. TypeOK /\ TypeOK'
  BY TypeStep DEF IInv
<1> DEFINE Rest == OpenHasHandler /\ HeldSession /\ EntryHasOwner
                     /\ NoOrphanSession /\ StreamReachesDialedKey
<1>r. Rest
  BY DEF IInv
<1> USE NoConnAssumption DEF TypeOK, HandlerPC, DialPC, Registered, connVars, dialVars
<1>1. ASSUME NEW c \in Conns, NEW k \in Keys, Arrive(c, k) PROVE Rest'
  <2>1. c \notin open
    BY <1>1, <1>t, <1>r DEF Arrive, Unused, OpenHasHandler
  <2>2. \A q \in Keys : sessions[q] # c
    BY <1>1, <1>t, <1>r DEF Arrive, Unused, EntryHasOwner
  <2>3. OpenHasHandler' /\ HeldSession'
    BY <2>1, <1>1, <1>t, <1>r DEF Arrive, OpenHasHandler, HeldSession
  <2>4. EntryHasOwner'
    BY <2>2, <1>1, <1>t, <1>r DEF Arrive, EntryHasOwner
  <2>5. NoOrphanSession'
    BY <2>1, <1>1, <1>t, <1>r DEF Arrive, Unused, NoOrphanSession
  <2>6. StreamReachesDialedKey'
    BY <1>1, <1>t, <1>r DEF Arrive, Unused, StreamReachesDialedKey
  <2> QED
    BY <2>3, <2>4, <2>5, <2>6
<1>2. ASSUME NEW c \in Conns, Validate(c) PROVE Rest'
  BY <1>2, <1>t, <1>r
     DEF Validate, OpenHasHandler, HeldSession, EntryHasOwner, NoOrphanSession,
         StreamReachesDialedKey
<1>3. ASSUME NEW c \in Conns, Upgrade(c) PROVE Rest'
  BY <1>3, <1>t, <1>r
     DEF Upgrade, OpenHasHandler, HeldSession, EntryHasOwner, NoOrphanSession,
         StreamReachesDialedKey
<1>4. ASSUME NEW c \in Conns, Register(c) PROVE Rest'
  <2> DEFINE k == ckey[c]
  <2>1. k \in Keys /\ sessions[k] # c
    BY <1>4, <1>t, <1>r DEF Register, EntryHasOwner
  <2>2. OpenHasHandler' /\ HeldSession' /\ StreamReachesDialedKey'
    BY <1>4, <1>t, <1>r DEF Register, OpenHasHandler, HeldSession, StreamReachesDialedKey
  <2>3. EntryHasOwner'
    BY <2>1, <1>4, <1>t, <1>r DEF Register, EntryHasOwner
  <2>4. NoOrphanSession'
    <3> SUFFICES ASSUME NEW x \in Conns, hpc'[x] \in Registered, x \in open',
                        sessions'[ckey'[x]] # x
                 PROVE  \E y \in Conns : hpc'[y] = "closing" /\ old'[y] = x
      BY DEF NoOrphanSession
    <3>1. x # c /\ hpc[x] \in Registered /\ x \in open /\ ckey'[x] = ckey[x]
      BY <2>1, <1>4, <1>t DEF Register
    <3>2. CASE sessions[ckey[x]] = x
      <4>1. ckey[x] = k
        BY <3>1, <3>2, <1>4, <1>t DEF Register
      <4>2. hpc'[c] = "closing" /\ old'[c] = x
        BY <4>1, <3>2, <3>1, <1>4, <1>t DEF Register
      <4> QED
        BY <4>2
    <3>3. CASE sessions[ckey[x]] # x
      <4>1. PICK y \in Conns : hpc[y] = "closing" /\ old[y] = x
        BY <3>1, <3>3, <1>r DEF NoOrphanSession
      <4>2. hpc'[y] = "closing" /\ old'[y] = x
        BY <4>1, <1>4, <1>t DEF Register
      <4> QED
        BY <4>2
    <3> QED
      BY <3>2, <3>3
  <2> QED
    BY <2>2, <2>3, <2>4
<1>5. ASSUME NEW c \in Conns, CloseOld(c) PROVE Rest'
  BY <1>5, <1>t, <1>r
     DEF CloseOld, OpenHasHandler, HeldSession, EntryHasOwner, NoOrphanSession,
         StreamReachesDialedKey
<1>6. ASSUME NEW c \in Conns, Unregister(c) PROVE Rest'
  <2>1. OpenHasHandler' /\ HeldSession' /\ StreamReachesDialedKey'
    BY <1>6, <1>t, <1>r DEF Unregister, OpenHasHandler, HeldSession, StreamReachesDialedKey
  <2>2. EntryHasOwner'
    BY <1>6, <1>t, <1>r DEF Unregister, EntryHasOwner
  <2>3. NoOrphanSession'
    BY <1>6, <1>t, <1>r DEF Unregister, NoOrphanSession
  <2> QED
    BY <2>1, <2>2, <2>3
<1>7. ASSUME NEW c \in Conns, Drop(c) PROVE Rest'
  BY <1>7, <1>t, <1>r
     DEF Drop, OpenHasHandler, HeldSession, EntryHasOwner, NoOrphanSession,
         StreamReachesDialedKey
<1>8. ASSUME NEW d \in Dials, NEW k \in Keys, DialLookup(d, k) PROVE Rest'
  <2>1. OpenHasHandler' /\ EntryHasOwner' /\ NoOrphanSession'
    BY <1>8, <1>t, <1>r DEF DialLookup, OpenHasHandler, EntryHasOwner, NoOrphanSession
  <2>2. HeldSession' /\ StreamReachesDialedKey'
    BY <1>8, <1>t, <1>r DEF DialLookup, HeldSession, EntryHasOwner, StreamReachesDialedKey
  <2> QED
    BY <2>1, <2>2
<1>9. ASSUME NEW d \in Dials, DialOpen(d) PROVE Rest'
  BY <1>9, <1>t, <1>r
     DEF DialOpen, OpenHasHandler, HeldSession, EntryHasOwner, NoOrphanSession,
         StreamReachesDialedKey
<1>10. ASSUME NEW d \in Dials, DialEnd(d) PROVE Rest'
  BY <1>10, <1>t, <1>r
     DEF DialEnd, OpenHasHandler, HeldSession, EntryHasOwner, NoOrphanSession,
         StreamReachesDialedKey
<1>11. ASSUME UNCHANGED vars PROVE Rest'
  BY <1>11, <1>r
     DEF vars, OpenHasHandler, HeldSession, EntryHasOwner, NoOrphanSession,
         StreamReachesDialedKey
<1>12. Rest'
  BY <1>1, <1>2, <1>3, <1>4, <1>5, <1>6, <1>7, <1>8, <1>9, <1>10, <1>11
     DEF Next, HandlerStep
<1> QED
  BY <1>12, <1>t DEF IInv

(* The inductive invariant holds in every reachable state.                 *)
THEOREM Invariance == Spec => []IInv
  BY InitInv, StepInv, PTL DEF Spec

(* Type correctness of the registry and of every goroutine's locals.       *)
THEOREM TypeCorrect == Spec => []TypeOK
<1>1. IInv => TypeOK
  BY DEF IInv
<1> QED
  BY <1>1, Invariance, PTL

(* register/unregister leave no entry whose handler has returned.          *)
THEOREM OwnedEntries == Spec => []EntryHasOwner
<1>1. IInv => EntryHasOwner
  BY DEF IInv
<1> QED
  BY <1>1, Invariance, PTL

(* register's takeover leaves no open session that is neither registered   *)
(* nor about to be closed by the handler that replaced it.                 *)
THEOREM NoOrphans == Spec => []NoOrphanSession
<1>1. IInv => NoOrphanSession
  BY DEF IInv
<1> QED
  BY <1>1, Invariance, PTL

(* Dial's stream always leads to an agent of the (tenant, service) dialed. *)
THEOREM StreamRouting == Spec => []StreamReachesDialedKey
<1>1. IInv => StreamReachesDialedKey
  BY DEF IInv
<1> QED
  BY <1>1, Invariance, PTL

(* unregister never removes the entry of a session that is still open.     *)
THEOREM NoEviction == Spec => OnlyDeadSessionsUnregistered
<1> DEFINE Evict == \A k \in Keys : (sessions[k] # NoConn /\ sessions'[k] = NoConn)
                        => sessions[k] \notin open
<1>1. ASSUME IInv, [Next]_vars PROVE [Evict]_vars
  <2> SUFFICES ASSUME NEW k \in Keys, sessions[k] # NoConn, sessions'[k] = NoConn
               PROVE  sessions[k] \notin open
    OBVIOUS
  <2>t. TypeOK
    BY <1>1 DEF IInv
  <2>1. PICK c \in Conns : Register(c) \/ Unregister(c)
    BY <1>1 DEF Next, HandlerStep, Arrive, Validate, Upgrade, CloseOld, Drop, DialLookup,
                DialOpen, DialEnd, vars, connVars, dialVars
  <2>2. Unregister(c)
    BY <2>1, <2>t, NoConnAssumption DEF Register, TypeOK
  <2> QED
    BY <2>2, <2>t DEF Unregister, TypeOK
<1> QED
  BY <1>1, Invariance, PTL DEF Spec, OnlyDeadSessionsUnregistered
=============================================================================
