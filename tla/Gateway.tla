------------------------------ MODULE Gateway ------------------------------
(***************************************************************************)
(* internal/gateway: the registry of agent sessions.  Every agent          *)
(* connection is served by its own ServeHTTP goroutine (a member of Conns, *)
(* which also names that goroutine's yamux session); every proxied request *)
(* asks for a stream with Dial (a member of Dials).  Only the map          *)
(* operations hold g.mu: the store lookup, the websocket upgrade, the      *)
(* yamux handshake, old.Close() and sess.Open() all run outside it, so each *)
(* of them is a step of its own here.                                      *)
(*                                                                         *)
(* A connection name whose handler returned may be used again once nothing *)
(* refers to it, so a finite set of names stands for an unbounded history  *)
(* of connections.                                                         *)
(***************************************************************************)
CONSTANTS
    Keys,     \* sessionKey values: one (tenant, service) pair each
    Conns,    \* agent connections
    Dials,    \* callers of Dial
    NoConn    \* the nil *yamux.Session

ASSUME NoConnAssumption == NoConn \notin Conns

VARIABLES
    hpc,      \* where each connection's ServeHTTP is
    ckey,     \* the sessionKey each connection presented
    old,      \* register's local: the session it displaced
    open,     \* sessions whose gateway end is open
    sessions, \* g.sessions
    dpc,      \* where each Dial is
    dkey,     \* the key each Dial asked for
    dsess     \* the session pointer each Dial holds

connVars == <<hpc, ckey, old>>
dialVars == <<dpc, dkey, dsess>>
vars == <<connVars, open, sessions, dialVars>>

HandlerPC == {"idle", "arrived", "validated", "opened", "closing", "serving"}
DialPC == {"idle", "looked", "stream", "offline"}

(* Handlers that executed register's critical section and not yet          *)
(* unregister's.                                                           *)
Registered == {"closing", "serving"}

(* No handler, registry entry or caller of Dial refers to c any more.      *)
Unused(c) ==
    /\ hpc[c] = "idle"
    /\ \A c2 \in Conns : old[c2] # c
    /\ \A d \in Dials : dsess[d] # c

Init ==
    /\ hpc = [c \in Conns |-> "idle"]
    /\ \E k \in Keys : /\ ckey = [c \in Conns |-> k]
                      /\ dkey = [d \in Dials |-> k]
    /\ old = [c \in Conns |-> NoConn]
    /\ open = {}
    /\ sessions = [k \in Keys |-> NoConn]
    /\ dpc = [d \in Dials |-> "idle"]
    /\ dsess = [d \in Dials |-> NoConn]

-----------------------------------------------------------------------------
(* ServeHTTP, one action per step that another goroutine can separate.     *)

(* An agent's request reaches the handler.                                 *)
Arrive(c, k) ==
    /\ Unused(c)
    /\ hpc' = [hpc EXCEPT ![c] = "arrived"]
    /\ ckey' = [ckey EXCEPT ![c] = k]
    /\ UNCHANGED <<old, open, sessions, dialVars>>

(* ValidateAgentKey: an unknown tenant, a wrong key and a store error all  *)
(* answer 401.  What the store knows is not part of this module.           *)
Validate(c) ==
    /\ hpc[c] = "arrived"
    /\ \E answer \in {"validated", "idle"} : hpc' = [hpc EXCEPT ![c] = answer]
    /\ UNCHANGED <<ckey, old, open, sessions, dialVars>>

(* websocket.Accept and yamux.Client; either may fail and end the handler. *)
Upgrade(c) ==
    /\ hpc[c] = "validated"
    /\ \/ /\ hpc' = [hpc EXCEPT ![c] = "opened"]
          /\ open' = open \cup {c}
       \/ /\ hpc' = [hpc EXCEPT ![c] = "idle"]
          /\ UNCHANGED open
    /\ UNCHANGED <<ckey, old, sessions, dialVars>>

(* Seeded bug: the displaced session is forgotten.                         *)
RegisterForgetsOld(c) ==
    /\ hpc[c] = "opened"
    /\ hpc' = [hpc EXCEPT ![c] = "serving"]
    /\ sessions' = [sessions EXCEPT ![ckey[c]] = c]
    /\ UNCHANGED <<ckey, old, open, dialVars>>

(* register's critical section: swap the map entry, remember the old one.  *)
Register(c) ==
    /\ hpc[c] = "opened"
    /\ LET prev == sessions[ckey[c]] IN
       /\ old' = [old EXCEPT ![c] = prev]
       /\ hpc' = [hpc EXCEPT ![c] = IF prev = NoConn THEN "serving" ELSE "closing"]
    /\ sessions' = [sessions EXCEPT ![ckey[c]] = c]
    /\ UNCHANGED <<ckey, open, dialVars>>

(* old.Close(), after register released g.mu.  Closing twice is harmless.  *)
CloseOld(c) ==
    /\ hpc[c] = "closing"
    /\ open' = open \ {old[c]}
    /\ old' = [old EXCEPT ![c] = NoConn]
    /\ hpc' = [hpc EXCEPT ![c] = "serving"]
    /\ UNCHANGED <<ckey, sessions, dialVars>>

(* The websocket breaks, the keepalive times out or the agent hangs up:    *)
(* yamux closes the session.                                               *)
Drop(c) ==
    /\ c \in open
    /\ open' = open \ {c}
    /\ UNCHANGED <<connVars, sessions, dialVars>>

(* Seeded bugs: the entry is deleted whoever it belongs to, or never.      *)
UnregisterAlways(c) ==
    /\ hpc[c] = "serving" /\ c \notin open
    /\ sessions' = [sessions EXCEPT ![ckey[c]] = NoConn]
    /\ hpc' = [hpc EXCEPT ![c] = "idle"]
    /\ UNCHANGED <<ckey, old, open, dialVars>>
UnregisterNever(c) ==
    /\ hpc[c] = "serving" /\ c \notin open
    /\ hpc' = [hpc EXCEPT ![c] = "idle"]
    /\ UNCHANGED <<ckey, old, open, sessions, dialVars>>

(* CloseChan fires; unregister deletes the entry only if it is still ours. *)
Unregister(c) ==
    /\ hpc[c] = "serving"
    /\ c \notin open
    /\ sessions' = IF sessions[ckey[c]] = c
                   THEN [sessions EXCEPT ![ckey[c]] = NoConn]
                   ELSE sessions
    /\ hpc' = [hpc EXCEPT ![c] = "idle"]
    /\ UNCHANGED <<ckey, old, open, dialVars>>

-----------------------------------------------------------------------------
(* Seeded bug: the key leaves out the tenant, so any agent will do.        *)
DialLookupAnyTenant(d, k) ==
    /\ dpc[d] = "idle"
    /\ dkey' = [dkey EXCEPT ![d] = k]
    /\ \E k2 \in Keys :
         /\ dsess' = [dsess EXCEPT ![d] = sessions[k2]]
         /\ dpc' = [dpc EXCEPT ![d] = IF sessions[k2] = NoConn THEN "offline" ELSE "looked"]
    /\ UNCHANGED <<connVars, open, sessions>>

(* Dial reads the map under g.mu ...                                       *)
DialLookup(d, k) ==
    /\ dpc[d] = "idle"
    /\ dkey' = [dkey EXCEPT ![d] = k]
    /\ dsess' = [dsess EXCEPT ![d] = sessions[k]]
    /\ dpc' = [dpc EXCEPT ![d] = IF sessions[k] = NoConn THEN "offline" ELSE "looked"]
    /\ UNCHANGED <<connVars, open, sessions>>

(* ... and opens the stream after releasing it: the session may have been  *)
(* closed or replaced in between, and Open fails on a closed session.      *)
DialOpen(d) ==
    /\ dpc[d] = "looked"
    /\ IF dsess[d] \in open
       THEN /\ dpc' = [dpc EXCEPT ![d] = "stream"]
            /\ UNCHANGED dsess
       ELSE /\ dpc' = [dpc EXCEPT ![d] = "offline"]
            /\ dsess' = [dsess EXCEPT ![d] = NoConn]
    /\ UNCHANGED <<connVars, open, sessions, dkey>>

(* The caller is done with the stream or has answered 502.                 *)
DialEnd(d) ==
    /\ dpc[d] \in {"stream", "offline"}
    /\ dpc' = [dpc EXCEPT ![d] = "idle"]
    /\ dsess' = [dsess EXCEPT ![d] = NoConn]
    /\ UNCHANGED <<connVars, open, sessions, dkey>>

HandlerStep(c) ==
    Validate(c) \/ Upgrade(c) \/ Register(c) \/ CloseOld(c) \/ Unregister(c)

Next ==
    \/ \E c \in Conns, k \in Keys : Arrive(c, k)
    \/ \E c \in Conns : HandlerStep(c)
    \/ \E c \in Conns : Drop(c)
    \/ \E d \in Dials, k \in Keys : DialLookup(d, k)
    \/ \E d \in Dials : DialOpen(d) \/ DialEnd(d)

Spec == Init /\ [][Next]_vars

-----------------------------------------------------------------------------
TypeOK ==
    /\ hpc \in [Conns -> HandlerPC]
    /\ ckey \in [Conns -> Keys]
    /\ old \in [Conns -> Conns \cup {NoConn}]
    /\ open \subseteq Conns
    /\ sessions \in [Keys -> Conns \cup {NoConn}]
    /\ dpc \in [Dials -> DialPC]
    /\ dkey \in [Dials -> Keys]
    /\ dsess \in [Dials -> Conns \cup {NoConn}]

(* A registered session is always owned by a handler that is still going   *)
(* to unregister it: unregister's `only if still ours' test leaves no stale *)
(* entry behind, however registrations and closes of one key interleave.   *)
EntryHasOwner ==
    \A k \in Keys : sessions[k] # NoConn =>
        /\ hpc[sessions[k]] \in Registered
        /\ ckey[sessions[k]] = k

(* `A reconnecting agent takes over from its stale predecessor': a handler *)
(* past register whose session is open is the registered one of its key or *)
(* is held by a replacer that has still to close it.  No open session is   *)
(* left that neither Dial can reach nor anyone will close.                 *)
NoOrphanSession ==
    \A c \in Conns : (hpc[c] \in Registered /\ c \in open) =>
        \/ sessions[ckey[c]] = c
        \/ \E c2 \in Conns : hpc[c2] = "closing" /\ old[c2] = c

(* Dial never hands a request to another tenant's or service's agent, even *)
(* when the session it looked up was replaced before Open.                 *)
StreamReachesDialedKey ==
    \A d \in Dials : dpc[d] \in {"looked", "stream"} => ckey[dsess[d]] = dkey[d]

(* `A dying old session cannot evict its replacement': an entry becomes    *)
(* nil only when its own session is closed.                                *)
OnlyDeadSessionsUnregistered ==
    [][\A k \in Keys : (sessions[k] # NoConn /\ sessions'[k] = NoConn)
            => sessions[k] \notin open]_vars

-----------------------------------------------------------------------------
(* The inductive strengthening of the safety invariants: an open session   *)
(* has a handler that watches its CloseChan, and a Dial holding a session  *)
(* pointer holds a non-nil one.                                            *)
OpenHasHandler == \A c \in open : hpc[c] \in {"opened"} \cup Registered

HeldSession == \A d \in Dials : dpc[d] \in {"looked", "stream"} => dsess[d] \in Conns

IInv ==
    /\ TypeOK
    /\ OpenHasHandler
    /\ HeldSession
    /\ EntryHasOwner
    /\ NoOrphanSession
    /\ StreamReachesDialedKey
=============================================================================
