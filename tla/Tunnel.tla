------------------------------- MODULE Tunnel -------------------------------
(***************************************************************************)
(* The tunnel end to end: internal/agent's Run/serve loop on one side, the *)
(* gateway's handlers on the other, a network between them that may break  *)
(* a connection without telling either end, and a tunneld that may         *)
(* restart.  Each key has one agent process, which dials the gateway,      *)
(* serves the session it gets and dials again when that breaks; the two    *)
(* ends of a connection are closed separately and learn of each other's    *)
(* fate later.  The agent's key is valid as long as its tenant is in the   *)
(* store, from which it may be deleted at any time.  Relay adds the        *)
(* requests that go through the tunnel.                                    *)
(***************************************************************************)
EXTENDS Gateway, Naturals

CONSTANTS
    InitialBackoff,  \* cfg.Reconnect.InitialBackoff
    MaxBackoff,      \* cfg.Reconnect.MaxBackoff
    MaxFaults        \* bound: broken links, failed handshakes and restarts

ASSUME BackoffAssumption ==
    /\ InitialBackoff \in Nat \ {0}
    /\ MaxBackoff \in Nat
    /\ InitialBackoff <= MaxBackoff
ASSUME FaultAssumption == MaxFaults \in Nat

VARIABLES
    apc,      \* where each agent's Run is
    aconn,    \* the connection its serve is dialing or serving
    backoff,  \* Run's local
    cut,      \* connections whose network link is broken
    row,      \* the store: keys whose tenant and service exist
    faults    \* how many faults have happened

agentVars == <<apc, aconn, backoff>>
netVars == <<cut, row, faults>>
tunnelVars == <<vars, agentVars, netVars>>

AgentPC == {"dial", "dialing", "up", "sleep", "stopped"}

Fault == faults < MaxFaults /\ faults' = faults + 1

(* Seeded bug: the backoff is not capped.                                  *)
ClampMissing(b) == b

(* Run's clamp on the doubled backoff.                                     *)
Clamp(b) == IF b > MaxBackoff THEN MaxBackoff ELSE b

(* The agent end of c is closed, or nothing sent over c arrives.           *)
PeerGone(c) == c \in cut \/ \A k \in Keys : aconn[k] # c

TunnelInit ==
    /\ Init
    /\ apc = [k \in Keys |-> "dial"]
    /\ aconn = [k \in Keys |-> NoConn]
    /\ backoff = [k \in Keys |-> InitialBackoff]
    /\ cut = {}
    /\ row = Keys
    /\ faults = 0

-----------------------------------------------------------------------------
(* serve: websocket.Dial sends the upgrade request.                        *)
AgentDial(k, c) ==
    /\ apc[k] = "dial"
    /\ \A k2 \in Keys : aconn[k2] # c
    /\ Arrive(c, k)
    /\ apc' = [apc EXCEPT ![k] = "dialing"]
    /\ aconn' = [aconn EXCEPT ![k] = c]
    /\ cut' = cut \ {c}
    /\ UNCHANGED <<backoff, row, faults>>

(* The 101 arrives: serve runs yamux.Server and enters its Accept loop.    *)
AgentUp(k) ==
    /\ apc[k] = "dialing"
    /\ aconn[k] \in open \ cut
    /\ apc' = [apc EXCEPT ![k] = "up"]
    /\ UNCHANGED <<vars, aconn, backoff, netVars>>

(* serve returns an error: the dial failed (a 401, a failed upgrade, a     *)
(* broken link) or sess.Accept did (the link broke or the gateway closed   *)
(* its end); the deferred sess.Close() closes the agent's end.             *)
AgentServeFails(k) ==
    /\ \/ apc[k] = "dialing" /\ (aconn[k] \in cut \/ hpc[aconn[k]] = "idle")
       \/ apc[k] = "dialing" /\ hpc[aconn[k]] \in Registered /\ aconn[k] \notin open
       \/ apc[k] = "up" /\ aconn[k] \notin open \ cut
    /\ apc' = [apc EXCEPT ![k] = "sleep"]
    /\ aconn' = [aconn EXCEPT ![k] = NoConn]
    /\ UNCHANGED <<vars, backoff, netVars>>

(* The jittered sleep ends; the next one is twice as long, up to the cap.  *)
AgentWake(k) ==
    /\ apc[k] = "sleep"
    /\ apc' = [apc EXCEPT ![k] = "dial"]
    /\ backoff' = [backoff EXCEPT ![k] = Clamp(2 * backoff[k])]
    /\ UNCHANGED <<vars, aconn, netVars>>

(* ctx is cancelled: the websocket is closed, Run returns from wherever it *)
(* is.                                                                     *)
AgentStop(k) ==
    /\ apc[k] # "stopped"
    /\ apc' = [apc EXCEPT ![k] = "stopped"]
    /\ aconn' = [aconn EXCEPT ![k] = NoConn]
    /\ UNCHANGED <<vars, backoff, netVars>>

-----------------------------------------------------------------------------
(* The gateway's handler.  The key of a tenant that is gone is refused;    *)
(* other failures, of the store or of the handshake, count as faults.      *)
GwValidate(c) ==
    /\ Validate(c)
    /\ hpc'[c] = "validated" => ckey[c] \in row
    /\ IF hpc'[c] = "idle" /\ ckey[c] \in row THEN Fault ELSE UNCHANGED faults
    /\ UNCHANGED <<agentVars, cut, row>>

GwUpgrade(c) ==
    /\ Upgrade(c)
    /\ IF hpc'[c] = "idle" THEN Fault ELSE UNCHANGED faults
    /\ UNCHANGED <<agentVars, cut, row>>

GwRegister(c) == (Register(c) \/ CloseOld(c) \/ Unregister(c)) /\ UNCHANGED <<agentVars, netVars>>

(* Seeded bug: without keepalive, a peer that vanished goes unnoticed.     *)
GwDropWithoutKeepalive(c) ==
    /\ c \notin cut /\ \A k \in Keys : aconn[k] # c
    /\ Drop(c)
    /\ UNCHANGED <<agentVars, netVars>>

(* yamux notices a closed or silent peer (read error or keepalive).        *)
GwDrop(c) == PeerGone(c) /\ Drop(c) /\ UNCHANGED <<agentVars, netVars>>

(* The network silently stops carrying c; neither end has noticed yet.     *)
CutLink(c) ==
    /\ c \notin cut
    /\ hpc[c] # "idle" \/ \E k \in Keys : aconn[k] = c
    /\ Fault
    /\ cut' = cut \cup {c}
    /\ UNCHANGED <<vars, agentVars, row>>

(* The janitor, the kill switch or the owner deletes the tenant.  Nobody   *)
(* tells the gateway: an open session lingers.                             *)
DeleteTenant(k) ==
    /\ k \in row
    /\ row' = row \ {k}
    /\ UNCHANGED <<vars, agentVars, cut, faults>>

(* tunneld dies and comes back with an empty registry: main.go keeps no    *)
(* session across a restart, and the callers of Dial die with it.          *)
Restart ==
    /\ Fault
    /\ hpc' = [c \in Conns |-> "idle"]
    /\ old' = [c \in Conns |-> NoConn]
    /\ open' = {}
    /\ sessions' = [k \in Keys |-> NoConn]
    /\ dpc' = [d \in Dials |-> "idle"]
    /\ dsess' = [d \in Dials |-> NoConn]
    /\ UNCHANGED <<ckey, dkey, agentVars, cut, row>>

GwStep(c) == GwValidate(c) \/ GwUpgrade(c) \/ GwRegister(c) \/ GwDrop(c)

AgentStep(k) ==
    \/ \E c \in Conns : AgentDial(k, c)
    \/ AgentUp(k)
    \/ AgentServeFails(k)
    \/ AgentWake(k)

-----------------------------------------------------------------------------
TunnelTypeOK ==
    /\ TypeOK
    /\ apc \in [Keys -> AgentPC]
    /\ aconn \in [Keys -> Conns \cup {NoConn}]
    /\ backoff \in [Keys -> InitialBackoff..MaxBackoff]
    /\ cut \subseteq Conns
    /\ row \subseteq Keys
    /\ faults \in 0..MaxFaults

Served(k) == apc[k] = "up" /\ aconn[k] \in open \ cut /\ sessions[k] = aconn[k]

(* `Reconnects automatically on any failure': after finitely many broken   *)
(* links, failed handshakes, takeovers and restarts, an agent that is not  *)
(* stopped and whose tenant is not deleted ends up serving the session the *)
(* registry hands out, for good.                                           *)
EventuallyServed == \A k \in Keys : <>[](apc[k] = "stopped" \/ k \notin row \/ Served(k))

(* Once its agent stops, a service goes offline and stays offline: no late *)
(* handshake of an abandoned connection leaves it registered.              *)
StoppedGoesOffline == \A k \in Keys : (apc[k] = "stopped") ~> [](sessions[k] = NoConn)

(* Every handler whose agent is gone returns: reconnecting leaks no        *)
(* goroutine and no session.                                               *)
AbandonedHandlersReturn ==
    \A c \in Conns : (\A k \in Keys : aconn[k] # c) ~> (hpc[c] = "idle" \/ \E k \in Keys : aconn[k] = c)
=============================================================================
