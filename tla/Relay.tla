------------------------------- MODULE Relay --------------------------------
(***************************************************************************)
(* Requests through the tunnel: internal/proxy's ServeHTTP on the public   *)
(* side, the gateway's Dial, a yamux stream, and the agent's handleStream  *)
(* in front of the upstream, all on top of Tunnel's agents, gateway,       *)
(* network and store.  A request is a member of Dials: each makes one call *)
(* of Dial, on a connection of its own, so the proxy never repeats one.    *)
(* Requests are POSTs, as MCP's are (net/http may repeat a GET without     *)
(* body when the upstream closes a connection it had kept).  The bearer    *)
(* check of gated services is OAuth's subject.                             *)
(***************************************************************************)
EXTENDS Tunnel

VARIABLES
    qpc,    \* where each request's ServeHTTP is
    hs,     \* where its handleStream at the agent is
    execs   \* how often the upstream has run it

relayVars == <<qpc, hs, execs>>
allVars == <<tunnelVars, relayVars>>

Over == {"answered", "failed"}

RelayInit ==
    /\ TunnelInit
    /\ qpc = [d \in Dials |-> "idle"]
    /\ hs = [d \in Dials |-> "none"]
    /\ execs = [d \in Dials |-> 0]

-----------------------------------------------------------------------------
(* ServeHTTP                                                               *)

(* GetService: 404 without the row.  After any other store error svc is    *)
(* nil; the dereference panics, net/http recovers and drops the client.    *)
Gate(d, k) ==
    /\ qpc[d] = "idle"
    /\ dkey' = [dkey EXCEPT ![d] = k]
    /\ \/ k \in row /\ qpc' = [qpc EXCEPT ![d] = "gated"] /\ UNCHANGED faults
       \/ k \notin row /\ qpc' = [qpc EXCEPT ![d] = "failed"] /\ UNCHANGED faults
       \/ qpc' = [qpc EXCEPT ![d] = "failed"] /\ Fault
    /\ UNCHANGED <<connVars, open, sessions, dpc, dsess, agentVars, cut, row, hs, execs>>

(* The transport calls Dial ...                                            *)
Lookup(d) ==
    /\ qpc[d] = "gated"
    /\ DialLookup(d, dkey[d])
    /\ UNCHANGED <<agentVars, netVars, relayVars>>

(* ... and writes the request to the stream it gets.  If the client has    *)
(* left meanwhile, the transport keeps the idle stream: there is no idle   *)
(* timeout, and the agent waits in ReadRequest (parked).                   *)
OpenStream(d) ==
    /\ DialOpen(d)
    /\ IF dpc'[d] = "stream"
       THEN /\ qpc' = [qpc EXCEPT ![d] = IF @ = "gated" THEN "await" ELSE @]
            /\ hs' = [hs EXCEPT ![d] = IF qpc[d] = "gated" THEN "incoming" ELSE "parked"]
       ELSE UNCHANGED <<qpc, hs>>
    /\ UNCHANGED <<agentVars, netVars, execs>>

(* ErrorHandler: 502 when Dial failed, or when the stream ends before the  *)
(* response, because its session is closed or the agent hung up.           *)
BadGateway(d) ==
    /\ \/ qpc[d] = "gated" /\ dpc[d] = "offline"
       \/ qpc[d] = "await" /\ (dsess[d] \notin open \/ (hs[d] = "closed" /\ dsess[d] \notin cut))
    /\ qpc' = [qpc EXCEPT ![d] = "failed"]
    /\ UNCHANGED <<tunnelVars, hs, execs>>

(* r.Context() is cancelled: the stream is closed; what was sent was sent. *)
ClientLeaves(d) ==
    /\ qpc[d] \in {"gated", "await"}
    /\ qpc' = [qpc EXCEPT ![d] = "failed"]
    /\ UNCHANGED <<tunnelVars, hs, execs>>

(* Both ends are done with the stream.                                     *)
StreamDone(d) ==
    /\ qpc[d] \in Over
    /\ hs[d] \in {"none", "closed"} \/ dsess[d] \notin open
    /\ DialEnd(d)
    /\ hs' = [hs EXCEPT ![d] = IF @ \in {"incoming", "parked"} THEN "closed" ELSE @]
    /\ UNCHANGED <<agentVars, netVars, qpc, execs>>

-----------------------------------------------------------------------------
(* The agent's handleStream                                                *)

(* Something sent over c now gets from one end to the other.               *)
Linked(c, k) == c \in open \ cut /\ aconn[k] = c

(* sess.Accept and ReadRequest; a request cut short ends the handler.      *)
AcceptStream(d) ==
    /\ hs[d] = "incoming" /\ dpc[d] = "stream"
    /\ apc[dkey[d]] = "up" /\ Linked(dsess[d], dkey[d])
    /\ \E step \in {"accepted", "closed"} : hs' = [hs EXCEPT ![d] = step]
    /\ UNCHANGED <<tunnelVars, qpc, execs>>

(* Seeded bug: a failed upstream call is tried again.                      *)
DoTwice(d) ==
    /\ hs[d] = "accepted"
    /\ \/ hs' = [hs EXCEPT ![d] = "ran"]
       \/ UNCHANGED hs
    /\ execs' = [execs EXCEPT ![d] = @ + 1]
    /\ UNCHANGED <<tunnelVars, qpc>>

(* httpClient.Do, without the client's context: it goes on when the client *)
(* or the session is gone.  The upstream runs the request and answers, or  *)
(* the call fails, before or after it ran.                                 *)
Do(d) ==
    /\ hs[d] = "accepted"
    /\ \/ execs' = [execs EXCEPT ![d] = @ + 1] /\ hs' = [hs EXCEPT ![d] = "ran"]
       \/ execs' = [execs EXCEPT ![d] = @ + 1] /\ hs' = [hs EXCEPT ![d] = "error"]
       \/ UNCHANGED execs /\ hs' = [hs EXCEPT ![d] = "error"]
    /\ UNCHANGED <<tunnelVars, qpc>>

(* resp.Write, or writeError with 502, and stream.Close: delivered if the  *)
(* link holds and the client is still there.  A response cut short is not  *)
(* an answer: the proxy aborts the client's connection.                    *)
Reply(d) ==
    /\ hs[d] \in {"ran", "error"}
    /\ hs' = [hs EXCEPT ![d] = "closed"]
    /\ IF qpc[d] = "await" /\ Linked(dsess[d], dkey[d])
       THEN qpc' = [qpc EXCEPT ![d] = IF hs[d] = "ran" THEN "answered" ELSE "failed"]
       ELSE UNCHANGED qpc
    /\ UNCHANGED <<tunnelVars, execs>>

(* The agent's process ends, with its handlers.                            *)
StopAgent(k) ==
    /\ AgentStop(k)
    /\ hs' = [d \in Dials |-> IF dkey[d] = k /\ hs[d] # "none" THEN "closed" ELSE hs[d]]
    /\ UNCHANGED <<qpc, execs>>

(* tunneld restarts: its handlers die; what the agent has read goes on.    *)
RestartDaemon ==
    /\ Restart
    /\ qpc' = [d \in Dials |-> IF qpc[d] \in {"gated", "await"} THEN "failed" ELSE qpc[d]]
    /\ hs' = [d \in Dials |-> IF hs[d] \in {"incoming", "parked"} THEN "closed" ELSE hs[d]]
    /\ UNCHANGED execs

-----------------------------------------------------------------------------
ProxyStep(d) == Lookup(d) \/ OpenStream(d) \/ BadGateway(d) \/ StreamDone(d)
HandlerOf(d) == AcceptStream(d) \/ Do(d) \/ Reply(d)

RelayNext ==
    \/ \E k \in Keys : (AgentStep(k) \/ DeleteTenant(k)) /\ UNCHANGED relayVars
    \/ \E c \in Conns : (GwStep(c) \/ CutLink(c)) /\ UNCHANGED relayVars
    \/ \E k \in Keys : StopAgent(k)
    \/ RestartDaemon
    \/ \E d \in Dials, k \in Keys : Gate(d, k)
    \/ \E d \in Dials : ProxyStep(d) \/ HandlerOf(d) \/ ClientLeaves(d)

RelaySpec == RelayInit /\ [][RelayNext]_allVars

(* Goroutines run, timers fire, yamux's keepalive finds a dead peer, and   *)
(* the upstream answers or fails.  Nothing forces a fault, a stop, a       *)
(* deletion or a request.                                                  *)
RelayFairSpec ==
    /\ RelaySpec
    /\ \A k \in Keys : WF_allVars(AgentStep(k) /\ UNCHANGED relayVars)
    /\ \A c \in Conns : WF_allVars(GwStep(c) /\ UNCHANGED relayVars)
    /\ \A d \in Dials : WF_allVars(ProxyStep(d)) /\ WF_allVars(HandlerOf(d))

-----------------------------------------------------------------------------
RelayTypeOK ==
    /\ TunnelTypeOK
    /\ qpc \in [Dials -> {"idle", "gated", "await"} \cup Over]
    /\ hs \in [Dials -> {"none", "incoming", "parked", "accepted", "ran", "error", "closed"}]
    /\ execs \in [Dials -> Nat]

(* The client's view of a request.                                         *)
Seen(d) ==
    CASE qpc[d] = "idle" -> "none"
      [] qpc[d] \in {"gated", "await"} -> "pending"
      [] OTHER -> qpc[d]

Abstract == INSTANCE Exchange WITH
    Requests <- Dials, outcome <- [d \in Dials |-> Seen(d)], runs <- execs

(* Through reconnects, takeovers, broken links, restarts, deletions and    *)
(* departing clients, the tunnel keeps the promise of Exchange: a request  *)
(* is run at most once, and answered only with the outcome of its run.     *)
RelayImplementsExchange == Abstract!ExchangeSpec

(* Every request that passes the gate ends: the proxy never waits for a    *)
(* stream whose other end is gone.                                         *)
GatedRequestsEnd == \A d \in Dials : (qpc[d] = "gated") ~> (qpc[d] \in Over)
=============================================================================
