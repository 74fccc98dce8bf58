---------------------------- MODULE RelayProofs ----------------------------
(***************************************************************************)
(* Proofs about the composed tunnel, for any number of agents, connections *)
(* and requests and any number of faults: it implements Exchange, and the  *)
(* registry's invariants survive the composition, restarts included.       *)
(***************************************************************************)
EXTENDS Relay, GatewayProofs

(* How far a request can be at the agent, given where it is at the proxy,  *)
(* and what the upstream has then done about it.  A stream is opened once, *)
(* by a request that has been submitted.                                   *)
Streams ==
    \A d \in Dials :
        /\ qpc[d] = "idle" => dpc[d] = "idle"
        /\ qpc[d] \in {"idle", "gated"} => hs[d] = "none"
        /\ dpc[d] = "looked" => hs[d] = "none"

(* Nothing runs before Do, nothing is reported before it ran, and no       *)
(* request runs twice.                                                     *)
Runs ==
    \A d \in Dials :
        /\ execs[d] \in {0, 1}
        /\ hs[d] \in {"none", "incoming", "parked", "accepted"} => execs[d] = 0
        /\ hs[d] = "ran" => execs[d] = 1

(* The inductive invariant of the composition.                             *)
RelayInv == RelayTypeOK /\ IInv /\ Streams /\ Runs

-----------------------------------------------------------------------------
(* Faults are only counted up to their bound.                              *)
LEMMA FaultType ==
    ASSUME faults \in 0..MaxFaults, Fault PROVE faults' \in 0..MaxFaults
  BY FaultAssumption DEF Fault

(* The clamped backoff is within its limits.                               *)
LEMMA ClampType ==
    ASSUME NEW b \in InitialBackoff..MaxBackoff
    PROVE  Clamp(2 * b) \in InitialBackoff..MaxBackoff
  BY BackoffAssumption DEF Clamp

(* The initial state satisfies the invariant.                              *)
LEMMA RelayInitInv == RelayInit => RelayInv
<1> SUFFICES ASSUME RelayInit PROVE RelayInv
  OBVIOUS
<1>1. IInv
  BY InitInv DEF RelayInit, TunnelInit
<1>2. RelayTypeOK
  BY <1>1, NoConnAssumption, BackoffAssumption, FaultAssumption
     DEF RelayInit, TunnelInit, RelayTypeOK, TunnelTypeOK, IInv, AgentPC
<1>3. Streams /\ Runs
  BY DEF RelayInit, TunnelInit, Init, Streams, Runs
<1> QED
  BY <1>1, <1>2, <1>3 DEF RelayInv

-----------------------------------------------------------------------------
(* Every step is a step of the gateway, a restart, or a Gate that leaves   *)
(* the gateway alone but for the key the request will dial.                *)
LEMMA GatewaySteps ==
    ASSUME TypeOK, [RelayNext]_allVars
    PROVE  \/ [Next]_vars
           \/ Restart
           \/ \E d \in Dials, k \in Keys : Gate(d, k)
<1> USE DEF vars, connVars, dialVars
<1>1. ASSUME NEW k \in Keys, AgentStep(k) \/ DeleteTenant(k) \/ StopAgent(k) PROVE [Next]_vars
  BY <1>1 DEF AgentStep, AgentDial, AgentUp, AgentServeFails, AgentWake, DeleteTenant,
              StopAgent, AgentStop, Next
<1>2. ASSUME NEW c \in Conns, GwStep(c) \/ CutLink(c) PROVE [Next]_vars
  BY <1>2 DEF GwStep, GwValidate, GwUpgrade, GwRegister, GwDrop, CutLink, Next, HandlerStep
<1>3. ASSUME NEW d \in Dials, ProxyStep(d) PROVE [Next]_vars
  BY <1>3 DEF ProxyStep, Lookup, OpenStream, BadGateway, StreamDone, tunnelVars, Next, TypeOK
<1>4. ASSUME NEW d \in Dials, HandlerOf(d) \/ ClientLeaves(d) PROVE [Next]_vars
  BY <1>4 DEF HandlerOf, AcceptStream, Do, Reply, ClientLeaves, tunnelVars
<1>5. CASE UNCHANGED allVars
  BY <1>5 DEF allVars, tunnelVars
<1> QED
  BY <1>1, <1>2, <1>3, <1>4, <1>5 DEF RelayNext, RestartDaemon

(* The agents', the network's and the proxy's variables keep their types.  *)
LEMMA RelayTypeStep ==
    ASSUME RelayTypeOK, TypeOK', [RelayNext]_allVars PROVE RelayTypeOK'
<1> USE NoConnAssumption DEF RelayTypeOK, TunnelTypeOK, AgentPC, Over,
        agentVars, netVars, relayVars, vars
<1>1. ASSUME NEW k \in Keys, AgentStep(k), UNCHANGED relayVars PROVE RelayTypeOK'
  <2>1. ASSUME NEW c \in Conns, AgentDial(k, c) PROVE RelayTypeOK'
    BY <1>1, <2>1 DEF AgentDial
  <2>2. CASE AgentUp(k)
    BY <1>1, <2>2 DEF AgentUp
  <2>3. CASE AgentServeFails(k)
    BY <1>1, <2>3 DEF AgentServeFails
  <2>4. CASE AgentWake(k)
    BY <1>1, <2>4, ClampType DEF AgentWake
  <2> QED
    BY <1>1, <2>1, <2>2, <2>3, <2>4 DEF AgentStep
<1>2. ASSUME NEW k \in Keys, DeleteTenant(k), UNCHANGED relayVars PROVE RelayTypeOK'
  BY <1>2 DEF DeleteTenant
<1>3. ASSUME NEW c \in Conns, GwStep(c), UNCHANGED relayVars PROVE RelayTypeOK'
  BY <1>3, FaultType DEF GwStep, GwValidate, GwUpgrade, GwRegister, GwDrop
<1>4. ASSUME NEW c \in Conns, CutLink(c), UNCHANGED relayVars PROVE RelayTypeOK'
  BY <1>4, FaultType DEF CutLink
<1>5. ASSUME NEW k \in Keys, StopAgent(k) PROVE RelayTypeOK'
  BY <1>5 DEF StopAgent, AgentStop
<1>6. CASE RestartDaemon
  BY <1>6, FaultType DEF RestartDaemon, Restart
<1>7. ASSUME NEW d \in Dials, NEW k \in Keys, Gate(d, k) PROVE RelayTypeOK'
  BY <1>7, FaultType DEF Gate
<1>8. ASSUME NEW d \in Dials, ProxyStep(d) \/ ClientLeaves(d) PROVE RelayTypeOK'
  BY <1>8 DEF ProxyStep, Lookup, OpenStream, BadGateway, StreamDone, ClientLeaves, tunnelVars
<1>9. ASSUME NEW d \in Dials, HandlerOf(d) PROVE RelayTypeOK'
  BY <1>9 DEF HandlerOf, AcceptStream, Do, Reply, tunnelVars
<1>10. CASE UNCHANGED allVars
  BY <1>10 DEF allVars, tunnelVars
<1> QED
  BY <1>1, <1>2, <1>3, <1>4, <1>5, <1>6, <1>7, <1>8, <1>9, <1>10 DEF RelayNext

(* The registry's invariant is preserved by the composition: a restart     *)
(* empties the registry, and a request passes the gate before it dials.    *)
LEMMA RegistryStep ==
    ASSUME RelayTypeOK, IInv, Streams, [RelayNext]_allVars PROVE IInv'
<1>1. CASE [Next]_vars
  BY <1>1, StepInv
<1>2. CASE Restart
  BY <1>2, NoConnAssumption
     DEF Restart, IInv, TypeOK, HandlerPC, DialPC, OpenHasHandler, HeldSession, EntryHasOwner,
         NoOrphanSession, StreamReachesDialedKey, Registered
<1>3. ASSUME NEW d \in Dials, NEW k \in Keys, Gate(d, k) PROVE IInv'
  <2>1. dpc[d] = "idle"
    BY <1>3 DEF Gate, Streams
  <2>2. TypeOK' /\ OpenHasHandler' /\ HeldSession' /\ EntryHasOwner' /\ NoOrphanSession'
    BY <1>3 DEF Gate, IInv, TypeOK, OpenHasHandler, HeldSession, EntryHasOwner,
                NoOrphanSession, Registered, connVars
  <2>3. StreamReachesDialedKey'
    BY <2>1, <1>3 DEF Gate, IInv, TypeOK, StreamReachesDialedKey, connVars
  <2> QED
    BY <2>2, <2>3 DEF IInv
<1> QED
  BY <1>1, <1>2, <1>3, GatewaySteps DEF IInv

(* One stream per request, opened only after the gate.                     *)
LEMMA StreamsStep ==
    ASSUME RelayTypeOK, Streams, [RelayNext]_allVars PROVE Streams'
<1> USE DEF RelayTypeOK, TunnelTypeOK, TypeOK, DialPC, Over, Streams,
        agentVars, netVars, relayVars, vars, connVars, dialVars
<1>1. ASSUME NEW k \in Keys, AgentStep(k) \/ DeleteTenant(k), UNCHANGED relayVars
      PROVE  Streams'
  BY <1>1 DEF AgentStep, AgentDial, AgentUp, AgentServeFails, AgentWake, DeleteTenant, Arrive
<1>2. ASSUME NEW c \in Conns, GwStep(c) \/ CutLink(c), UNCHANGED relayVars PROVE Streams'
  BY <1>2 DEF GwStep, GwValidate, GwUpgrade, GwRegister, GwDrop, CutLink,
              Validate, Upgrade, Register, CloseOld, Unregister, Drop
<1>3. ASSUME NEW k \in Keys, StopAgent(k) PROVE Streams'
  BY <1>3 DEF StopAgent, AgentStop
<1>4. CASE RestartDaemon
  BY <1>4 DEF RestartDaemon, Restart
<1>5. ASSUME NEW d \in Dials, NEW k \in Keys, Gate(d, k) PROVE Streams'
  BY <1>5 DEF Gate
<1>6. ASSUME NEW d \in Dials, Lookup(d) PROVE Streams'
  BY <1>6 DEF Lookup, DialLookup
<1>7. ASSUME NEW d \in Dials, OpenStream(d) PROVE Streams'
  BY <1>7 DEF OpenStream, DialOpen
<1>8. ASSUME NEW d \in Dials, StreamDone(d) PROVE Streams'
  BY <1>8 DEF StreamDone, DialEnd
<1>9. ASSUME NEW d \in Dials, BadGateway(d) \/ ClientLeaves(d) \/ HandlerOf(d) PROVE Streams'
  BY <1>9 DEF BadGateway, ClientLeaves, HandlerOf, AcceptStream, Do, Reply, tunnelVars
<1>10. CASE UNCHANGED allVars
  BY <1>10 DEF allVars, tunnelVars
<1> QED
  BY <1>1, <1>2, <1>3, <1>4, <1>5, <1>6, <1>7, <1>8, <1>9, <1>10 DEF RelayNext, ProxyStep

(* At most one run per request: the only step back in a stream handler's   *)
(* life would be a second stream, which Streams rules out.                 *)
LEMMA RunsStep ==
    ASSUME RelayTypeOK, Streams, Runs, [RelayNext]_allVars PROVE Runs'
<1> USE DEF RelayTypeOK, Streams, Runs, relayVars
<1>1. CASE UNCHANGED relayVars
  BY <1>1
<1>2. ASSUME NEW k \in Keys, StopAgent(k) PROVE Runs'
  BY <1>2 DEF StopAgent
<1>3. CASE RestartDaemon
  BY <1>3 DEF RestartDaemon
<1>4. ASSUME NEW d \in Dials, NEW k \in Keys, Gate(d, k) PROVE Runs'
  BY <1>4 DEF Gate
<1>5. ASSUME NEW d \in Dials, OpenStream(d) PROVE Runs'
  BY <1>5 DEF OpenStream, DialOpen
<1>6. ASSUME NEW d \in Dials, Lookup(d) \/ BadGateway(d) \/ ClientLeaves(d) \/ StreamDone(d)
      PROVE  Runs'
  BY <1>6 DEF Lookup, BadGateway, ClientLeaves, StreamDone
<1>7. ASSUME NEW d \in Dials, HandlerOf(d) PROVE Runs'
  BY <1>7 DEF HandlerOf, AcceptStream, Do, Reply
<1>8. CASE UNCHANGED allVars
  BY <1>8 DEF allVars
<1> QED
  BY <1>1, <1>2, <1>3, <1>4, <1>5, <1>6, <1>7, <1>8 DEF RelayNext, ProxyStep

(* The invariant is inductive.                                             *)
LEMMA RelayStepInv == RelayInv /\ [RelayNext]_allVars => RelayInv'
<1> SUFFICES ASSUME RelayInv, [RelayNext]_allVars PROVE RelayInv'
  OBVIOUS
<1>1. IInv'
  BY RegistryStep DEF RelayInv
<1>2. RelayTypeOK'
  BY <1>1, RelayTypeStep DEF RelayInv, IInv
<1>3. Streams' /\ Runs'
  BY StreamsStep, RunsStep DEF RelayInv
<1> QED
  BY <1>1, <1>2, <1>3 DEF RelayInv

(* The invariant holds in every reachable state.                           *)
LEMMA RelayInvariant == RelaySpec => []RelayInv
<1> QED
  BY RelayInitInv, RelayStepInv, PTL DEF RelaySpec

(* Every reachable state of the composed tunnel is well typed; the backoff *)
(* of Run stays between its configured limits over the life of an agent.   *)
THEOREM RelayTypeCorrect == RelaySpec => []RelayTypeOK
<1>1. RelayInv => RelayTypeOK
  BY DEF RelayInv
<1> QED
  BY <1>1, RelayInvariant, PTL

(* The registry's guarantees hold in the composed system, with agents that *)
(* reconnect over broken links and a tunneld that restarts.                *)
THEOREM RegistryInRelay ==
    RelaySpec => [](EntryHasOwner /\ NoOrphanSession /\ StreamReachesDialedKey)
<1>1. RelayInv => EntryHasOwner /\ NoOrphanSession /\ StreamReachesDialedKey
  BY DEF RelayInv, IInv
<1> QED
  BY <1>1, RelayInvariant, PTL

-----------------------------------------------------------------------------
(* The initial state maps to the initial state of Exchange.                *)
LEMMA InitRefines == RelayInit => Abstract!ExchangeInit
  BY DEF RelayInit, Abstract!ExchangeInit, Seen

(* Every step maps to a step of Exchange or to a stutter.                  *)
LEMMA StepRefines ==
    ASSUME RelayInv, [RelayNext]_allVars
    PROVE  [Abstract!ExchangeNext]_(Abstract!exchangeVars)
<1> USE DEF RelayInv, RelayTypeOK, Over, relayVars
<1>s. ASSUME UNCHANGED <<qpc, execs>> PROVE UNCHANGED Abstract!exchangeVars
  BY <1>s DEF Abstract!exchangeVars, Seen
<1>f. ASSUME NEW D \in SUBSET Dials, UNCHANGED execs,
             \A d \in D : qpc[d] \in {"idle", "gated", "await"},
             qpc' = [d \in Dials |-> IF d \in D THEN "failed" ELSE qpc[d]]
      PROVE  Abstract!Fail(D)
  BY <1>f DEF Abstract!Fail, Seen
<1>1. ASSUME NEW d \in Dials, NEW k \in Keys, Gate(d, k) PROVE Abstract!ExchangeNext
  <2>1. CASE qpc' = [qpc EXCEPT ![d] = "gated"]
    <3>1. Abstract!Submit(d)
      BY <2>1, <1>1 DEF Gate, Abstract!Submit, Seen
    <3> QED
      BY <3>1 DEF Abstract!ExchangeNext
  <2>2. CASE qpc' = [qpc EXCEPT ![d] = "failed"]
    <3>1. Abstract!Fail({d})
      BY <2>2, <1>1, <1>f DEF Gate
    <3> QED
      BY <3>1 DEF Abstract!ExchangeNext
  <2> QED
    BY <1>1, <2>1, <2>2 DEF Gate
<1>2. ASSUME NEW d \in Dials, ClientLeaves(d) \/ BadGateway(d) PROVE Abstract!ExchangeNext
  <2>1. Abstract!Fail({d})
    BY <1>2, <1>f DEF ClientLeaves, BadGateway
  <2> QED
    BY <2>1 DEF Abstract!ExchangeNext
<1>3. ASSUME NEW d \in Dials, Lookup(d) \/ StreamDone(d) \/ AcceptStream(d)
      PROVE  UNCHANGED Abstract!exchangeVars
  BY <1>3, <1>s DEF Lookup, StreamDone, AcceptStream
<1>4. ASSUME NEW d \in Dials, OpenStream(d) PROVE UNCHANGED Abstract!exchangeVars
  <2>1. UNCHANGED execs /\ \A e \in Dials : Seen(e)' = Seen(e)
    BY <1>4 DEF OpenStream, Seen
  <2> QED
    BY <2>1 DEF Abstract!exchangeVars
<1>5. ASSUME NEW d \in Dials, Do(d) PROVE [Abstract!ExchangeNext]_(Abstract!exchangeVars)
  <2>1. CASE UNCHANGED execs
    BY <1>5, <2>1, <1>s DEF Do
  <2>2. CASE execs' = [execs EXCEPT ![d] = @ + 1]
    <3>1. qpc[d] # "idle" /\ execs[d] = 0
      BY <1>5 DEF Do, Streams, Runs
    <3>2. Abstract!Run(d)
      BY <1>5, <2>2, <3>1 DEF Do, Abstract!Run, Seen
    <3> QED
      BY <3>2 DEF Abstract!ExchangeNext
  <2> QED
    BY <1>5, <2>1, <2>2 DEF Do
<1>6. ASSUME NEW d \in Dials, Reply(d) PROVE [Abstract!ExchangeNext]_(Abstract!exchangeVars)
  <2>1. CASE UNCHANGED qpc
    BY <1>6, <2>1, <1>s DEF Reply
  <2>2. CASE qpc[d] = "await" /\ hs[d] = "ran" /\ qpc' = [qpc EXCEPT ![d] = "answered"]
    <3>1. Abstract!Answer(d)
      BY <1>6, <2>2 DEF Reply, Runs, Abstract!Answer, Seen
    <3> QED
      BY <3>1 DEF Abstract!ExchangeNext
  <2>3. CASE qpc[d] = "await" /\ qpc' = [qpc EXCEPT ![d] = "failed"]
    <3>1. Abstract!Fail({d})
      BY <1>6, <2>3, <1>f DEF Reply
    <3> QED
      BY <3>1 DEF Abstract!ExchangeNext
  <2> QED
    BY <1>6, <2>1, <2>2, <2>3 DEF Reply
<1>7. CASE RestartDaemon
  <2>1. Abstract!Fail({d \in Dials : qpc[d] \in {"gated", "await"}})
    BY <1>7, <1>f DEF RestartDaemon
  <2> QED
    BY <2>1 DEF Abstract!ExchangeNext
<1>8. ASSUME UNCHANGED relayVars \/ UNCHANGED allVars \/ \E k \in Keys : StopAgent(k)
      PROVE  UNCHANGED Abstract!exchangeVars
  BY <1>8, <1>s DEF allVars, StopAgent
<1> QED
  BY <1>1, <1>2, <1>3, <1>4, <1>5, <1>6, <1>7, <1>8 DEF RelayNext, ProxyStep, HandlerOf

(* The tunnel implements Exchange: a request is run at most once and       *)
(* answered only with the outcome of its own run, whatever breaks.         *)
THEOREM RelayRefinesExchange == RelaySpec => RelayImplementsExchange
<1>1. RelayInv /\ [RelayNext]_allVars => [Abstract!ExchangeNext]_(Abstract!exchangeVars)
  BY StepRefines
<1> QED
  BY <1>1, InitRefines, RelayInvariant, PTL
     DEF RelaySpec, RelayImplementsExchange, Abstract!ExchangeSpec
=============================================================================
