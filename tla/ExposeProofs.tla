---------------------------- MODULE ExposeProofs ----------------------------
(***************************************************************************)
(* Why `mcptunnel expose' takes its tunnel down: the argument over the     *)
(* stack of deferred calls.  The specification has no parameters, so TLC's *)
(* run covers the same states; the proof says which facts carry it.        *)
(***************************************************************************)
EXTENDS Expose, Naturals, SequenceTheorems, TLAPS

(* What runExpose defers: the signal context's stop, b.Close, deleteTunnel. *)
Calls == {"stop", "close", "delete"}

(* A call of deleteTunnel is still deferred.                               *)
DeleteDeferred == \E i \in 1..Len(defers) : defers[i] = "delete"

(* runExpose is past the announcement and on its way out.                  *)
Leaving == pc \in {"returning", "exited"} /\ result \in {"ok", "child exited"}

(* The stack holds calls, and is empty when runExpose has returned.        *)
StackOK ==
    /\ defers \in Seq(Calls)
    /\ pc = "exited" => defers = <<>>

(* From the select on, tunneld has answered POST /quick, so no row of this *)
(* run appears any more, and the DELETE is deferred until it is made.      *)
Announced ==
    /\ pc \in {"start child", "listen", "new agent", "serving"} => post = "created"
    /\ pc = "serving" => DeleteDeferred
    /\ Leaving => post = "created" /\ (DeleteDeferred \/ tenant = "gone" \/ failed)

(* Before runExpose returns it has no result.                              *)
NoResultYet == pc \in {"start", "posting", "start child", "listen", "new agent", "serving"} => result = "none"

(* The inductive invariant.                                                *)
Inv == StackOK /\ Announced /\ NoResultYet

-----------------------------------------------------------------------------
(* Deferring a call puts it on top of the stack.                           *)
LEMMA DeferKeeps ==
    ASSUME NEW S, NEW s \in Seq(S), NEW c \in S
    PROVE  /\ <<c>> \o s \in Seq(S)
           /\ 1 \in 1..Len(<<c>> \o s) /\ (<<c>> \o s)[1] = c
  OBVIOUS

(* Running one keeps the others.                                           *)
LEMMA TailKeeps ==
    ASSUME NEW S, NEW s \in Seq(S), s # <<>>
    PROVE  /\ Tail(s) \in Seq(S) /\ Len(Tail(s)) = Len(s) - 1
           /\ Head(s) = s[1]
           /\ \A i \in 1..Len(s) : i # 1 => i - 1 \in 1..Len(Tail(s)) /\ Tail(s)[i - 1] = s[i]
  OBVIOUS

(* Every step keeps the invariant.                                         *)
LEMMA Step == Inv /\ [Next]_vars => Inv'
<1> SUFFICES ASSUME Inv, [Next]_vars PROVE Inv'
  OBVIOUS
<1>0. defers \in Seq(Calls)
  BY DEF Inv, StackOK
<1> USE <1>0 DEF Inv, StackOK, Announced, NoResultYet, Leaving
<1>1. CASE Post \/ PostFails
  BY <1>1 DEF Post, PostFails, Return, DeleteDeferred
<1>2. CASE Posted
  <2>1. "stop" \in Calls
    BY DEF Calls
  <2> QED
    BY <1>2, <2>1, DeferKeeps DEF Posted, Defer
<1>3. CASE StartChild
  <2>1. "close" \in Calls
    BY DEF Calls
  <2> QED
    BY <1>3, <2>1, DeferKeeps DEF StartChild, Defer, Return
<1>4. CASE Listen
  BY <1>4 DEF Listen, Return, DeleteDeferred
<1>5. CASE NewAgent
  <2>1. defers' = <<"delete">> \o defers
    BY <1>5 DEF NewAgent, Defer
  <2>2. "delete" \in Calls
    BY DEF Calls
  <2>3. defers' \in Seq(Calls) /\ 1 \in 1..Len(defers') /\ defers'[1] = "delete"
    BY <2>1, <2>2, DeferKeeps
  <2>4. DeleteDeferred'
    BY <2>3 DEF DeleteDeferred
  <2> QED
    BY <1>5, <2>3, <2>4 DEF NewAgent
<1>6. CASE Select
  BY <1>6 DEF Select, Return, DeleteDeferred
<1>7. CASE Unwind
  <2>1. /\ pc = "returning" /\ defers # <<>> /\ defers' = Tail(defers)
        /\ UNCHANGED <<pc, result, post>>
    BY <1>7 DEF Unwind
  <2>2. defers' \in Seq(Calls)
    BY <2>1, TailKeeps
  <2>3. CASE Head(defers) = "delete"
    BY <1>7, <2>1, <2>2, <2>3 DEF Unwind
  <2>4. CASE Head(defers) # "delete"
    <3>1. UNCHANGED <<tenant, failed>>
      BY <1>7, <2>4 DEF Unwind
    <3>2. ASSUME DeleteDeferred PROVE DeleteDeferred'
      <4>1. PICK i \in 1..Len(defers) : defers[i] = "delete"
        BY <3>2 DEF DeleteDeferred
      <4>2. i # 1
        BY <2>1, <2>4, <4>1, TailKeeps
      <4>3. i - 1 \in 1..Len(defers') /\ defers'[i - 1] = "delete"
        BY <2>1, <4>1, <4>2, TailKeeps
      <4> QED
        BY <4>3 DEF DeleteDeferred
    <3> QED
      BY <2>1, <2>2, <3>1, <3>2
  <2> QED
    BY <2>3, <2>4
<1>8. CASE Exit
  BY <1>8 DEF Exit, DeleteDeferred
<1>9. CASE Interrupt \/ Kill
  BY <1>9 DEF Interrupt, Kill, Ended, DeleteDeferred
<1>10. CASE AgentReturns \/ ChildExits \/ KillChild \/ Reap \/ UNCHANGED vars
  BY <1>10 DEF AgentReturns, ChildExits, KillChild, Reap, vars, DeleteDeferred
<1>11. CASE HandleQuick \/ Janitor
  BY <1>11 DEF HandleQuick, Janitor, DeleteDeferred
<1> QED
  BY <1>1, <1>2, <1>3, <1>4, <1>5, <1>6, <1>7, <1>8, <1>9, <1>10, <1>11 DEF Next, Main

(* deleteTunnel in its defer: once the endpoint was announced, the command *)
(* does not end by itself with the tunnel still there, unless the DELETE   *)
(* failed, and no answer to POST /quick comes late enough to undo it.      *)
THEOREM TunnelDeletedOnExit == Spec => []ExitDeletes
<1>1. Init => Inv
  BY DEF Init, Inv, StackOK, Announced, NoResultYet, Leaving
<1>2. Inv => ExitDeletes
  <2>1. defers = <<>> => ~ DeleteDeferred
    BY DEF DeleteDeferred
  <2> QED
    BY <2>1 DEF Inv, StackOK, Announced, Leaving, ExitDeletes
<1> QED
  BY <1>1, <1>2, Step, PTL DEF Spec
=============================================================================
