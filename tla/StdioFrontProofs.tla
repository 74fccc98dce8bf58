-------------------------- MODULE StdioFrontProofs --------------------------
(***************************************************************************)
(* Proofs about stdiofront for every script of the client's, any number of *)
(* sessions and any number of faults.                                      *)
(***************************************************************************)
EXTENDS StdioFront, TLAPS

(* A message between being taken and being finished.                       *)
Busy(m) == pc[m] \notin {"idle", "done"}

(* s.wg counts exactly the requests in progress.                           *)
Counted == \A m \in Requests : m \in wg <=> Busy(m)

(* The main loop posts one notification at a time, and waits for it.       *)
NotifyWaits ==
    \A m \in Msgs \cap Notifs :
        Busy(m) => main = "notify" /\ \A k \in Msgs \cap Notifs : Busy(k) => k = m

(* The lines before next have been taken, and no other.                    *)
Taken == \A i \in 1..Len(Script) : pc[Script[i]] = "idle" <=> next <= i

(* A request is answered once, when it ends, or its event stream ended     *)
(* without an answer.                                                      *)
AnsweredOnce ==
    \A m \in Requests : IF pc[m] = "done" THEN answers[m] = 1 \/ m \in silent ELSE answers[m] = 0

(* Unless drain gave up, nothing is in progress when the session closes.   *)
Drained == (main \in {"close", "exited"} /\ ~ gaveUp) => wg = {}

(* A granted session that is not stored yet.                               *)
Holds(m, s) == grant[m] = s /\ (pc[m] = "reinitOK" \/ (pc[m] = "ok" /\ m = InitMsg))

(* Every session the endpoint knows is the current one, was dropped, was   *)
(* never heard of, or is about to be stored by the message that was        *)
(* granted it.                                                             *)
SessionsHeld ==
    \A s \in alive : s \in dropped \cup lost \/ s = session \/ \E m \in Msgs : Holds(m, s)

(* The inductive invariant.                                                *)
Inv ==
    /\ TypeOK /\ Counted /\ NotifyWaits /\ Taken /\ AnsweredOnce /\ Drained /\ SessionsHeld
    /\ NoSessionLeft

-----------------------------------------------------------------------------
(* Session ids are numbers, and the steps of a post are what they are.     *)
LEMMA Basics ==
    /\ Sids \subseteq Nat /\ 0 \in Sids
    /\ \A i \in 1..Len(Script) : Script[i] \in Msgs
    /\ \A m \in Msgs : m \in Requests \/ m \in Notifs
    /\ Requests \subseteq Msgs
    /\ Len(Script) \in Nat
  BY StdioFrontAssumption DEF Sids, Msgs, Requests

(* A step beside the posts: nothing is forgotten, and the endpoint knows   *)
(* no new session.                                                         *)
LEMMA QuietStep ==
    ASSUME Inv, TypeOK', alive' \subseteq alive,
           UNCHANGED <<main, next, wg, gaveUp, session, pc, grant, answers, silent, dropped, lost>>
    PROVE  Inv'
<1>1. Counted' /\ NotifyWaits' /\ Taken' /\ AnsweredOnce' /\ Drained'
  BY DEF Inv, Counted, NotifyWaits, Taken, AnsweredOnce, Drained, Busy
<1>2. SessionsHeld' /\ NoSessionLeft'
  BY DEF Inv, SessionsHeld, Holds, NoSessionLeft
<1> QED
  BY <1>1, <1>2 DEF Inv

(* A message moves on without ending.                                      *)
LEMMA MoveStep ==
    ASSUME Inv, TypeOK', SessionsHeld', Up, NEW m \in Msgs, Busy(m),
           NEW x \in Steps \ {"idle", "done"}, pc' = [pc EXCEPT ![m] = x],
           UNCHANGED <<main, next, wg, gaveUp, answers, silent>>
    PROVE  Inv'
<1>1. pc'[m] = x /\ \A k \in Msgs \ {m} : pc'[k] = pc[k]
  BY DEF Inv, TypeOK
<1>2. \A k \in Msgs : Busy(k)' = Busy(k)
  BY <1>1 DEF Busy
<1>3. Counted' /\ NotifyWaits' /\ Drained'
  BY <1>2, Basics DEF Inv, Counted, NotifyWaits, Drained
<1>4. Taken' /\ AnsweredOnce'
  BY <1>1, Basics DEF Inv, Taken, AnsweredOnce, Busy
<1>5. NoSessionLeft'
  BY DEF Up, NoSessionLeft
<1> QED
  BY <1>3, <1>4, <1>5 DEF Inv

(* The post of a message ends, and for a request a response is written or  *)
(* it is one of the silent ones.                                           *)
LEMMA FinishStep ==
    ASSUME Inv, TypeOK', SessionsHeld', Up, NEW m \in Msgs, Busy(m),
           NEW n \in {0, 1}, Finish(m, n), n = 0 => m \in silent', silent \subseteq silent',
           UNCHANGED <<next, gaveUp>>
    PROVE  Inv'
<1>1. /\ pc'[m] = "done" /\ \A k \in Msgs \ {m} : pc'[k] = pc[k]
      /\ wg' = wg \ {m}
      /\ main' = IF m \in Notifs THEN "loop" ELSE main
  BY DEF Finish, Inv, TypeOK
<1>2. ~ Busy(m)' /\ \A k \in Msgs \ {m} : Busy(k)' = Busy(k)
  BY <1>1 DEF Busy
<1>3. Counted'
  BY <1>1, <1>2, Basics DEF Inv, Counted
<1>4. NotifyWaits'
  BY <1>1, <1>2 DEF Inv, NotifyWaits
<1>5. Taken'
  BY <1>1, Basics DEF Inv, Taken, Busy
<1>6. AnsweredOnce'
  <2> SUFFICES ASSUME NEW k \in Requests
               PROVE  IF pc'[k] = "done" THEN answers'[k] = 1 \/ k \in silent' ELSE answers'[k] = 0
    BY DEF AnsweredOnce
  <2>1. k \in Msgs /\ k \notin Notifs
    BY DEF Requests
  <2>2. CASE k = m
    <3>1. answers[m] = 0
      BY <2>2 DEF Inv, AnsweredOnce, Busy
    <3>2. answers'[m] = n
      BY <2>1, <2>2, <3>1 DEF Finish, Inv, TypeOK
    <3> QED
      BY <1>1, <2>2, <3>2
  <2>3. CASE k # m
    <3>1. answers'[k] = answers[k]
      BY <2>1, <2>3 DEF Finish, Inv, TypeOK
    <3> QED
      BY <1>1, <2>1, <2>3, <3>1 DEF Inv, AnsweredOnce
  <2> QED
    BY <2>2, <2>3
<1>7. Drained'
  BY <1>1 DEF Inv, Drained
<1>8. NoSessionLeft'
  BY <1>1 DEF Up, NoSessionLeft
<1> QED
  BY <1>3, <1>4, <1>5, <1>6, <1>7, <1>8 DEF Inv

(* Sessions stay accounted for: a step of a message that holds none.       *)
LEMMA HeldFrame ==
    ASSUME Inv, NEW m \in Msgs, pc[m] # "reinitOK", ~ (pc[m] = "ok" /\ m = InitMsg),
           \A k \in Msgs \ {m} : pc'[k] = pc[k] /\ grant'[k] = grant[k],
           alive' \subseteq alive \cup lost', lost \subseteq lost', dropped \subseteq dropped',
           session' = session \/ (session \in alive => session \in dropped')
    PROVE  SessionsHeld'
<1> SUFFICES ASSUME NEW s \in alive', s \notin dropped' \cup lost', s # session'
             PROVE  \E k \in Msgs : Holds(k, s)'
  BY DEF SessionsHeld
<1>1. PICK k \in Msgs : Holds(k, s)
  BY DEF Inv, SessionsHeld
<1> QED
  BY <1>1 DEF Holds

(* The same for a message that stores the session it was granted.          *)
LEMMA HeldStore ==
    ASSUME Inv, NEW m \in Msgs, SetSession(grant[m]),
           \A k \in Msgs \ {m} : pc'[k] = pc[k] /\ grant'[k] = grant[k],
           UNCHANGED <<alive, lost>>
    PROVE  SessionsHeld'
<1> SUFFICES ASSUME NEW s \in alive', s \notin dropped' \cup lost', s # session'
             PROVE  \E k \in Msgs : Holds(k, s)'
  BY DEF SessionsHeld
<1>1. PICK k \in Msgs : Holds(k, s)
  BY DEF Inv, SessionsHeld, SetSession
<1> QED
  BY <1>1 DEF Holds, SetSession

(* The same when the endpoint opens a session.                             *)
LEMMA HeldGrant ==
    ASSUME Inv, NEW m \in Msgs, pc[m] \in {"sent", "reinitSent", "reinitHung"}, GrantSession(m),
           NEW x, pc' = [pc EXCEPT ![m] = x], x = "reinitOK" \/ (x = "ok" /\ m = InitMsg),
           UNCHANGED <<session, dropped>>
    PROVE  SessionsHeld'
<1> SUFFICES ASSUME NEW s \in alive', s \notin dropped \cup lost, s # session
             PROVE  \E k \in Msgs : Holds(k, s)'
  BY DEF SessionsHeld, GrantSession
<1>1. /\ pc'[m] = x /\ grant'[m] = granted + 1
      /\ \A k \in Msgs \ {m} : pc'[k] = pc[k] /\ grant'[k] = grant[k]
  BY DEF GrantSession, OpenSession, Inv, TypeOK
<1>2. CASE s = granted + 1
  BY <1>1, <1>2 DEF Holds
<1>3. CASE s # granted + 1
  <2>1. PICK k \in Msgs : Holds(k, s)
    BY <1>3 DEF GrantSession, OpenSession, Inv, SessionsHeld
  <2> QED
    BY <1>1, <2>1 DEF Holds
<1> QED
  BY <1>2, <1>3

(* What Finish leaves has its type.                                        *)
LEMMA FinishType ==
    ASSUME TypeOK, NEW m \in Msgs, NEW n \in {0, 1}, Finish(m, n)
    PROVE  /\ main' \in {"loop", "notify", "drain", "close", "exited"}
           /\ wg' \subseteq Requests /\ pc' \in [Msgs -> Steps] /\ retried' \subseteq Msgs
           /\ carry' \in [Msgs -> Sids] /\ grant' \in [Msgs -> Sids]
           /\ answers' \in [Msgs -> Nat]
<1>1. "done" \in Steps /\ 0 \in Sids
  BY Basics DEF Steps
<1>2. answers' \in [Msgs -> Nat]
  BY DEF TypeOK, Finish
<1>3. /\ wg' \subseteq Requests /\ retried' \subseteq Msgs
      /\ main' \in {"loop", "notify", "drain", "close", "exited"}
  BY DEF TypeOK, Finish
<1> QED
  BY <1>1, <1>2, <1>3 DEF TypeOK, Finish

(* Faults are only counted up to their bound.                              *)
LEMMA FaultType == ASSUME TypeOK, Fault \/ UNCHANGED faults PROVE faults' \in 0..MaxFaults
  BY StdioFrontAssumption DEF TypeOK, Fault

-----------------------------------------------------------------------------
(* The main loop.                                                          *)
LEMMA MainSteps == Inv /\ (TakeLine \/ LinesEnd \/ Drain \/ CloseSession) => Inv'
<1>1. ASSUME Inv, TakeLine PROVE Inv'
  <2>0. /\ main = "loop" /\ next \in 1..Len(Script) /\ next <= next
        /\ next' = next + 1 /\ next' \in 1..(Len(Script) + 1)
    BY <1>1, Basics DEF TakeLine, Inv, TypeOK
  <2>1. PICK m \in Msgs : m = Script[next] /\ pc[m] = "idle"
    BY <1>1, <2>0, Basics DEF Inv, Taken
  <2>2. /\ pc' = [pc EXCEPT ![m] = "post"]
        /\ wg' = IF m \in Notifs THEN wg ELSE wg \cup {m}
        /\ main' = IF m \in Notifs THEN "notify" ELSE main
        /\ UNCHANGED <<eof, ctx, gaveUp, sessVars, retried, carry, grant, outVars, streamVars, upVars,
                       dropped, faults>>
    BY <1>1, <2>1 DEF TakeLine
  <2>3. pc'[m] = "post" /\ \A k \in Msgs \ {m} : pc'[k] = pc[k]
    BY <1>1, <2>1, <2>2 DEF Inv, TypeOK
  <2>4. Busy(m)' /\ ~ Busy(m) /\ \A k \in Msgs \ {m} : Busy(k)' = Busy(k)
    BY <2>1, <2>3 DEF Busy
  <2>5. \A i \in 1..Len(Script) : Script[i] = m => i = next
    BY <2>0, <2>1, StdioFrontAssumption
  <2>6. TypeOK'
    <3>1. wg' \subseteq Requests /\ pc' \in [Msgs -> Steps]
      BY <1>1, <2>1, <2>2 DEF Inv, TypeOK, Requests, Steps
    <3> QED
      BY <1>1, <2>0, <2>2, <3>1 DEF Inv, TypeOK, sessVars, outVars, streamVars, upVars
  <2>7. Counted'
    BY <1>1, <2>1, <2>2, <2>4 DEF Inv, Counted, Requests
  <2>8. NotifyWaits'
    BY <1>1, <2>0, <2>2, <2>4 DEF Inv, NotifyWaits
  <2>9. Taken'
    <3> SUFFICES ASSUME NEW i \in 1..Len(Script)
                 PROVE  pc'[Script[i]] = "idle" <=> next' <= i
      BY DEF Taken
    <3>1. CASE i = next
      BY <2>0, <2>1, <2>3, <3>1
    <3>2. CASE i # next
      <4>1. pc'[Script[i]] = pc[Script[i]]
        BY <2>3, <2>5, <3>2, Basics
      <4>2. next' <= i <=> next <= i
        BY <2>0, <3>2
      <4> QED
        BY <1>1, <4>1, <4>2 DEF Inv, Taken
    <3> QED
      BY <3>1, <3>2
  <2>10. AnsweredOnce'
    BY <1>1, <2>1, <2>2, <2>3 DEF Inv, AnsweredOnce, Requests, outVars
  <2>11. Drained' /\ NoSessionLeft'
    BY <2>0, <2>2 DEF Drained, NoSessionLeft
  <2>12. SessionsHeld'
    BY <1>1, <2>1, <2>2, <2>3, HeldFrame DEF sessVars, upVars
  <2> QED
    BY <2>6, <2>7, <2>8, <2>9, <2>10, <2>11, <2>12 DEF Inv
<1>2. ASSUME Inv, LinesEnd \/ Drain PROVE Inv'
  <2> USE <1>2 DEF LinesEnd, Drain, sessVars, postVars, outVars, streamVars, upVars
  <2>1. TypeOK'
    BY DEF Inv, TypeOK
  <2>2. Counted' /\ Taken' /\ AnsweredOnce'
    BY DEF Inv, Counted, Taken, AnsweredOnce, Busy
  <2>3. NotifyWaits'
    BY DEF Inv, NotifyWaits, Busy
  <2>4. SessionsHeld' /\ NoSessionLeft'
    BY DEF Inv, SessionsHeld, Holds, NoSessionLeft
  <2>5. Drained'
    <3>1. CASE LinesEnd
      BY <3>1 DEF Drained
    <3>2. CASE Drain
      BY <3>2 DEF Drained
    <3> QED
      BY <3>1, <3>2
  <2> QED
    BY <2>1, <2>2, <2>3, <2>4, <2>5 DEF Inv
<1>3. ASSUME Inv, CloseSession PROVE Inv'
  <2>1. /\ main = "close" /\ main' = "exited"
        /\ UNCHANGED <<next, eof, ctx, wg, gaveUp, sessVars, postVars, outVars, streamVars, granted, lost>>
        /\ \/ alive' = alive \ {session} /\ UNCHANGED <<dropped, faults>>
           \/ Fault /\ dropped' = dropped \cup {session} /\ UNCHANGED alive
    BY <1>3 DEF CloseSession
  <2> USE <1>3, <2>1 DEF sessVars, postVars, outVars, streamVars, upVars
  <2>2. TypeOK'
    <3>1. faults' \in 0..MaxFaults
      BY FaultType DEF Inv
    <3>2. alive' \subseteq Sids /\ dropped' \subseteq Sids
      BY DEF Inv, TypeOK
    <3> QED
      BY <3>1, <3>2 DEF Inv, TypeOK
  <2>3. Counted' /\ Taken' /\ AnsweredOnce' /\ NotifyWaits' /\ Drained'
    BY DEF Inv, Counted, Taken, AnsweredOnce, NotifyWaits, Busy, Drained
  <2>4. SessionsHeld'
    BY DEF Inv, SessionsHeld, Holds
  <2>5. NoSessionLeft'
    <3> SUFFICES ASSUME ~ gaveUp, NEW s \in alive' PROVE s \in dropped' \cup lost
      BY DEF NoSessionLeft
    <3>1. \A m \in Msgs : ~ Busy(m)
      BY Basics DEF Inv, Drained, Counted, NotifyWaits
    <3>2. s \in dropped \cup lost \/ s = session
      BY <3>1 DEF Inv, SessionsHeld, Holds, Busy
    <3> QED
      BY <3>2
  <2> QED
    BY <2>2, <2>3, <2>4, <2>5 DEF Inv
<1> QED
  BY <1>1, <1>2, <1>3

(* The end of stdin, cancelling, the event stream, and the endpoint's      *)
(* forgetting.                                                             *)
LEMMA BesideSteps ==
    Inv /\ (Cancel \/ StdinEnds \/ StreamStep \/ \E s \in Sids : Expire(s)) => Inv'
<1> USE DEF mainVars, sessVars, postVars, outVars, upVars
<1>1. ASSUME Inv, Cancel \/ StdinEnds PROVE Inv'
  <2>1. TypeOK'
    BY <1>1 DEF Cancel, StdinEnds, Inv, TypeOK, streamVars
  <2> QED
    BY <1>1, <2>1, QuietStep DEF Cancel, StdinEnds
<1>2. ASSUME Inv, StreamStep PROVE Inv'
  <2>1. /\ UNCHANGED <<mainVars, sessVars, postVars, outVars, upVars, dropped>>
        /\ spc' \in {"off", "get", "getting", "open", "sleep", "ended"} /\ ssid' \in Sids
        /\ Fault \/ UNCHANGED faults
    BY <1>2, Basics DEF StreamStep, StreamGet, StreamAnswer, StreamAgain, Inv, TypeOK
  <2>2. TypeOK'
    BY <1>2, <2>1, FaultType DEF Inv, TypeOK
  <2> QED
    BY <1>2, <2>1, <2>2, QuietStep
<1>3. ASSUME Inv, NEW s \in Sids, Expire(s) PROVE Inv'
  <2>1. TypeOK'
    BY <1>3, FaultType DEF Expire, Inv, TypeOK, streamVars
  <2> QED
    BY <1>3, <2>1, QuietStep DEF Expire
<1> QED
  BY <1>1, <1>2, <1>3

-----------------------------------------------------------------------------
(* The steps of a post that neither end it nor touch a session.            *)
LEMMA WalkSteps ==
    ASSUME NEW m \in Msgs, Inv,
           \/ DoPost(m) \/ ReinitPost(m) \/ Hang(m)
           \/ Respond404(m) /\ m \notin retried
           \/ Check404(m) /\ session # 0
           \/ RespondOK(m) /\ m # InitMsg
    PROVE  Inv'
<1> USE DEF AtStep, Goto, mainVars, sessVars, outVars, upVars
<1>1. /\ Up /\ pc[m] \in {"post", "reinitPost", "sent", "reinitSent", "got404", "ok", "body"}
      /\ pc[m] = "ok" => m # InitMsg
      /\ \E x \in {"sent", "reinitSent", "hung", "bodyHung", "reinitHung", "got404", "reinit", "ok"} :
           pc' = [pc EXCEPT ![m] = x]
      /\ UNCHANGED <<mainVars, sessVars, retried, grant, outVars, streamVars, upVars, dropped>>
  BY DEF DoPost, ReinitPost, Hang, HasBody, Respond404, Check404, RespondOK
<1>2. /\ carry' = carry \/ carry' = [carry EXCEPT ![m] = session]
      /\ Fault \/ UNCHANGED faults
  BY DEF DoPost, ReinitPost, Hang, HasBody, Respond404, Check404, RespondOK
<1>3. PICK x \in Steps \ {"idle", "done"} : pc' = [pc EXCEPT ![m] = x]
  BY <1>1 DEF Steps, Hanging
<1>4. TypeOK'
  <2>1. faults' \in 0..MaxFaults
    BY <1>2, FaultType DEF Inv
  <2>2. carry' \in [Msgs -> Sids] /\ pc' \in [Msgs -> Steps]
    BY <1>2, <1>3 DEF Inv, TypeOK
  <2> QED
    BY <1>1, <2>1, <2>2 DEF Inv, TypeOK, streamVars
<1>5. SessionsHeld'
  BY <1>1, HeldFrame DEF Inv, TypeOK
<1> QED
  BY <1>1, <1>3, <1>4, <1>5, MoveStep DEF Busy

(* The steps that end a post.                                              *)
LEMMA EndSteps ==
    ASSUME NEW m \in Msgs, Inv,
           \/ Respond404(m) /\ m \in retried
           \/ RespondErr(m) \/ ReadJSON(m) \/ ReadSSE(m) \/ HangEnds(m) \/ ReinitErr(m)
           \/ Check404(m) /\ session = 0
           \/ ReinitClear(m) /\ ~ initMsg
    PROVE  Inv'
<1> USE DEF AtStep, sessVars, upVars
<1>1. /\ Up /\ pc[m] \in {"sent", "ok", "body", "hung", "bodyHung", "reinitHung", "reinitSent", "got404", "reinit"}
      /\ pc[m] = "ok" => m # InitMsg
  BY DEF Respond404, RespondErr, ReadJSON, ReadSSE, HangEnds, ReinitErr, Check404, ReinitClear,
     HasBody, Hanging
<1>2. /\ UNCHANGED <<next, eof, ctx, gaveUp, initMsg, streamVars>>
      /\ UNCHANGED upVars \/ (OpenSession /\ lost' = lost \cup {granted + 1})
      /\ UNCHANGED <<session, dropped>> \/ SetSession(0)
      /\ Fault \/ UNCHANGED faults
  BY DEF Respond404, RespondErr, ReadJSON, ReadSSE, HangEnds, ReinitErr, Check404, ReinitClear,
     MayLoseSession
<1>3. \/ Finish(m, 1) /\ UNCHANGED silent
      \/ Finish(m, 0) /\ silent' = silent \cup {m} /\ m \notin Notifs
  BY DEF Respond404, RespondErr, ReadJSON, ReadSSE, HangEnds, ReinitErr, Check404, ReinitClear
<1>4. PICK n \in {0, 1} : Finish(m, n) /\ (n = 0 => m \in silent') /\ silent \subseteq silent'
  BY <1>3
<1>5. TypeOK'
  <2>1. faults' \in 0..MaxFaults
    BY <1>2, FaultType DEF Inv
  <2>2. silent' \subseteq Requests
    BY <1>3 DEF Inv, TypeOK, Requests
  <2>3. session' \in Sids /\ dropped' \subseteq Sids
    BY <1>2, Basics DEF SetSession, Inv, TypeOK
  <2>4. granted' \in Sids /\ alive' \subseteq Sids /\ lost' \subseteq Sids
    <3>1. CASE UNCHANGED upVars
      BY <3>1 DEF Inv, TypeOK
    <3>2. CASE OpenSession /\ lost' = lost \cup {granted + 1}
      <4>1. granted + 1 \in Sids
        BY <3>2, StdioFrontAssumption DEF OpenSession, Inv, TypeOK, Sids
      <4> QED
        BY <3>2, <4>1 DEF OpenSession, Inv, TypeOK
    <3> QED
      BY <1>2, <3>1, <3>2
  <2> QED
    BY <1>2, <1>4, <2>1, <2>2, <2>3, <2>4, FinishType DEF Inv, TypeOK, streamVars
<1>6. SessionsHeld'
  <2>1. \A k \in Msgs \ {m} : pc'[k] = pc[k] /\ grant'[k] = grant[k]
    BY <1>4 DEF Finish, Inv, TypeOK
  <2>2. dropped \subseteq dropped' /\ (session' = session \/ (session \in alive => session \in dropped'))
    BY <1>2, Basics DEF SetSession
  <2>3. alive' \subseteq alive \cup lost' /\ lost \subseteq lost'
    BY <1>2 DEF OpenSession
  <2> QED
    BY <1>1, <2>1, <2>2, <2>3, HeldFrame
<1> QED
  BY <1>1, <1>2, <1>4, <1>5, <1>6, FinishStep DEF Busy

(* The steps that get, store or clear a session.                           *)
LEMMA SessionSteps ==
    ASSUME NEW m \in Msgs, Inv,
           \/ RespondOK(m) /\ m = InitMsg
           \/ ReinitOK(m) \/ ReinitHangEnds(m) \/ StoreInit(m) \/ ReinitStore(m)
           \/ ReinitClear(m) /\ initMsg
    PROVE  Inv'
<1> USE DEF AtStep, Goto, mainVars, sessVars, outVars, streamVars
<1>1. CASE (RespondOK(m) /\ m = InitMsg) \/ ReinitOK(m) \/ ReinitHangEnds(m)
  <2>1. /\ Up /\ pc[m] \in {"sent", "reinitSent", "reinitHung"} /\ GrantSession(m)
        /\ UNCHANGED <<mainVars, sessVars, retried, carry, outVars, streamVars, dropped, faults>>
    BY <1>1 DEF RespondOK, ReinitOK, ReinitHangEnds
  <2>2. PICK x \in {"ok", "reinitOK"} :
          pc' = [pc EXCEPT ![m] = x] /\ (x = "ok" => m = InitMsg)
    BY <1>1 DEF RespondOK, ReinitOK, ReinitHangEnds
  <2>3. x \in Steps \ {"idle", "done"}
    BY DEF Steps
  <2>4. TypeOK'
    <3>1. granted' \in Sids
      BY <2>1, StdioFrontAssumption DEF GrantSession, OpenSession, Inv, TypeOK, Sids
    <3>2. alive' \subseteq Sids /\ grant' \in [Msgs -> Sids]
      BY <2>1, <3>1 DEF GrantSession, OpenSession, Inv, TypeOK
    <3>3. pc' \in [Msgs -> Steps]
      BY <2>2, <2>3 DEF Inv, TypeOK
    <3>4. lost' = lost
      BY <2>1 DEF GrantSession
    <3> QED
      BY <2>1, <3>1, <3>2, <3>3, <3>4 DEF Inv, TypeOK
  <2>5. SessionsHeld'
    BY <2>1, <2>2, HeldGrant
  <2> QED
    BY <2>1, <2>2, <2>3, <2>4, <2>5, MoveStep DEF Busy
<1>2. CASE StoreInit(m) \/ ReinitStore(m) \/ (ReinitClear(m) /\ initMsg)
  <2>1. /\ Up /\ pc[m] \in {"ok", "reinitOK", "reinit"}
        /\ UNCHANGED <<mainVars, carry, outVars, ssid, upVars, faults>>
        /\ initMsg' \in BOOLEAN /\ retried' \subseteq Msgs
        /\ spc' \in {"off", "get", "getting", "open", "sleep", "ended"}
    BY <1>2 DEF StoreInit, ReinitStore, ReinitClear, Inv, TypeOK
  <2>2. PICK x \in {"body", "post", "reinitPost"} : pc' = [pc EXCEPT ![m] = x]
    BY <1>2 DEF StoreInit, ReinitStore, ReinitClear
  <2>3. x \in Steps \ {"idle", "done"}
    BY DEF Steps
  <2>4. grant' = grant \/ grant' = [grant EXCEPT ![m] = 0]
    BY <1>2 DEF StoreInit, ReinitStore, ReinitClear
  <2>5. SetSession(grant[m]) \/ (SetSession(0) /\ pc[m] = "reinit")
    BY <1>2 DEF StoreInit, ReinitStore, ReinitClear
  <2>6. TypeOK'
    <3>1. session' \in Sids /\ dropped' \subseteq Sids
      BY <2>5, Basics DEF SetSession, Inv, TypeOK
    <3>2. grant' \in [Msgs -> Sids] /\ pc' \in [Msgs -> Steps]
      BY <2>2, <2>3, <2>4, Basics DEF Inv, TypeOK
    <3> QED
      BY <2>1, <3>1, <3>2 DEF Inv, TypeOK, upVars
  <2>7. \A k \in Msgs \ {m} : pc'[k] = pc[k] /\ grant'[k] = grant[k]
    BY <2>2, <2>4 DEF Inv, TypeOK
  <2>8. SessionsHeld'
    <3>1. CASE SetSession(grant[m])
      BY <2>1, <2>7, <3>1, HeldStore DEF upVars
    <3>2. CASE SetSession(0) /\ pc[m] = "reinit"
      <4>1. dropped \subseteq dropped' /\ (session' = session \/ (session \in alive => session \in dropped'))
        BY <3>2 DEF SetSession
      <4> QED
        BY <2>1, <2>7, <3>2, <4>1, HeldFrame DEF upVars
    <3> QED
      BY <2>5, <3>1, <3>2
  <2> QED
    BY <2>1, <2>2, <2>3, <2>6, <2>8, MoveStep DEF Busy
<1> QED
  BY <1>1, <1>2

-----------------------------------------------------------------------------
(* The invariant holds at first and every step keeps it.                   *)
LEMMA Invariant == Spec => []Inv
<1>1. Init => Inv
  <2> SUFFICES ASSUME Init PROVE Inv
    OBVIOUS
  <2>1. TypeOK
    <3>1. "idle" \in Steps /\ 1 \in 1..(Len(Script) + 1) /\ 0 \in 0..MaxFaults
      BY Basics, StdioFrontAssumption DEF Steps
    <3> QED
      BY <3>1, Basics DEF Init, TypeOK
  <2>2. Counted /\ NotifyWaits /\ AnsweredOnce /\ Drained
    BY Basics DEF Init, Counted, NotifyWaits, AnsweredOnce, Drained, Busy
  <2>3. Taken
    BY Basics DEF Init, Taken
  <2>4. SessionsHeld /\ NoSessionLeft
    BY DEF Init, SessionsHeld, NoSessionLeft
  <2> QED
    BY <2>1, <2>2, <2>3, <2>4 DEF Inv
<1>2. Inv /\ [Next]_vars => Inv'
  <2> SUFFICES ASSUME Inv, [Next]_vars PROVE Inv'
    OBVIOUS
  <2>1. ASSUME NEW m \in Msgs, PostStep(m) \/ Hang(m) PROVE Inv'
    BY <2>1, WalkSteps, EndSteps, SessionSteps DEF PostStep
  <2>2. CASE UNCHANGED vars
    <3>1. TypeOK'
      BY <2>2 DEF vars, mainVars, sessVars, postVars, outVars, streamVars, upVars, Inv, TypeOK
    <3> QED
      BY <2>2, <3>1, QuietStep DEF vars, mainVars, sessVars, postVars, outVars, upVars
  <2> QED
    BY <2>1, <2>2, MainSteps, BesideSteps DEF Next, MainStep
<1> QED
  BY <1>1, <1>2, PTL DEF Spec

(* Every variable of stdiofront keeps its type.                            *)
THEOREM FrontTypeCorrect == Spec => []TypeOK
  BY Invariant, PTL DEF Inv

(* Serve: when the session is closed, every request taken off stdin has    *)
(* been answered, once, unless drain gave up on it or its event stream     *)
(* ended without an answer.                                                *)
THEOREM RepliesPrecedeExit == Spec => []RepliesBeforeExit
<1>1. Inv => RepliesBeforeExit
  <2> SUFFICES ASSUME Inv, main \in {"close", "exited"}, ~ gaveUp,
                      NEW i \in 1..(next - 1), Script[i] \in Requests
               PROVE  answers[Script[i]] = 1 \/ Script[i] \in silent
    BY DEF RepliesBeforeExit
  <2>1. i \in 1..Len(Script) /\ ~ (next <= i)
    BY Basics DEF Inv, TypeOK
  <2>2. pc[Script[i]] # "idle"
    BY <2>1 DEF Inv, Taken
  <2>3. pc[Script[i]] = "done"
    BY <2>2 DEF Inv, Drained, Counted, Busy
  <2> QED
    BY <2>3 DEF Inv, AnsweredOnce
<1> QED
  BY <1>1, Invariant, PTL

(* closeSession: after an orderly exit the endpoint holds no session of    *)
(* ours other than the ones that racing re-initialisations dropped, whose  *)
(* DELETE failed, or whose grant was lost on its way.                      *)
THEOREM SessionsAreClosed == Spec => []NoSessionLeft
  BY Invariant, PTL DEF Inv
=============================================================================
