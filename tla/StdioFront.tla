----------------------------- MODULE StdioFront -----------------------------
(***************************************************************************)
(* internal/stdiofront: `mcptunnel run --url', which speaks MCP on stdio   *)
(* and forwards to a remote streamable-HTTP endpoint.  The main loop takes *)
(* the client's lines in order; each request is posted by a goroutine of   *)
(* its own, a notification by the main loop itself.  The endpoint grants a *)
(* session with `initialize' and answers 404 once that has expired; the    *)
(* poster that sees the 404 replays the cached initialize and posts again. *)
(* The session id is guarded by s.mu, which is never held across a call,   *)
(* so all of this interleaves.  A further goroutine follows the endpoint's *)
(* event stream.                                                           *)
(*                                                                         *)
(* The endpoint is external.  It gives every initialize a new session, may *)
(* fail, hang or lose any exchange, and may forget a session at any time.  *)
(***************************************************************************)
EXTENDS Naturals, Sequences, FiniteSets

CONSTANTS
    Script,       \* the client's messages, one for each of its lines
    InitMsg,      \* the initialize request among them
    Notifs,       \* those without an id, or that are answers
    MaxSessions,  \* bound: sessions ever granted
    MaxFaults     \* bound: expired sessions, failed or hanging exchanges

ASSUME StdioFrontAssumption ==
    /\ Script \in Seq(STRING)
    /\ \A i, j \in 1..Len(Script) : Script[i] = Script[j] => i = j
    /\ MaxSessions \in Nat \ {0}
    /\ MaxFaults \in Nat

Msgs == {Script[i] : i \in 1..Len(Script)}
Requests == Msgs \ Notifs
Sids == 0..MaxSessions    \* 0 is the empty session id

VARIABLES
    main,      \* Serve: where the main loop is
    next,      \* the line it takes next
    eof,       \* stdin has ended
    ctx,       \* ctx has been cancelled (Ctrl-C)
    wg,        \* s.wg: requests not yet finished
    gaveUp,    \* drain ran into its 5 s limit
    session, initMsg,   \* s.session; whether s.initMsg is set
    pc,        \* where each message's post (and request) is
    retried,   \* messages past their re-initialisation
    carry,     \* the session id in a message's last POST
    grant,     \* the session id in the answer it got
    answers,   \* responses with the request's id written to stdout
    silent,    \* requests whose event stream ended without one
    spc, ssid, \* stream: where it is, the session id in its GET while that lasts
    granted,   \* the endpoint: sessions granted so far,
    alive,     \* sessions it knows,
    lost,      \* sessions whose grant never got back to us
    dropped,   \* sessions that s.session lost while they were alive
    faults

mainVars == <<main, next, eof, ctx, wg, gaveUp>>
sessVars == <<session, initMsg>>
postVars == <<pc, retried, carry, grant>>
outVars == <<answers, silent>>
streamVars == <<spc, ssid>>
upVars == <<granted, alive, lost>>
vars == <<mainVars, sessVars, postVars, outVars, streamVars, upVars, dropped, faults>>

Up == main # "exited"
Fault == faults < MaxFaults /\ faults' = faults + 1

Init ==
    /\ main = "loop" /\ next = 1 /\ eof = FALSE /\ ctx = FALSE /\ wg = {} /\ gaveUp = FALSE
    /\ session = 0 /\ initMsg = FALSE
    /\ pc = [m \in Msgs |-> "idle"]
    /\ retried = {}
    /\ carry = [m \in Msgs |-> 0]
    /\ grant = [m \in Msgs |-> 0]
    /\ answers = [m \in Msgs |-> 0]
    /\ silent = {}
    /\ spc = "off" /\ ssid = 0
    /\ granted = 0 /\ alive = {} /\ lost = {} /\ dropped = {} /\ faults = 0

-----------------------------------------------------------------------------
(* Serve and handleLine                                                    *)

(* Seeded bugs: every line is counted; the goroutine is started without    *)
(* wg.Add.                                                                 *)
TakeLineCountsAll ==
    /\ main = "loop" /\ next <= Len(Script)
    /\ LET m == Script[next] IN
       /\ pc' = [pc EXCEPT ![m] = "post"]
       /\ wg' = wg \cup {m}
       /\ main' = IF m \in Notifs THEN "notify" ELSE main
    /\ next' = next + 1
    /\ UNCHANGED <<eof, ctx, gaveUp, sessVars, retried, carry, grant, outVars, streamVars, upVars, dropped, faults>>
TakeLineUncounted ==
    /\ main = "loop" /\ next <= Len(Script)
    /\ LET m == Script[next] IN
       /\ pc' = [pc EXCEPT ![m] = "post"]
       /\ main' = IF m \in Notifs THEN "notify" ELSE main
    /\ next' = next + 1
    /\ UNCHANGED <<wg, eof, ctx, gaveUp, sessVars, retried, carry, grant, outVars, streamVars, upVars, dropped, faults>>

(* A line: a request gets a goroutine and is counted in s.wg first; a      *)
(* notification is posted by the main loop, which waits for it.            *)
TakeLine ==
    /\ main = "loop" /\ next <= Len(Script)
    /\ LET m == Script[next] IN
       /\ pc' = [pc EXCEPT ![m] = "post"]
       /\ wg' = IF m \in Notifs THEN wg ELSE wg \cup {m}
       /\ main' = IF m \in Notifs THEN "notify" ELSE main
    /\ next' = next + 1
    /\ UNCHANGED <<eof, ctx, gaveUp, sessVars, retried, carry, grant, outVars, streamVars, upVars, dropped, faults>>

(* The client closes stdin, or writes a line longer than maxLine:          *)
(* scanLines closes the channel. Lines written before that are still in    *)
(* it. (Once the loop is over, nobody looks.)                              *)
StdinEnds ==
    /\ main \in {"loop", "notify"} /\ ~ eof
    /\ eof' = TRUE
    /\ UNCHANGED <<main, next, ctx, wg, gaveUp, sessVars, postVars, outVars, streamVars, upVars, dropped, faults>>

(* The select finds the channel closed, after any number of lines, or ctx  *)
(* done; both only when the main loop is back in it.                       *)
LinesEnd ==
    /\ main = "loop" /\ (eof \/ ctx)
    /\ main' = "drain"
    /\ UNCHANGED <<next, eof, ctx, wg, gaveUp, sessVars, postVars, outVars, streamVars, upVars, dropped, faults>>

Cancel ==
    /\ Up /\ ~ ctx
    /\ ctx' = TRUE
    /\ UNCHANGED <<main, next, eof, wg, gaveUp, sessVars, postVars, outVars, streamVars, upVars, dropped, faults>>

(* Seeded bug: no limit.                                                   *)
DrainForever ==
    /\ main = "drain" /\ wg = {}
    /\ main' = "close"
    /\ UNCHANGED <<gaveUp, next, eof, ctx, wg, sessVars, postVars, outVars, streamVars, upVars, dropped, faults>>

(* drain: until the last request has finished, or for five seconds.        *)
Drain ==
    /\ main = "drain"
    /\ main' = "close"
    /\ gaveUp' = (wg # {})
    /\ UNCHANGED <<next, eof, ctx, wg, sessVars, postVars, outVars, streamVars, upVars, dropped, faults>>

(* Seeded bug: the session of the first initialize is deleted.             *)
CloseFirstSession ==
    /\ main = "close"
    /\ main' = "exited"
    /\ alive' = alive \ {1}
    /\ UNCHANGED <<dropped, faults, next, eof, ctx, wg, gaveUp, sessVars, postVars, outVars, streamVars, granted, lost>>

(* closeSession: DELETE the current session, if there is one; the DELETE   *)
(* may be lost.  Then Serve returns and the process ends.                  *)
CloseSession ==
    /\ main = "close"
    /\ main' = "exited"
    /\ \/ alive' = alive \ {session} /\ UNCHANGED <<dropped, faults>>
       \/ session # 0 /\ Fault /\ dropped' = dropped \cup {session} /\ UNCHANGED alive
    /\ UNCHANGED <<next, eof, ctx, wg, gaveUp, sessVars, postVars, outVars, streamVars, granted, lost>>

-----------------------------------------------------------------------------
(* request, post and reinit; the notification's post differs in that       *)
(* nothing is written and the main loop goes on afterwards.                *)

(* The post of m is over, with n response lines written for it.            *)
Finish(m, n) ==
    /\ pc' = [pc EXCEPT ![m] = "done"]
    /\ retried' = retried \ {m}
    /\ carry' = [carry EXCEPT ![m] = 0]
    /\ grant' = [grant EXCEPT ![m] = 0]
    /\ wg' = wg \ {m}
    /\ answers' = IF m \in Notifs THEN answers ELSE [answers EXCEPT ![m] = @ + n]
    /\ main' = IF m \in Notifs THEN "loop" ELSE main

Hanging == {"hung", "bodyHung", "reinitHung"}
AtStep(m, step) == Up /\ pc[m] = step
Goto(m, step) == pc' = [pc EXCEPT ![m] = step]

(* s.session = sid: a live session that was there is forgotten.            *)
SetSession(sid) ==
    /\ session' = sid
    /\ dropped' = dropped \cup ({session} \cap (alive \ {sid}))

(* doPost reads the session id and sends.                                  *)
DoPost(m) ==
    /\ AtStep(m, "post")
    /\ Goto(m, "sent")
    /\ carry' = [carry EXCEPT ![m] = session]
    /\ UNCHANGED <<mainVars, sessVars, retried, grant, outVars, streamVars, upVars, dropped, faults>>

Expired(m) == carry[m] # 0 /\ carry[m] \notin alive

(* 404 for a session the endpoint has forgotten; post returns the second   *)
(* one to its caller, which reports it.                                    *)
Respond404(m) ==
    /\ AtStep(m, "sent") /\ Expired(m)
    /\ IF m \in retried
       THEN Finish(m, 1)
       ELSE Goto(m, "got404") /\ UNCHANGED <<retried, carry, grant, wg, answers, main>>
    /\ UNCHANGED <<next, eof, ctx, gaveUp, sessVars, silent, streamVars, upVars, dropped, faults>>

(* The endpoint grants a session for an initialize ...                     *)
OpenSession ==
    /\ granted < MaxSessions
    /\ granted' = granted + 1
    /\ alive' = alive \cup {granted + 1}

(* ... and its answer reaches the post of m.                               *)
GrantSession(m) ==
    /\ OpenSession
    /\ grant' = [grant EXCEPT ![m] = granted + 1]
    /\ UNCHANGED lost

(* The exchange of m fails (hc.Do returns an error). If it carried an      *)
(* initialize the endpoint may have granted a session before its answer    *)
(* was lost or ctx was cancelled: nobody here learns of it.                *)
MayLoseSession(m) ==
    \/ UNCHANGED upVars
    \/ /\ m = InitMsg \/ pc[m] \in {"reinitSent", "reinitHung"}
       /\ ~ Expired(m)
       /\ OpenSession
       /\ lost' = lost \cup {granted + 1}

RespondOK(m) ==
    /\ AtStep(m, "sent") /\ ~ Expired(m)
    /\ Goto(m, "ok")
    /\ IF m = InitMsg THEN GrantSession(m) ELSE UNCHANGED <<upVars, grant>>
    /\ UNCHANGED <<mainVars, sessVars, retried, carry, outVars, streamVars, dropped, faults>>

(* Any other status, or no response at all: a request gets an error line.  *)
(* The endpoint refuses a request without session; otherwise it is a       *)
(* fault, or ctx was cancelled.                                            *)
RespondErr(m) ==
    /\ AtStep(m, "sent")
    /\ \/ (ctx \/ (carry[m] = 0 /\ m # InitMsg) \/ granted = MaxSessions) /\ UNCHANGED faults
       \/ Fault
    /\ Finish(m, 1)
    /\ MayLoseSession(m)
    /\ UNCHANGED <<next, eof, ctx, gaveUp, sessVars, silent, streamVars, dropped>>

(* request, after a 2xx for initialize: keep the message and the session   *)
(* and start the stream, once.                                             *)
StoreInit(m) ==
    /\ AtStep(m, "ok") /\ m = InitMsg
    /\ Goto(m, "body")
    /\ initMsg' = TRUE
    /\ SetSession(grant[m])
    /\ spc' = IF spc = "off" THEN "get" ELSE spc
    /\ UNCHANGED <<mainVars, retried, carry, grant, outVars, ssid, upVars, faults>>

HasBody(m) == (AtStep(m, "ok") /\ m # InitMsg) \/ AtStep(m, "body")

(* A JSON body is written as the response, or an error if it cannot be     *)
(* read; a notification's body is closed unread.                           *)
ReadJSON(m) ==
    /\ HasBody(m)
    /\ Finish(m, 1)
    /\ UNCHANGED <<next, eof, ctx, gaveUp, sessVars, silent, streamVars, upVars, dropped, faults>>

(* An event stream is read up to the event with the request's id, which is *)
(* the response.  When it ends before that, nothing is written.            *)
ReadSSE(m) ==
    /\ HasBody(m) /\ m \notin Notifs
    /\ \/ Finish(m, 1) /\ UNCHANGED <<silent, faults>>
       \/ Fault /\ Finish(m, 0) /\ silent' = silent \cup {m}
    /\ UNCHANGED <<next, eof, ctx, gaveUp, sessVars, streamVars, upVars, dropped>>

(* The endpoint neither answers nor closes, or stops within the body of    *)
(* its answer: there is no timeout.                                        *)
Hang(m) ==
    /\ Fault
    /\ \/ AtStep(m, "sent") /\ Goto(m, "hung")
       \/ HasBody(m) /\ m \notin Notifs /\ Goto(m, "bodyHung")
       \/ AtStep(m, "reinitSent") /\ Goto(m, "reinitHung")
    /\ UNCHANGED <<mainVars, sessVars, retried, carry, grant, outVars, streamVars, upVars, dropped>>

(* Only cancelling ctx ends that, with an error line unless an event       *)
(* stream was being read.                                                  *)
HangEnds(m) ==
    /\ Up /\ pc[m] \in Hanging /\ ctx
    /\ \/ Finish(m, 1) /\ UNCHANGED silent
       \/ pc[m] = "bodyHung" /\ m \notin Notifs /\ Finish(m, 0) /\ silent' = silent \cup {m}
    /\ IF pc[m] = "bodyHung" THEN UNCHANGED upVars ELSE MayLoseSession(m)
    /\ UNCHANGED <<next, eof, ctx, gaveUp, sessVars, streamVars, dropped, faults>>

(* Seeded bug: the 404 is dropped.                                         *)
Check404Quiet(m) ==
    /\ AtStep(m, "got404")
    /\ IF session = 0
       THEN Finish(m, 0)
       ELSE Goto(m, "reinit") /\ UNCHANGED <<retried, carry, grant, wg, answers, main>>
    /\ UNCHANGED <<next, eof, ctx, gaveUp, sessVars, silent, streamVars, upVars, dropped, faults>>

(* post after a 404: another poster may have cleared the session meanwhile *)
(* and then the 404 is returned as it is.                                  *)
Check404(m) ==
    /\ AtStep(m, "got404")
    /\ IF session = 0
       THEN Finish(m, 1)
       ELSE Goto(m, "reinit") /\ UNCHANGED <<retried, carry, grant, wg, answers, main>>
    /\ UNCHANGED <<next, eof, ctx, gaveUp, sessVars, silent, streamVars, upVars, dropped, faults>>

(* reinit: clear the session, whichever it is by now, under s.mu ...       *)
ReinitClear(m) ==
    /\ AtStep(m, "reinit")
    /\ SetSession(0)
    /\ IF initMsg
       THEN Goto(m, "reinitPost") /\ UNCHANGED <<retried, carry, grant, wg, answers, main>>
       ELSE Finish(m, 1)
    /\ UNCHANGED <<next, eof, ctx, gaveUp, initMsg, silent, streamVars, upVars, faults>>

(* ... replay initialize with what doPost then finds in s.session ...      *)
ReinitPost(m) ==
    /\ AtStep(m, "reinitPost")
    /\ Goto(m, "reinitSent")
    /\ carry' = [carry EXCEPT ![m] = session]
    /\ UNCHANGED <<mainVars, sessVars, retried, grant, outVars, streamVars, upVars, dropped, faults>>

ReinitOK(m) ==
    /\ AtStep(m, "reinitSent") /\ ~ Expired(m)
    /\ Goto(m, "reinitOK")
    /\ GrantSession(m)
    /\ UNCHANGED <<mainVars, sessVars, retried, carry, outVars, streamVars, dropped, faults>>

ReinitErr(m) ==
    /\ AtStep(m, "reinitSent")
    /\ \/ (ctx \/ Expired(m) \/ granted = MaxSessions) /\ UNCHANGED faults
       \/ Fault
    /\ Finish(m, 1)
    /\ MayLoseSession(m)
    /\ UNCHANGED <<next, eof, ctx, gaveUp, sessVars, silent, streamVars, dropped>>

(* (Where the body of that answer hung, io.Copy's error is ignored and the *)
(* session in its header is used.)                                         *)
ReinitHangEnds(m) ==
    /\ AtStep(m, "reinitHung") /\ ctx /\ ~ Expired(m)
    /\ Goto(m, "reinitOK")
    /\ GrantSession(m)
    /\ UNCHANGED <<mainVars, sessVars, retried, carry, outVars, streamVars, dropped, faults>>

(* ... store what was granted, under s.mu again, and post once more.       *)
ReinitStore(m) ==
    /\ AtStep(m, "reinitOK")
    /\ SetSession(grant[m])
    /\ Goto(m, "post")
    /\ retried' = retried \cup {m}
    /\ grant' = [grant EXCEPT ![m] = 0]
    /\ UNCHANGED <<mainVars, initMsg, carry, outVars, streamVars, upVars, faults>>

-----------------------------------------------------------------------------
(* stream                                                                  *)

(* Seeded bug: the session id is read once, that of the first session.     *)
StreamGetOnce ==
    /\ Up /\ spc = "get" /\ ~ ctx
    /\ spc' = "getting"
    /\ ssid' = 1
    /\ UNCHANGED <<mainVars, sessVars, postVars, outVars, upVars, dropped, faults>>

StreamGet ==
    /\ Up /\ spc = "get" /\ ~ ctx
    /\ spc' = "getting"
    /\ ssid' = session
    /\ UNCHANGED <<mainVars, sessVars, postVars, outVars, upVars, dropped, faults>>

(* 2xx for a session the endpoint knows, an error status for another one,  *)
(* a failed call, or 405 from an endpoint without this stream.             *)
StreamAnswer ==
    /\ Up /\ spc = "getting"
    /\ \/ ssid \in alive /\ spc' = "open" /\ UNCHANGED <<ssid, faults>>
       \/ ssid \notin alive /\ spc' = "sleep" /\ ssid' = 0 /\ UNCHANGED faults
       \/ spc' = "sleep" /\ ssid' = 0 /\ Fault
       \/ spc' = "ended" /\ ssid' = 0 /\ UNCHANGED faults
    /\ UNCHANGED <<mainVars, sessVars, postVars, outVars, upVars, dropped>>

(* The open stream ends with its session, or breaks; sleep returns; ctx    *)
(* ends it all.                                                            *)
StreamAgain ==
    /\ Up
    /\ \/ spc = "open" /\ ssid \notin alive /\ spc' = "get" /\ UNCHANGED faults
       \/ spc = "open" /\ spc' = "get" /\ Fault
       \/ spc = "sleep" /\ spc' = "get" /\ UNCHANGED faults
       \/ ctx /\ spc \notin {"off", "ended"} /\ spc' = "ended" /\ UNCHANGED faults
    /\ ssid' = 0
    /\ UNCHANGED <<mainVars, sessVars, postVars, outVars, upVars, dropped>>

(* The endpoint forgets a session.                                         *)
Expire(s) ==
    /\ s \in alive /\ Fault
    /\ alive' = alive \ {s}
    /\ UNCHANGED <<mainVars, sessVars, postVars, outVars, streamVars, granted, lost, dropped>>

-----------------------------------------------------------------------------
MainStep == TakeLine \/ LinesEnd \/ Drain \/ CloseSession
PostStep(m) ==
    \/ DoPost(m) \/ Respond404(m) \/ RespondOK(m) \/ RespondErr(m) \/ StoreInit(m)
    \/ ReadJSON(m) \/ ReadSSE(m) \/ HangEnds(m) \/ Check404(m) \/ ReinitClear(m)
    \/ ReinitPost(m) \/ ReinitOK(m) \/ ReinitErr(m) \/ ReinitHangEnds(m) \/ ReinitStore(m)
StreamStep == StreamGet \/ StreamAnswer \/ StreamAgain

Next ==
    \/ MainStep \/ StdinEnds \/ Cancel
    \/ \E m \in Msgs : PostStep(m) \/ Hang(m)
    \/ StreamStep
    \/ \E s \in Sids : Expire(s)

Spec == Init /\ [][Next]_vars

(* Goroutines and timers run, and the endpoint answers what does not hang. *)
(* Nobody has to close stdin or cancel. A behaviour has finitely many      *)
(* steps of the main loop and the posts, so one condition for all of them  *)
(* is as strong as one for each.                                           *)
FairSpec ==
    /\ Spec
    /\ WF_vars(MainStep \/ \E m \in Msgs : PostStep(m))
    /\ WF_vars(StreamStep)

-----------------------------------------------------------------------------
Steps == {"idle", "post", "sent", "got404", "reinit", "reinitPost", "reinitSent", "reinitOK",
          "ok", "body", "done"} \cup Hanging

TypeOK ==
    /\ main \in {"loop", "notify", "drain", "close", "exited"}
    /\ next \in 1..(Len(Script) + 1)
    /\ eof \in BOOLEAN /\ ctx \in BOOLEAN /\ gaveUp \in BOOLEAN /\ initMsg \in BOOLEAN
    /\ wg \subseteq Requests
    /\ session \in Sids
    /\ pc \in [Msgs -> Steps]
    /\ retried \subseteq Msgs
    /\ carry \in [Msgs -> Sids] /\ grant \in [Msgs -> Sids]
    /\ answers \in [Msgs -> Nat]
    /\ silent \subseteq Requests
    /\ spc \in {"off", "get", "getting", "open", "sleep", "ended"} /\ ssid \in Sids
    /\ granted \in Sids /\ alive \subseteq Sids
    /\ lost \subseteq Sids /\ dropped \subseteq Sids
    /\ faults \in 0..MaxFaults

(* `a client that closes stdin right after its last request still gets the *)
(* reply': unless drain gives up, a request that was taken off stdin has   *)
(* been answered when the session is closed and Serve returns, or its      *)
(* event stream ended without an answer.                                   *)
RepliesBeforeExit ==
    (main \in {"close", "exited"} /\ ~ gaveUp) =>
        \A i \in 1..(next - 1) :
            Script[i] \in Requests => answers[Script[i]] = 1 \/ Script[i] \in silent

(* closeSession `terminates the upstream session': after an orderly exit   *)
(* the endpoint holds no session of ours, other than those that were       *)
(* forgotten while alive when two posters re-initialised at once, those    *)
(* whose DELETE was lost, and those whose grant was lost: hc.Do failed on  *)
(* an initialize or its replay, by a fault or by Ctrl-C, after the         *)
(* endpoint had processed it.                                              *)
NoSessionLeft == (main = "exited" /\ ~ gaveUp) => alive \subseteq dropped \cup lost

(* Every request that is taken is answered, unless the endpoint leaves it  *)
(* hanging or ends its event stream without a response.                    *)
RequestsAnswered ==
    \A m \in Requests : (pc[m] = "post") ~> (answers[m] = 1 \/ m \in silent \/ pc[m] \in Hanging \/ ~ Up)

(* The post of a notification hangs, with the main loop in handleLine: it  *)
(* sees neither further lines nor the end of stdin, only a cancellation    *)
(* frees it.                                                               *)
MainLoopHangs == main = "notify" /\ ~ ctx /\ \E m \in Notifs \cap Msgs : pc[m] \in Hanging

(* Serve runs `until ctx is canceled or stdin reaches EOF': it returns     *)
(* after a cancellation at any moment, whatever hangs, and after the end   *)
(* of stdin, whatever requests hang; unless a notification that hangs      *)
(* keeps the main loop from finding out.                                   *)
ShutdownEnds == (eof \/ ctx) ~> (main = "exited" \/ MainLoopHangs)

(* The event stream follows the session: while a live session is current,  *)
(* the stream keeps coming back to it, unless the endpoint has none (405)  *)
(* or the stream is on a session that was forgotten while alive.           *)
StreamFollowsSession ==
    []<>(\/ ~ Up \/ ctx \/ session \notin alive
         \/ spc = "ended"
         \/ spc = "open" /\ (ssid = session \/ ssid \in dropped))
=============================================================================
