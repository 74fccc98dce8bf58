------------------------------- MODULE Expose -------------------------------
(***************************************************************************)
(* One run of `mcptunnel expose': runExpose from the creation of its quick *)
(* tunnel to the end of the process, with what runs beside it (the signal  *)
(* handler, the agent's goroutine, the MCP server child and os/exec's      *)
(* watcher), tunneld's side of its two requests, and the janitor.  The     *)
(* process may be killed at any point.  How the agent serves is Relay's    *)
(* subject, how the bridge serves Bridge's.                                *)
(***************************************************************************)
EXTENDS Sequences

VARIABLES
    pc,       \* where runExpose is
    stdio,    \* a command was given, not --url
    defers,   \* the deferred calls, the last one first
    ctx,      \* the signal context is cancelled
    closed,   \* b.Close has cancelled the child's own context
    child,    \* the MCP server's process
    reaped,   \* cmd.Wait has returned: b.Done() is closed
    agent,    \* the goroutine of agentClient.Run
    result,   \* what runExpose returns
    post,     \* POST /quick as tunneld sees it
    tenant,   \* the tunnel's row in the store
    failed    \* history: the DELETE did not get through

vars == <<pc, stdio, defers, ctx, closed, child, reaped, agent, result, post, tenant, failed>>

Ended == {"exited", "killed"}

Init ==
    /\ pc = "start"
    /\ stdio \in BOOLEAN
    /\ defers = <<>>
    /\ ctx = FALSE /\ closed = FALSE
    /\ child = "none" /\ reaped = FALSE
    /\ agent = "none"
    /\ result = "none"
    /\ post = "none"
    /\ tenant = "none"
    /\ failed = FALSE

(* runExpose returns r: the deferred calls run before it is gone.          *)
Return(r) == pc' = "returning" /\ result' = r

Defer(call) == defers' = <<call>> \o defers

-----------------------------------------------------------------------------
(* runExpose                                                               *)

(* Client.Do sends the request.                                            *)
Post ==
    /\ pc = "start"
    /\ pc' = "posting"
    /\ post' = "sent"
    /\ UNCHANGED <<stdio, defers, ctx, closed, child, reaped, agent, result, tenant, failed>>

(* The 201 arrives, and signals are caught from here on ...                *)
Posted ==
    /\ pc = "posting" /\ post = "created"
    /\ pc' = IF stdio THEN "start child" ELSE "new agent"
    /\ Defer("stop")
    /\ UNCHANGED <<stdio, ctx, closed, child, reaped, agent, result, post, tenant, failed>>

(* ... or tunneld refuses, or 30 seconds pass whatever it is doing.        *)
PostFails ==
    /\ pc = "posting"
    /\ Return("error")
    /\ UNCHANGED <<stdio, defers, ctx, closed, child, reaped, agent, post, tenant, failed>>

(* bridge.Start; it starts nothing once ctx is cancelled.                  *)
StartChild ==
    /\ pc = "start child"
    /\ \/ /\ ~ctx
          /\ pc' = "listen"
          /\ child' = "running"
          /\ Defer("close")
          /\ UNCHANGED result
       \/ Return("error") /\ UNCHANGED <<child, defers>>
    /\ UNCHANGED <<stdio, ctx, closed, reaped, agent, post, tenant, failed>>

Listen ==
    /\ pc = "listen"
    /\ \/ pc' = "new agent" /\ UNCHANGED result
       \/ Return("error")
    /\ UNCHANGED <<stdio, defers, ctx, closed, child, reaped, agent, post, tenant, failed>>

(* agent.New, which refuses only URLs that parseExposeArgs has refused     *)
(* before; only behind it is the deletion of the tunnel deferred, and the  *)
(* agent started.                                                          *)
NewAgent ==
    /\ pc = "new agent"
    /\ pc' = "serving"
    /\ Defer("delete")
    /\ agent' = "running"
    /\ UNCHANGED <<stdio, ctx, closed, child, reaped, result, post, tenant, failed>>

(* Seeded bug: only the child's end is waited for; for --url that channel  *)
(* is nil.                                                                 *)
SelectChildOnly ==
    /\ pc = "serving"
    /\ reaped /\ Return("child exited")
    /\ UNCHANGED <<stdio, defers, ctx, closed, child, reaped, agent, post, tenant, failed>>

(* Seeded bug: when the child is gone the process ends on the spot.        *)
SelectExits ==
    /\ pc = "serving"
    /\ \/ agent = "returned" /\ Return(IF ctx THEN "ok" ELSE "error")
       \/ reaped /\ pc' = "exited" /\ result' = "child exited"
    /\ UNCHANGED <<stdio, defers, ctx, closed, child, reaped, agent, post, tenant, failed>>

(* The select: both cases may be ready, since an interrupt kills the child *)
(* as well.                                                                *)
Select ==
    /\ pc = "serving"
    /\ \/ agent = "returned" /\ Return(IF ctx THEN "ok" ELSE "error")
       \/ reaped /\ Return("child exited")
    /\ UNCHANGED <<stdio, defers, ctx, closed, child, reaped, agent, post, tenant, failed>>

(* The next deferred call.  deleteTunnel sends its DELETE and waits, with  *)
(* no timeout, until it is answered or the connection fails: the row may   *)
(* be deleted either way, and every failure is ignored.  (The closing of   *)
(* the bridge's listener is left out.)                                     *)
Unwind ==
    /\ pc = "returning"
    /\ defers # <<>>
    /\ defers' = Tail(defers)
    /\ \/ /\ Head(defers) = "delete"
          /\ \/ tenant' = "gone" /\ UNCHANGED failed
             \/ failed' = TRUE /\ UNCHANGED tenant
          /\ UNCHANGED <<closed, ctx>>
       \/ Head(defers) = "close" /\ closed' = TRUE /\ UNCHANGED <<ctx, tenant, failed>>
       \/ Head(defers) = "stop" /\ ctx' = TRUE /\ UNCHANGED <<closed, tenant, failed>>
    /\ UNCHANGED <<pc, stdio, child, reaped, agent, result, post>>

Exit ==
    /\ pc = "returning" /\ defers = <<>>
    /\ pc' = "exited"
    /\ UNCHANGED <<stdio, defers, ctx, closed, child, reaped, agent, result, post, tenant, failed>>

Main == Post \/ Posted \/ PostFails \/ StartChild \/ Listen \/ NewAgent \/ Select \/ Unwind \/ Exit

-----------------------------------------------------------------------------
(* Beside it                                                               *)

(* SIGINT or SIGTERM.  It ends the process, unless NotifyContext catches   *)
(* it, and then only the first one does anything.                          *)
Interrupt ==
    /\ pc \notin Ended
    /\ IF defers = <<>> THEN pc' = "killed" /\ UNCHANGED ctx ELSE ctx' = TRUE /\ UNCHANGED pc
    /\ UNCHANGED <<stdio, defers, closed, child, reaped, agent, result, post, tenant, failed>>

(* SIGKILL, or the machine goes down.                                      *)
Kill ==
    /\ pc \notin Ended
    /\ pc' = "killed"
    /\ UNCHANGED <<stdio, defers, ctx, closed, child, reaped, agent, result, post, tenant, failed>>

(* Run returns when ctx is cancelled, and never before.                    *)
AgentReturns ==
    /\ pc \notin Ended
    /\ agent = "running" /\ ctx
    /\ agent' = "returned"
    /\ UNCHANGED <<pc, stdio, defers, ctx, closed, child, reaped, result, post, tenant, failed>>

(* The child ends by itself ...                                            *)
ChildExits ==
    /\ child = "running"
    /\ child' = "dead"
    /\ UNCHANGED <<pc, stdio, defers, ctx, closed, reaped, agent, result, post, tenant, failed>>

(* ... or os/exec's watcher kills it, if the process lives long enough for *)
(* that goroutine to run.                                                  *)
KillChild == (ctx \/ closed) /\ pc \notin Ended /\ ChildExits

Reap ==
    /\ pc \notin Ended
    /\ child = "dead" /\ ~reaped
    /\ reaped' = TRUE
    /\ UNCHANGED <<pc, stdio, defers, ctx, closed, child, agent, result, post, tenant, failed>>

-----------------------------------------------------------------------------
(* tunneld                                                                 *)

(* Seeded bug: the tenant is created without an expiry.                    *)
HandleQuickNoExpiry ==
    /\ post = "sent"
    /\ \/ post' = "created" /\ tenant' = "permanent"
       \/ post' = "refused" /\ tenant' \in {"none", "permanent"}
    /\ UNCHANGED <<pc, stdio, defers, ctx, closed, child, reaped, agent, result, failed>>

(* handleQuick, whether or not the client still waits.  When a later       *)
(* statement of it fails the tenant's row stays.                           *)
HandleQuick ==
    /\ post = "sent"
    /\ \/ post' = "created" /\ tenant' = "live"
       \/ post' = "refused" /\ tenant' \in {"none", "live"}
    /\ UNCHANGED <<pc, stdio, defers, ctx, closed, child, reaped, agent, result, failed>>

(* QuickTTL passes, and the janitor deletes the row.                       *)
Janitor ==
    /\ tenant = "live"
    /\ tenant' = "gone"
    /\ UNCHANGED <<pc, stdio, defers, ctx, closed, child, reaped, agent, result, post, failed>>

Next ==
    \/ Main
    \/ Interrupt \/ Kill
    \/ AgentReturns \/ ChildExits \/ KillChild \/ Reap
    \/ HandleQuick \/ Janitor

Spec == Init /\ [][Next]_vars

(* Goroutines run, the DELETE is answered or fails, time passes.  Nothing  *)
(* forces a signal, and the child need not end by itself.                  *)
FairSpec ==
    /\ Spec
    /\ WF_vars(Main)
    /\ WF_vars(AgentReturns)
    /\ WF_vars(KillChild)
    /\ WF_vars(Reap)
    /\ WF_vars(Janitor)

-----------------------------------------------------------------------------
(* `Delete the tunnel on exit so the password stops working': once the     *)
(* endpoint has been announced, the command does not end by itself,        *)
(* interrupted or because the child died, with the tunnel still there,     *)
(* unless the DELETE failed.                                               *)
ExitDeletes ==
    (pc = "exited" /\ result \in {"ok", "child exited"}) => (tenant = "gone" \/ failed)

(* Ctrl-C ends the command, for a child that ignores the signal and for a  *)
(* remote upstream alike.                                                  *)
InterruptEnds == ctx ~> (pc \in Ended)

(* `the 24h janitor is the safety net': however the command ended, killed  *)
(* in mid-creation or timed out before the row was there, the tunnel does  *)
(* not stay.                                                               *)
TunnelGoes == (tenant # "none") ~> (tenant = "gone")
=============================================================================
