---------------------------- MODULE MCStdioFront ----------------------------
(* A client that initialises, sends a request and a notification, without  *)
(* waiting for answers: the last two are posted at the same time, one by a *)
(* goroutine and one by the main loop.                                     *)
EXTENDS StdioFront

MCScript == <<"init", "call", "notif">>
MCNotifs == {"notif"}
=============================================================================
