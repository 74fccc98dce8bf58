------------------------------ MODULE MCRelay -------------------------------
(* One agent, two connection names (while the agent is on its second       *)
(* connection, the abandoned first can still be anywhere in its handler;   *)
(* a name is used again once its handler has returned) and one request.    *)
EXTENDS Relay

CONSTANTS k1, c1, c2, q1

MCKeys == {k1}
MCConns == {c1, c2}
MCDials == {q1}
=============================================================================
