---------------------------- MODULE MCTokenCache ----------------------------
(* Two processes on one entry.  stdiofront's requests can be replayed; the *)
(* ones the agent relays cannot (http.ReadRequest sets no GetBody).        *)
EXTENDS TokenCache

CONSTANTS run, expose, r1, r2, r3

MCProcs == {run, expose}
MCReqs == {r1, r2, r3}
MCProcOf == [r \in Reqs |-> IF r = r3 THEN expose ELSE run]
MCReplayable == {r1, r2}
=============================================================================
