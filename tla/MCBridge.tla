------------------------------ MODULE MCBridge ------------------------------
(* Two requests and a notification through pipes that hold one message.    *)
EXTENDS Bridge

CONSTANTS p1, p2, p3, g1, i1, i2, i3

MCPosts == {p1, p2, p3}
MCGets == {g1}
NoGets == {}
MCIds == {i1, i2, i3}

(* The child's own messages: requests and notifications, or just requests. *)
MCServerIds == {i3, NoId}
RequestsOnly == {i3}

(* Every POST chose its own id ...                                         *)
DistinctIds == [p \in Posts |-> CASE p = p1 -> i1 [] p = p2 -> i2 [] OTHER -> NoId]

(* ... or two clients both number their requests from one.                 *)
SharedIds == [p \in Posts |-> IF p = p3 THEN NoId ELSE i1]
=============================================================================
