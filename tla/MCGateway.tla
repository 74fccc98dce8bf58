----------------------------- MODULE MCGateway -----------------------------
(* Three connections over two keys and one caller of Dial: enough for a    *)
(* replacer to be replaced before it closes its predecessor.               *)
EXTENDS Gateway

CONSTANTS k1, k2, c1, c2, c3, d1

MCKeys == {k1, k2}
MCConns == {c1, c2, c3}
MCDials == {d1}
=============================================================================
