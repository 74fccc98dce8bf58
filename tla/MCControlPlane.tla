--------------------------- MODULE MCControlPlane ---------------------------
(* Two concurrent creations against a cap of one, and a deletion in the    *)
(* sweep instance.  With three slugs and three requests the cap can be     *)
(* overrun by more than the race allows, and with three clock ticks a rate *)
(* window can be pruned.                                                   *)
EXTENDS ControlPlane, TLC

Symmetry == Permutations(Slugs) \cup Permutations(Reqs)
=============================================================================
