---------------------------- MODULE MCAmetsuchi ----------------------------
(* A small instance of Ametsuchi for TLC: a fork at height 2, and a block   *)
(* on top of one branch.                                                    *)
EXTENDS Ametsuchi

CONSTANTS g, b2, c2, b3

Heights == [b \in Block |-> CASE b = g -> 1 [] b \in {b2, c2} -> 2 [] b = b3 -> 3]

Previous == [b \in Block |-> CASE b = g -> zero [] b \in {b2, c2} -> g [] b = b3 -> b2]
=============================================================================
