---------------------------- MODULE MCBackoff ----------------------------
(* Two workers of one pool: they race for a request and one may miss it     *)
(* because the other has it locked.                                         *)
EXTENDS Backoff, TLC
CONSTANTS w1, w2, r1, r2
Pods == Permutations({w1, w2})
=============================================================================
