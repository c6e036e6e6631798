----------------------------- MODULE MCPresence -----------------------------
(* A small instance of Presence for TLC.                                   *)
EXTENDS Presence, TLC

CONSTANTS i1, i2, k1, k2, k3, k4, ann, bob

Symmetry == Permutations(Conns) \cup Permutations(Users) \cup Permutations(Instances)

AllFaults == {"sadd", "srem", "crash"}
=============================================================================
