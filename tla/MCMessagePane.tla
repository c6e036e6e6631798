--------------------------- MODULE MCMessagePane ---------------------------
(* A small instance of MessagePane for TLC.                                *)
EXTENDS MessagePane

CONSTANTS c1, c2

(* The user turns to an empty conversation and back.                       *)
OneBusy == [c \in Convs |-> IF c = c1 THEN 3 ELSE 0]
=============================================================================
