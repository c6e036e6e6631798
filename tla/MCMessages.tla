----------------------------- MODULE MCMessages -----------------------------
(* A small instance of Messages for TLC.                                   *)
EXTENDS Messages, TLC

CONSTANTS u1, u2, m1, m2, x, y, w1, w2

(* One user writes and renames, the other reads, leaves and joins again.   *)
WriterAndReader ==
  [u \in Users |-> IF u = u1 THEN {"create", "update", "delete", "rename"}
                   ELSE {"read"}]

(* A message says x at first and y once it is changed.                     *)
FirstAndSecond == [create |-> {x}, update |-> {y}]

Symmetric == Permutations(MsgIDs) \cup Permutations(Workers)
=============================================================================
