----------------------------- MODULE MCSockets ------------------------------
(* A small instance of Sockets, and of the Session in it, for TLC: a       *)
(* conversation of one of two users.                                       *)
EXTENDS Sockets, TLC

CONSTANTS u1, u2, own

FirstsOwn == u1 :> {own} @@ u2 :> {}
=============================================================================
