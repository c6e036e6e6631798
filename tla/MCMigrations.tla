---------------------------- MODULE MCMigrations ----------------------------
(* A small instance of Migrations for TLC: the three files of the           *)
(* repository, an image from before the third, and one from a branch that  *)
(* has the third but not the second.  The second can be repeated.          *)
EXTENDS Migrations

CONSTANTS r1, r2, r3

Images == {{1, 2}, {1, 3}, {1, 2, 3}}
=============================================================================
