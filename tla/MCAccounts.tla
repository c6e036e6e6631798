----------------------------- MODULE MCAccounts -----------------------------
(* A small instance of Accounts for TLC: three clients, one name and one   *)
(* address in two spellings each, a second address, two passwords.         *)
EXTENDS Accounts, TLC

CONSTANTS c1, c2, c3

Plain(t)  == [text |-> t, caps |-> FALSE, padded |-> FALSE]
Sloppy(t) == [text |-> t, caps |-> TRUE, padded |-> TRUE]

TypedNames  == {Plain("ann"), Sloppy("ann"), Plain("al")}
TypedEmails == {Plain("a@x"), Sloppy("a@x"), Plain("b@x")}

Symmetry == Permutations(Clients)
=============================================================================
