------------------------------ MODULE Accounts ------------------------------
(***************************************************************************)
(* Registration and login: handlers/auth.go, services/user_service.go and  *)
(* repositories/user_repository.go on the users table of migration 001.    *)
(* The service looks for nobody before it inserts: what keeps two accounts *)
(* apart are two unique indexes and the form in which values reach them.   *)
(***************************************************************************)
EXTENDS Naturals

CONSTANTS
  Clients,
  Texts,
  Names, Emails, \* what can be typed
  Passwords,
  Malformed      \* texts and passwords that are too short, or no address

(* A text, whether it has capitals, whether it is surrounded by blanks.    *)
Typed == [text : Texts, caps : BOOLEAN, padded : BOOLEAN]

ASSUME TypedAssumption == Names \subseteq Typed /\ Emails \subseteq Typed

VARIABLES
  users,   \* accounts: names, addresses and passwords (bcrypt compares those)
  input,   \* client -> what it last asked to register
  at,      \* client -> how far its INSERT has come
  said     \* client -> the answer it has heard to that

vars == <<users, input, at, said>>

Inputs  == [name : Names, email : Emails, password : Passwords]
Stages  == {"idle", "name", "email", "commit"}
Answers == {"nothing", "created", "taken", "failed"}

Trim(s)    == [s EXCEPT !.padded = FALSE]
ToLower(s) == [s EXCEPT !.caps = FALSE]

(* Mutated form: the address keeps its capitals, as the name does.         *)
AccountAsTyped(i) ==
  [name |-> Trim(i.name), email |-> Trim(i.email), password |-> i.password]

(* The account Register makes of its input.                                *)
Account(i) ==
  [name |-> Trim(i.name), email |-> Trim(ToLower(i.email)), password |-> i.password]

ValidRegisterRequest(i) ==
  {i.name.text, i.email.text, i.password} \cap Malformed = {}

Init == /\ users = {}
        /\ \E i \in Inputs : input = [c \in Clients |-> i]
        /\ at = [c \in Clients |-> "idle"]
        /\ said = [c \in Clients |-> "nothing"]

-----------------------------------------------------------------------------
(* Mutated form: any error of the INSERT is taken for a conflict.          *)
AnyError(err) == err # "none"

IsUniqueViolation(err) == err = "unique"

(* The answer to an INSERT that ended in err; it may get lost.             *)
Answer(c, err) ==
  /\ at' = [at EXCEPT ![c] = "idle"]
  /\ \E s \in { "nothing", IF IsUniqueViolation(err) THEN "taken"
                           ELSE IF err = "none" THEN "created" ELSE "failed" } :
       said' = [said EXCEPT ![c] = s]

(* A request, new or the one before again; one that is not valid is        *)
(* answered 400 and does nothing.                                          *)
Register(c) ==
  /\ at[c] = "idle"
  /\ \E i \in Inputs : ValidRegisterRequest(i) /\ input' = [input EXCEPT ![c] = i]
  /\ at' = [at EXCEPT ![c] = "name"]
  /\ said' = [said EXCEPT ![c] = "nothing"]
  /\ UNCHANGED users

(* The INSERT enters a value of its row into a unique index: a row that is *)
(* there is a conflict, one that is not yet committed is waited for.       *)
Enter(c, field, held, next) ==
  LET Same(row) == row[field] = Account(input[c])[field]
  IN /\ at[c] = field
     /\ ~\E d \in Clients \ {c} : at[d] \in held /\ Same(Account(input[d]))
     /\ \/ (\E u \in users : Same(u)) /\ Answer(c, "unique")
        \/ /\ ~\E u \in users : Same(u)
           /\ at' = [at EXCEPT ![c] = next] /\ UNCHANGED said
     /\ UNCHANGED <<users, input>>

EnterName(c)  == Enter(c, "name", {"email", "commit"}, "email")
EnterEmail(c) == Enter(c, "email", {"commit"}, "commit")

Commit(c) ==
  /\ at[c] = "commit"
  /\ users' = users \cup {Account(input[c])}
  /\ Answer(c, "none")
  /\ UNCHANGED input

(* The hash, the connection or the process fails; of a COMMIT nobody knows *)
(* whether it was carried out.                                             *)
Fail(c) ==
  /\ at[c] # "idle"
  /\ \/ UNCHANGED users
     \/ at[c] = "commit" /\ users' = users \cup {Account(input[c])}
  /\ Answer(c, "other")
  /\ UNCHANGED input

Next == \E c \in Clients :
          Register(c) \/ EnterName(c) \/ EnterEmail(c) \/ Commit(c) \/ Fail(c)

Spec == Init /\ [][Next]_vars

-----------------------------------------------------------------------------
(* Mutated form: the address is looked for as it is typed.                 *)
LoginAddressAsTyped(email) == Trim(email)

LoginAddress(email) == Trim(ToLower(email))

(* The accounts Login can find and issue a token for.                      *)
Login(email, password) ==
  { u \in users : u.email = LoginAddress(email) /\ u.password = password }

-----------------------------------------------------------------------------
(* TypeOK: values; accounts are stored trimmed, addresses without capitals.*)
TypeOK ==
  /\ \A u \in users : u.password \in Passwords /\ ~u.name.padded
                      /\ ~u.email.padded /\ ~u.email.caps
  /\ input \in [Clients -> Inputs]
  /\ at \in [Clients -> Stages]
  /\ said \in [Clients -> Answers]

(* Whatever registrations overlap, an address has one account however it   *)
(* was spelled, and a name, spelled the same way, has one                  *)
(* (user_service.go:70-77).                                                *)
OneAccountEach ==
  \A u, v \in users : u # v => /\ u.email.text # v.email.text
                               /\ u.name # v.name

(* Who was told that the account is created can log in with the address    *)
(* spelled in any way, and comes to one account, the one asked for         *)
(* (auth.go:85, user_service.go:85-104).                                   *)
CreatedCanLogIn ==
  \A c \in Clients : said[c] = "created" =>
    \A e \in Emails : e.text = input[c].email.text =>
      Login(e, input[c].password) = {Account(input[c])}

(* Who was refused was refused because of an account that is there to      *)
(* stay, and not because of a registration that came to nothing; the       *)
(* answer speaks of the address even where it is the name that is taken    *)
(* (user_service.go:77-79).                                                *)
RefusedIsTaken ==
  \A c \in Clients : said[c] = "taken" =>
    \E u \in users : \/ u.email.text = input[c].email.text
                     \/ u.name = Trim(input[c].name)
=============================================================================
