--------------------------- MODULE AccountsProofs ---------------------------
(***************************************************************************)
(* Theorems about Accounts for any number of clients and registrations:    *)
(* the two unique indexes keep accounts apart, and answers can be relied   *)
(* on.  The invariant says what an INSERT has secured on its way: once     *)
(* past the first index its name, once past the second its address.        *)
(***************************************************************************)
EXTENDS Accounts, TLAPS

Stored == \A u \in users : \E i \in Inputs : u = Account(i)

Row(c) == Account(input[c])

(* A request past an index: no account and no other such request has what  *)
(* it entered there.                                                       *)
HasName(c)  == at[c] \in {"email", "commit"}
HasEmail(c) == at[c] = "commit"

NamesSecured ==
  \A c \in Clients : HasName(c) =>
    /\ \A u \in users : u.name # Row(c).name
    /\ \A d \in Clients \ {c} : HasName(d) => Row(d).name # Row(c).name

EmailsSecured ==
  \A c \in Clients : HasEmail(c) =>
    /\ \A u \in users : u.email # Row(c).email
    /\ \A d \in Clients \ {c} : HasEmail(d) => Row(d).email # Row(c).email

Apart == \A u, v \in users : u # v => u.email # v.email /\ u.name # v.name

(* What a client has been told holds, and he asks for nothing meanwhile.   *)
AnswersHold ==
  \A c \in Clients :
    /\ said[c] # "nothing" => at[c] = "idle"
    /\ said[c] = "created" => Row(c) \in users
    /\ said[c] = "taken" => \E u \in users : u.email = Row(c).email \/ u.name = Row(c).name

IInv == /\ TypeOK /\ Stored /\ NamesSecured /\ EmailsSecured /\ Apart /\ AnswersHold

(* What Register makes of an input.                                        *)
LEMMA AccountFields ==
  ASSUME NEW i \in Inputs
  PROVE  /\ Account(i).name = [text |-> i.name.text, caps |-> i.name.caps, padded |-> FALSE]
         /\ Account(i).email = [text |-> i.email.text, caps |-> FALSE, padded |-> FALSE]
         /\ Account(i).password = i.password /\ i.password \in Passwords
  <1>1. i.name \in Typed /\ i.email \in Typed /\ i.password \in Passwords
    BY TypedAssumption DEF Inputs
  <1> QED
    BY <1>1 DEF Account, Trim, ToLower, Typed

(* Stored rows have the form TypeOK asks for.                              *)
LEMMA StoredTyped ==
  ASSUME NEW S, \A u \in S : \E i \in Inputs : u = Account(i)
  PROVE  \A u \in S : u.password \in Passwords /\ ~u.name.padded
                          /\ ~u.email.padded /\ ~u.email.caps
  <1> SUFFICES ASSUME NEW u \in S
               PROVE  u.password \in Passwords /\ ~u.name.padded
                      /\ ~u.email.padded /\ ~u.email.caps
    OBVIOUS
  <1>1. PICK i \in Inputs : u = Account(i)
    OBVIOUS
  <1>2. /\ u.name = [text |-> i.name.text, caps |-> i.name.caps, padded |-> FALSE]
        /\ u.email = [text |-> i.email.text, caps |-> FALSE, padded |-> FALSE]
        /\ u.password \in Passwords
    BY <1>1, AccountFields
  <1>3. ~u.name.padded /\ ~u.email.padded /\ ~u.email.caps
    BY <1>2
  <1> QED
    BY <1>2, <1>3

LEMMA InitInv == Init => IInv
  BY DEF Init, IInv, TypeOK, Stored, NamesSecured, EmailsSecured, Apart, AnswersHold,
         HasName, HasEmail, Stages, Answers

(* A new request has secured nothing and been told nothing yet.            *)
LEMMA RegisterInv == ASSUME IInv, NEW c \in Clients, Register(c) PROVE IInv'
  <1> USE DEF IInv, Register
  <1>1. TypeOK'
    BY DEF TypeOK, Stages, Answers
  <1>2. Stored' /\ Apart'
    BY DEF Stored, Apart
  <1>3. \A d \in Clients : ~HasName(c)' /\ ~HasEmail(c)'
                           /\ (d # c => /\ Row(d)' = Row(d) /\ at'[d] = at[d] /\ said'[d] = said[d]
                                        /\ HasName(d)' = HasName(d) /\ HasEmail(d)' = HasEmail(d))
    BY DEF TypeOK, HasName, HasEmail, Row
  <1>4. NamesSecured'
    BY <1>3 DEF NamesSecured
  <1>5. EmailsSecured'
    BY <1>3 DEF EmailsSecured
  <1>6. AnswersHold'
    BY <1>3 DEF AnswersHold, TypeOK
  <1> QED
    BY <1>1, <1>2, <1>4, <1>5, <1>6

(* What stays as it is for the clients that do not take the step.          *)
Others(c) ==
  \A d \in Clients \ {c} :
    /\ Row(d)' = Row(d) /\ at'[d] = at[d] /\ said'[d] = said[d]
    /\ HasName(d)' = HasName(d) /\ HasEmail(d)' = HasEmail(d)

(* An answer ends the request of its client: he secures nothing any more.  *)
LEMMA AnswerEnds ==
  ASSUME IInv, NEW c \in Clients, NEW err, Answer(c, err), input' = input
  PROVE  /\ Others(c) /\ Row(c)' = Row(c)
         /\ at' \in [Clients -> Stages] /\ said' \in [Clients -> Answers]
         /\ at'[c] = "idle" /\ ~HasName(c)' /\ ~HasEmail(c)'
         /\ said'[c] = "created" => err = "none"
         /\ said'[c] = "taken" => err = "unique"
  BY DEF IInv, TypeOK, Answer, Others, HasName, HasEmail, Row, Stages, Answers,
         IsUniqueViolation

(* So an answer that leaves the table alone and is true keeps everything.  *)
LEMMA AnswerInv ==
  ASSUME IInv, NEW c \in Clients, NEW err, Answer(c, err), input' = input, users' = users,
         err # "none",
         err = "unique" => \E u \in users : u.email = Row(c).email \/ u.name = Row(c).name
  PROVE  IInv'
  <1>1. /\ Others(c) /\ Row(c)' = Row(c)
        /\ at' \in [Clients -> Stages] /\ said' \in [Clients -> Answers]
        /\ at'[c] = "idle" /\ ~HasName(c)' /\ ~HasEmail(c)'
        /\ said'[c] # "created"
        /\ said'[c] = "taken" => err = "unique"
    BY AnswerEnds
  <1>2. TypeOK' /\ Stored' /\ Apart'
    BY <1>1 DEF IInv, TypeOK, Stored, Apart
  <1>3. NamesSecured'
    BY <1>1 DEF IInv, NamesSecured, Others
  <1>4. EmailsSecured'
    BY <1>1 DEF IInv, EmailsSecured, Others
  <1>5. AnswersHold'
    BY <1>1 DEF IInv, AnswersHold, Others
  <1> QED
    BY <1>2, <1>3, <1>4, <1>5 DEF IInv

(* A request passes an index: nobody has what it enters there, and who has *)
(* not yet passed it is waited for no longer.                              *)
LEMMA PassName ==
  ASSUME IInv, NEW c \in Clients, EnterName(c), ~\E u \in users : u.name = Row(c).name
  PROVE  IInv'
  <1>1. /\ at[c] = "name" /\ users' = users /\ input' = input /\ said' = said
        /\ at' = [at EXCEPT ![c] = "email"]
        /\ \A d \in Clients \ {c} : HasName(d) => Row(d).name # Row(c).name
    BY DEF EnterName, Enter, Row, HasName
  <1>2. /\ Others(c) /\ Row(c)' = Row(c) /\ HasName(c)' /\ ~HasEmail(c)'
        /\ at' \in [Clients -> Stages]
    BY <1>1 DEF Others, Row, HasName, HasEmail, IInv, TypeOK, Stages
  <1>3. TypeOK' /\ Stored' /\ Apart'
    BY <1>1, <1>2 DEF IInv, TypeOK, Stored, Apart
  <1>4. NamesSecured'
    BY <1>1, <1>2 DEF IInv, NamesSecured, Others
  <1>5. EmailsSecured'
    BY <1>1, <1>2 DEF IInv, EmailsSecured, Others
  <1>6. AnswersHold'
    BY <1>1, <1>2 DEF IInv, AnswersHold, Others
  <1> QED
    BY <1>3, <1>4, <1>5, <1>6 DEF IInv

LEMMA PassEmail ==
  ASSUME IInv, NEW c \in Clients, EnterEmail(c), ~\E u \in users : u.email = Row(c).email
  PROVE  IInv'
  <1>1. /\ at[c] = "email" /\ users' = users /\ input' = input /\ said' = said
        /\ at' = [at EXCEPT ![c] = "commit"]
        /\ \A d \in Clients \ {c} : HasEmail(d) => Row(d).email # Row(c).email
    BY DEF EnterEmail, Enter, Row, HasEmail
  <1>2. /\ Others(c) /\ Row(c)' = Row(c) /\ HasName(c) /\ HasName(c)' /\ HasEmail(c)'
        /\ at' \in [Clients -> Stages]
    BY <1>1 DEF Others, Row, HasName, HasEmail, IInv, TypeOK, Stages
  <1>3. TypeOK' /\ Stored' /\ Apart'
    BY <1>1, <1>2 DEF IInv, TypeOK, Stored, Apart
  <1>4. NamesSecured'
    BY <1>1, <1>2 DEF IInv, NamesSecured, Others
  <1>5. EmailsSecured'
    BY <1>1, <1>2 DEF IInv, EmailsSecured, Others
  <1>6. AnswersHold'
    BY <1>1, <1>2 DEF IInv, AnswersHold, Others
  <1> QED
    BY <1>3, <1>4, <1>5, <1>6 DEF IInv

(* An INSERT enters the name, then the address, or meets an account.       *)
LEMMA EnterInv ==
  ASSUME IInv, NEW c \in Clients, EnterName(c) \/ EnterEmail(c) PROVE IInv'
  <1>1. CASE EnterName(c) /\ \E u \in users : u.name = Row(c).name
    BY <1>1, AnswerInv DEF EnterName, Enter, Row
  <1>2. CASE EnterEmail(c) /\ \E u \in users : u.email = Row(c).email
    BY <1>2, AnswerInv DEF EnterEmail, Enter, Row
  <1> QED
    BY <1>1, <1>2, PassName, PassEmail

(* A commit adds a row whose name and address its request has secured.     *)
LEMMA CommitInv ==
  ASSUME IInv, NEW c \in Clients, NEW err, at[c] = "commit", Answer(c, err),
         err # "unique", input' = input, users' = users \cup {Row(c)}
  PROVE  IInv'
  <1>1. /\ Others(c) /\ Row(c)' = Row(c)
        /\ at' \in [Clients -> Stages] /\ said' \in [Clients -> Answers]
        /\ at'[c] = "idle" /\ ~HasName(c)' /\ ~HasEmail(c)'
        /\ said'[c] # "taken"
    BY AnswerEnds
  <1>2. /\ \A u \in users : u.name # Row(c).name /\ u.email # Row(c).email
        /\ \A d \in Clients \ {c} : HasName(d) => Row(d).name # Row(c).name
        /\ \A d \in Clients \ {c} : HasEmail(d) => Row(d).email # Row(c).email
    BY DEF IInv, NamesSecured, EmailsSecured, HasName, HasEmail
  <1>3. Stored'
    BY DEF IInv, Stored, TypeOK, Row
  <1>4. TypeOK'
    <2>1. \A u \in users' : u.password \in Passwords /\ ~u.name.padded
                              /\ ~u.email.padded /\ ~u.email.caps
      BY <1>3, StoredTyped DEF Stored
    <2> QED
      BY <1>1, <2>1 DEF IInv, TypeOK
  <1>5. Apart'
    BY <1>2 DEF IInv, Apart
  <1>6. NamesSecured'
    BY <1>1, <1>2 DEF IInv, NamesSecured, Others
  <1>7. EmailsSecured'
    BY <1>1, <1>2 DEF IInv, EmailsSecured, Others
  <1>8. AnswersHold'
    BY <1>1 DEF IInv, AnswersHold, Others
  <1> QED
    BY <1>3, <1>4, <1>5, <1>6, <1>7, <1>8 DEF IInv

LEMMA NextInv == IInv /\ [Next]_vars => IInv'
  <1> SUFFICES ASSUME IInv, [Next]_vars PROVE IInv'
    OBVIOUS
  <1>1. ASSUME NEW c \in Clients, Commit(c) PROVE IInv'
    BY <1>1, CommitInv DEF Commit, Row
  <1>2. ASSUME NEW c \in Clients, Fail(c) PROVE IInv'
    <2>1. CASE users' = users
      BY <1>2, <2>1, AnswerInv DEF Fail
    <2>2. CASE at[c] = "commit" /\ users' = users \cup {Row(c)}
      BY <1>2, <2>2, CommitInv DEF Fail
    <2> QED
      BY <1>2, <2>1, <2>2 DEF Fail, Row
  <1>3. CASE UNCHANGED vars
    BY <1>3 DEF vars, IInv, TypeOK, Stored, NamesSecured, EmailsSecured, Apart,
                AnswersHold, HasName, HasEmail, Row
  <1> QED
    BY <1>1, <1>2, <1>3, RegisterInv, EnterInv DEF Next

THEOREM Invariance == Spec => []IInv
  BY InitInv, NextInv, PTL DEF Spec

(* Accounts are stored trimmed and addresses without capitals              *)
(* (user_service.go:70-75), and requests and answers have their forms.     *)
THEOREM TypeCorrect == Spec => []TypeOK
  <1>1. IInv => TypeOK
    BY DEF IInv
  <1> QED
    BY <1>1, Invariance, PTL

(* Two spellings of one address are one address to Register and Login.     *)
LEMMA SameAddress ==
  ASSUME NEW i \in Inputs, NEW e \in Emails, e.text = i.email.text
  PROVE  LoginAddress(e) = Account(i).email
  <1>1. e \in Typed
    BY TypedAssumption
  <1>2. LoginAddress(e) = [text |-> e.text, caps |-> FALSE, padded |-> FALSE]
    <2>1. PICK x : x = LoginAddress(e)
      OBVIOUS
    <2>2. x = [text |-> e.text, caps |-> FALSE, padded |-> FALSE]
      BY <1>1, <2>1 DEF LoginAddress, Trim, ToLower, Typed
    <2> QED
      BY <2>1, <2>2
  <1>3. Account(i).email = [text |-> i.email.text, caps |-> FALSE, padded |-> FALSE]
    BY AccountFields
  <1> QED
    BY <1>2, <1>3

(* However registrations overlap, fail and are repeated, an address has    *)
(* one account, and so has a name (user_service.go:70-77).                 *)
THEOREM AccountsAreApart == Spec => []OneAccountEach
  <1>1. ASSUME IInv PROVE OneAccountEach
    <2> SUFFICES ASSUME NEW u \in users, NEW v \in users, u # v
                 PROVE  u.email.text # v.email.text /\ u.name # v.name
      BY DEF OneAccountEach
    <2>1. PICK i \in Inputs, j \in Inputs : u = Account(i) /\ v = Account(j)
      BY <1>1 DEF IInv, Stored
    <2>2. u.email # v.email /\ u.name # v.name
      BY <1>1 DEF IInv, Apart
    <2>3. /\ u.email = [text |-> i.email.text, caps |-> FALSE, padded |-> FALSE]
          /\ v.email = [text |-> j.email.text, caps |-> FALSE, padded |-> FALSE]
      BY <2>1, AccountFields
    <2>4. u.email.text = i.email.text /\ v.email.text = j.email.text
      BY <2>3
    <2> QED
      BY <2>2, <2>3, <2>4
  <1> QED
    BY <1>1, Invariance, PTL

(* Who has been told that the account is created can log in with any       *)
(* spelling of the address, and to that account alone (auth.go:85,         *)
(* user_service.go:85-104).                                                *)
THEOREM CreatedIsUsable == Spec => []CreatedCanLogIn
  <1>1. ASSUME IInv PROVE CreatedCanLogIn
    <2> SUFFICES ASSUME NEW c \in Clients, said[c] = "created",
                        NEW e \in Emails, e.text = input[c].email.text
                 PROVE  Login(e, input[c].password) = {Account(input[c])}
      BY DEF CreatedCanLogIn
    <2>1. input[c] \in Inputs /\ Account(input[c]) \in users
      BY <1>1 DEF IInv, TypeOK, AnswersHold, Row
    <2>2. /\ LoginAddress(e) = Account(input[c]).email
          /\ Account(input[c]).password = input[c].password
      BY <2>1, SameAddress, AccountFields
    <2>3. \A u \in users : u.email = Account(input[c]).email => u = Account(input[c])
      BY <1>1, <2>1 DEF IInv, Apart
    <2> QED
      BY <2>1, <2>2, <2>3 DEF Login
  <1> QED
    BY <1>1, Invariance, PTL

(* Who has been refused met an account that is there for good, with his    *)
(* address or with his name (user_service.go:77-79).                       *)
THEOREM RefusalsAreTrue == Spec => []RefusedIsTaken
  <1>1. ASSUME IInv PROVE RefusedIsTaken
    <2> SUFFICES ASSUME NEW c \in Clients, said[c] = "taken"
                 PROVE  \E u \in users : \/ u.email.text = input[c].email.text
                                         \/ u.name = Trim(input[c].name)
      BY DEF RefusedIsTaken
    <2>1. PICK u \in users : u.email = Row(c).email \/ u.name = Row(c).name
      BY <1>1 DEF IInv, AnswersHold
    <2>2. input[c] \in Inputs
      BY <1>1 DEF IInv, TypeOK
    <2>3. Row(c).email.text = input[c].email.text
      <3>1. Row(c).email = [text |-> input[c].email.text, caps |-> FALSE, padded |-> FALSE]
        BY <2>2, AccountFields DEF Row
      <3> QED
        BY <3>1
    <2>4. Row(c).name = Trim(input[c].name)
      BY DEF Row, Account
    <2> QED
      BY <2>1, <2>3, <2>4
  <1> QED
    BY <1>1, Invariance, PTL
=============================================================================
