----------------------------- MODULE Migrations -----------------------------
(***************************************************************************)
(* internal/migrations/runner.go: cmd/migrate applies the files of its     *)
(* directory in the order of their names, each in a transaction that also  *)
(* records the name in schema_migrations.  Nothing keeps two runners       *)
(* apart: what they do to each other is decided by PostgreSQL.  A runner   *)
(* may stop at any point and be started again, from an image whose         *)
(* directory holds other files.                                            *)
(***************************************************************************)
EXTENDS Naturals

CONSTANTS
  Runners,
  Dirs,       \* the directories of the images: sets of files, a file being
              \* its place in the order of all names
  Repeatable  \* files whose statements succeed however often they are run
              \* and wait for nobody; a CREATE TABLE or ADD COLUMN does not

ASSUME DirsAssumption == Dirs \subseteq SUBSET Nat

Files == UNION Dirs

VARIABLES
  table,     \* schema_migrations is there
  recorded,  \* the names in it
  changed,   \* file -> how often its statements have been committed
  at,        \* runner -> the stage it has reached
  dir,       \* runner -> its directory
  todo,      \* runner -> the files its loop still has to visit
  faulted    \* auxiliary: a statement failed by itself or a process died

database == <<table, recorded, changed>>
vars == <<database, at, dir, todo, faulted>>

Ended  == {"done", "failed"}
Stages == {"ensure", "create", "check", "exec", "insert", "commit"} \cup Ended

Init == /\ table = FALSE /\ recorded = {}
        /\ changed = [f \in Files |-> 0]
        /\ at = [r \in Runners |-> "ensure"]
        /\ dir \in [Runners -> Dirs]
        /\ todo = dir
        /\ faulted = FALSE

(* Mutated form: the files are not sorted.                                 *)
VisitsAny(r, f) == f \in todo[r]

(* The file the loop is at: sort.Strings orders the directory.             *)
Visits(r, f) == f \in todo[r] /\ \A g \in todo[r] : f <= g

Goes(r, s) == at' = [at EXCEPT ![r] = s]

-----------------------------------------------------------------------------
(* Mutated form: CREATE TABLE without IF NOT EXISTS.                       *)
EnsureBlindly(r) ==
  /\ \/ at[r] = "ensure" /\ Goes(r, "create") /\ UNCHANGED table
     \/ /\ at[r] = "create" /\ table' = TRUE
        /\ Goes(r, IF table THEN "failed" ELSE "check")
  /\ UNCHANGED <<recorded, changed, dir, todo, faulted>>

(* CREATE TABLE IF NOT EXISTS looks first and creates after; of two that   *)
(* see no table the second violates a unique index of the catalogue.       *)
Ensure(r) ==
  /\ \/ /\ at[r] = "ensure" /\ Goes(r, IF table THEN "check" ELSE "create")
        /\ UNCHANGED table
     \/ /\ at[r] = "create" /\ ~table /\ table' = TRUE /\ Goes(r, "check")
     \/ /\ at[r] = "create" /\ table /\ Goes(r, "failed") /\ UNCHANGED table
  /\ UNCHANGED <<recorded, changed, dir, todo, faulted>>

(* Mutated forms: the loop does not get past a file that is there, or ends *)
(* with it.                                                                *)
StaysAt(r, f) == todo' = todo
Breaks(r, f)  == todo' = [todo EXCEPT ![r] = {}]

Skip(r, f) == todo' = [todo EXCEPT ![r] = @ \ {f}]

IsApplied(r) ==
  /\ at[r] = "check"
  /\ \/ /\ todo[r] = {} /\ Goes(r, "done") /\ UNCHANGED todo
     \/ \E f \in Files : /\ Visits(r, f) /\ f \in recorded
                         /\ Skip(r, f) /\ UNCHANGED at
     \/ \E f \in Files : /\ Visits(r, f) /\ f \notin recorded
                         /\ Goes(r, "exec") /\ UNCHANGED todo
  /\ UNCHANGED <<database, dir, faulted>>

(* Another runner's open transaction holds what the statements of f, or    *)
(* the row with its name, would have to create.                            *)
HeldByOther(r, f, stages) ==
  \E q \in Runners \ {r} : at[q] \in stages /\ Visits(q, f)

Exec(r) ==
  /\ at[r] = "exec"
  /\ \E f \in Files :
       /\ Visits(r, f)
       /\ \/ f \in Repeatable /\ Goes(r, "insert")
          \/ /\ f \notin Repeatable
             /\ ~HeldByOther(r, f, {"insert", "commit"})
             /\ Goes(r, IF changed[f] = 0 THEN "insert" ELSE "failed")
  /\ UNCHANGED <<database, dir, todo, faulted>>

Insert(r) ==
  /\ at[r] = "insert"
  /\ \E f \in Files :
       /\ Visits(r, f)
       /\ ~HeldByOther(r, f, {"commit"})
       /\ Goes(r, IF f \in recorded THEN "failed" ELSE "commit")
  /\ UNCHANGED <<database, dir, todo, faulted>>

Committed(f) == /\ recorded' = recorded \cup {f}
                /\ changed' = [changed EXCEPT ![f] = @ + 1]
                /\ UNCHANGED table

Commit(r) ==
  /\ at[r] = "commit"
  /\ \E f \in Files : Visits(r, f) /\ Committed(f) /\ Skip(r, f)
  /\ Goes(r, "check")
  /\ UNCHANGED <<dir, faulted>>

(* Mutated form: no transaction around the statements and the record.      *)
KeptChanges(r) ==
  \/ UNCHANGED database
  \/ /\ at[r] \in {"insert", "commit"}
     /\ \E f \in Files : /\ Visits(r, f)
                         /\ changed' = [changed EXCEPT ![f] = @ + 1]
     /\ UNCHANGED <<table, recorded>>

(* An open transaction is rolled back; a commit that is not heard of may   *)
(* have been carried out.                                                  *)
RolledBack(r) ==
  \/ UNCHANGED database
  \/ at[r] = "commit" /\ \E f \in Files : Visits(r, f) /\ Committed(f)

(* A statement fails or the process dies.                                  *)
Stop(r) ==
  /\ at[r] \notin Ended
  /\ RolledBack(r)
  /\ Goes(r, "failed")
  /\ faulted' = TRUE
  /\ UNCHANGED <<dir, todo>>

(* Somebody starts the runner again.                                       *)
Restart(r) ==
  /\ at[r] \in Ended
  /\ Goes(r, "ensure")
  /\ \E d \in Dirs : /\ dir' = [dir EXCEPT ![r] = d]
                     /\ todo' = [todo EXCEPT ![r] = d]
  /\ UNCHANGED <<database, faulted>>

Run(r) == Ensure(r) \/ IsApplied(r) \/ Exec(r) \/ Insert(r) \/ Commit(r)

Next == \E r \in Runners : Run(r) \/ Stop(r) \/ Restart(r)

Spec == Init /\ [][Next]_vars

(* A statement that waits for another transaction is queued behind it and  *)
(* not overtaken for ever: strong fairness.                                *)
FairSpec == Spec /\ \A r \in Runners : SF_vars(Run(r))

-----------------------------------------------------------------------------
(* TypeOK: values and, of what a runner has left, only files it has.       *)
TypeOK ==
  /\ table \in BOOLEAN /\ faulted \in BOOLEAN
  /\ recorded \subseteq Files
  /\ changed \in [Files -> Nat]
  /\ at \in [Runners -> Stages]
  /\ dir \in [Runners -> Dirs]
  /\ todo \in [Runners -> SUBSET Files]
  /\ \A r \in Runners : todo[r] \subseteq dir[r]

(* The changes of a file are made once, and exactly when its name is       *)
(* recorded, whatever runners overlap and wherever they stop               *)
(* (runner.go:78-100).                                                     *)
ChangedOnceIffRecorded ==
  \A f \in Files : changed[f] = IF f \in recorded THEN 1 ELSE 0

(* A file is never there without one that sorts before it and is in every  *)
(* directory it is in; one that only some directories have may come late   *)
(* (runner.go:32-50).                                                      *)
InOrder ==
  \A f \in recorded, g \in Files :
    g < f /\ (\A d \in Dirs : f \in d => g \in d) => g \in recorded

(* A runner that reports success leaves every file of its directory        *)
(* applied: the backend, which starts after it, finds its schema.          *)
DoneIsComplete == \A r \in Runners : at[r] = "done" => dir[r] \subseteq recorded

(* Runners get into each other's way, but never all of them: unless a      *)
(* statement or a process failed by itself, one of them succeeds.          *)
OneSucceeds ==
  ~faulted /\ (\A r \in Runners : at[r] \in Ended) =>
    Runners = {} \/ \E r \in Runners : at[r] = "done"

(* Every runner ends, those that wait for another's transaction included.  *)
RunnersEnd == \A r \in Runners : []<>(at[r] \in Ended)
=============================================================================
