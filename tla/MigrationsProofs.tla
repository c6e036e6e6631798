-------------------------- MODULE MigrationsProofs --------------------------
(***************************************************************************)
(* What overlapping runners keep, for any number of them, any directories  *)
(* and any files.                                                          *)
(***************************************************************************)
EXTENDS Migrations, TLAPS

(* What a runner has left behind in its loop is recorded.                  *)
Walked == \A r \in Runners : \A g \in dir[r] \ todo[r] : g \in recorded

(* A row about to be committed is not there yet, and is about to be        *)
(* committed by one runner.                                                *)
Fresh == \A r \in Runners, f \in Files :
           at[r] = "commit" /\ Visits(r, f)
             => /\ f \notin recorded
                /\ ~HeldByOther(r, f, {"commit"})

(* Whoever is done has nothing left of its list.                           *)
Finished == \A r \in Runners : at[r] = "done" => todo[r] = {}

(* The inductive invariant.                                                *)
IInv == TypeOK /\ ChangedOnceIffRecorded /\ InOrder /\ Walked /\ Fresh /\ Finished

-----------------------------------------------------------------------------
(* The loop is at one file.                                                *)
LEMMA VisitsOne ==
  ASSUME NEW r \in Runners, NEW f \in Files, NEW g \in Files,
         Visits(r, f), Visits(r, g)
  PROVE  f = g
<1>1. f <= g /\ g <= f
  BY DEF Visits
<1>2. f \in Nat /\ g \in Nat
  BY DirsAssumption DEF Files
<1> QED BY <1>1, <1>2

(* An image's files are files, and its directory is all a runner starts on.*)
LEMMA DirFiles == \A d \in Dirs : d \subseteq Files
BY DEF Files

(* Nothing is applied and everything is still to do at the start.          *)
LEMMA InitInv == Init => IInv
<1> SUFFICES ASSUME Init PROVE IInv
  OBVIOUS
<1>1. TypeOK
  <2>1. todo \in [Runners -> SUBSET Files]
    BY DirFiles DEF Init
  <2> QED BY <2>1 DEF Init, TypeOK, Stages
<1>2. Walked /\ Fresh /\ Finished
  BY DEF Init, Walked, Fresh, Finished
<1>3. ChangedOnceIffRecorded /\ InOrder
  BY DEF Init, ChangedOnceIffRecorded, InOrder
<1> QED BY <1>1, <1>2, <1>3 DEF IInv

(* A step of r that leaves the recorded names, its directory and what it   *)
(* has to do alone, and does not bring it to a commit or to success.       *)
LEMMA MovesOn ==
  ASSUME IInv, NEW r \in Runners, NEW s \in Stages \ {"commit", "done"},
         Goes(r, s), UNCHANGED <<recorded, changed, dir, todo>>,
         table' \in BOOLEAN, faulted' \in BOOLEAN
  PROVE  IInv'
<1>1. TypeOK'
  BY DEF IInv, TypeOK, Goes
<1>2. Fresh'
  <2>1. \A q \in Runners : at'[q] = "commit" => at[q] = "commit"
    BY DEF IInv, TypeOK, Goes
  <2>2. \A q \in Runners, f \in Files : Visits(q, f)' <=> Visits(q, f)
    BY DEF Visits
  <2> QED BY <2>1, <2>2 DEF IInv, Fresh, HeldByOther
<1>3. Finished'
  BY DEF IInv, TypeOK, Goes, Finished
<1> QED BY <1>1, <1>2, <1>3
        DEF IInv, ChangedOnceIffRecorded, InOrder, Walked

(* The commit of file f by r, known to r (s is "check", and the loop goes  *)
(* on) or not (s is "failed").                                             *)
LEMMA CommitStep ==
  ASSUME IInv, NEW r \in Runners, NEW f \in Files, at[r] = "commit", Visits(r, f),
         Committed(f), NEW s \in {"check", "failed"}, Goes(r, s),
         Skip(r, f) \/ UNCHANGED todo, UNCHANGED dir, faulted' \in BOOLEAN
  PROVE  IInv'
<1> USE DEF IInv
<1>1. /\ \A q \in Runners : todo'[q] \subseteq todo[q]
      /\ \A q \in Runners : todo[q] \subseteq todo'[q] \cup {f}
      /\ \A q \in Runners \ {r} : todo'[q] = todo[q]
      /\ todo' \in [Runners -> SUBSET Files]
  BY DEF TypeOK, Skip
<1>2. TypeOK'
  <2>1. at' \in [Runners -> Stages]
    BY DEF TypeOK, Goes, Stages, Ended
  <2>2. /\ changed' \in [Files -> Nat]
        /\ recorded' \subseteq Files
        /\ table' \in BOOLEAN
    BY DEF TypeOK, Committed
  <2>3. dir' \in [Runners -> Dirs] /\ \A q \in Runners : todo'[q] \subseteq dir'[q]
    BY <1>1 DEF TypeOK
  <2> QED BY <1>1, <2>1, <2>2, <2>3 DEF TypeOK
<1>3. ChangedOnceIffRecorded'
  BY DEF ChangedOnceIffRecorded, Committed, TypeOK, Fresh
<1>4. InOrder'
  <2> SUFFICES ASSUME NEW e \in recorded', NEW g \in Files, g < e,
                      \A d \in Dirs : e \in d => g \in d
               PROVE  g \in recorded'
    BY DEF InOrder
  <2>1. CASE e \in recorded
    BY <2>1 DEF InOrder, Committed
  <2>2. CASE e = f
    <3>1. g \in dir[r]
      BY <2>2 DEF TypeOK, Visits
    <3>2. g \notin todo[r]
      <4>1. f \in Nat /\ g \in Nat
        BY DirsAssumption DEF Files
      <4> QED BY <2>2, <4>1 DEF Visits
    <3> QED BY <3>1, <3>2 DEF Walked, Committed
  <2> QED BY <2>1, <2>2 DEF Committed
<1>5. Walked'
  BY <1>1 DEF Walked, Committed, TypeOK
<1>6. Fresh'
  <2> SUFFICES ASSUME NEW q \in Runners, NEW g \in Files,
                      at'[q] = "commit", Visits(q, g)'
               PROVE  g \notin recorded' /\ ~HeldByOther(q, g, {"commit"})'
    BY DEF Fresh
  <2>1. q # r /\ at[q] = "commit" /\ Visits(q, g)
    BY <1>1 DEF Goes, TypeOK, Visits
  <2>2. g # f
    BY <2>1 DEF Fresh, HeldByOther
  <2>3. g \notin recorded'
    BY <2>1, <2>2 DEF Fresh, Committed
  <2>4. ASSUME NEW p \in Runners \ {q}, at'[p] = "commit", Visits(p, g)'
        PROVE  FALSE
    <3>1. p # r /\ at[p] = "commit" /\ Visits(p, g)
      BY <1>1, <2>4 DEF Goes, TypeOK, Visits
    <3> QED BY <2>1, <3>1 DEF Fresh, HeldByOther
  <2> QED BY <2>3, <2>4 DEF HeldByOther
<1>7. Finished'
  BY <1>1 DEF Finished, Goes, TypeOK
<1> QED BY <1>2, <1>3, <1>4, <1>5, <1>6, <1>7

-----------------------------------------------------------------------------
(* ensureSchemaMigrations touches the empty table alone.                   *)
LEMMA EnsureInv == ASSUME IInv, NEW r \in Runners, Ensure(r) PROVE IInv'
<1>1. \E s \in {"check", "create", "failed"} : Goes(r, s)
  BY DEF Ensure
<1>2. table' \in BOOLEAN /\ faulted' \in BOOLEAN
  BY DEF Ensure, IInv, TypeOK
<1> QED BY <1>1, <1>2, MovesOn DEF Ensure, Stages, Ended

(* The loop gets past recorded files only, and ends after the last.        *)
LEMMA IsAppliedInv == ASSUME IInv, NEW r \in Runners, IsApplied(r) PROVE IInv'
<1> USE DEF IInv
<1>0. /\ at[r] = "check" /\ UNCHANGED <<recorded, changed, table, dir, faulted>>
  BY DEF IsApplied, database
<1>1. CASE todo[r] = {} /\ Goes(r, "done") /\ UNCHANGED todo
  <2>1. TypeOK' /\ Finished'
    BY <1>0, <1>1 DEF TypeOK, Goes, Stages, Finished, Ended
  <2>2. Fresh'
    BY <1>0, <1>1 DEF Fresh, TypeOK, Goes, Visits, HeldByOther
  <2> QED BY <1>0, <1>1, <2>1, <2>2 DEF ChangedOnceIffRecorded, InOrder, Walked
<1>2. ASSUME NEW f \in Files, Visits(r, f), f \in recorded, Skip(r, f), UNCHANGED at
      PROVE  IInv'
  <2>1. TypeOK' /\ Finished' /\ Walked'
    BY <1>0, <1>2 DEF TypeOK, Skip, Finished, Walked
  <2>2. Fresh'
    <3>1. \A q \in Runners, g \in Files :
            at[q] = "commit" => (Visits(q, g)' <=> Visits(q, g))
      BY <1>0, <1>2 DEF TypeOK, Skip, Visits
    <3> QED BY <1>0, <1>2, <3>1 DEF Fresh, HeldByOther
  <2> QED BY <1>0, <2>1, <2>2 DEF ChangedOnceIffRecorded, InOrder
<1>3. CASE Goes(r, "exec") /\ UNCHANGED todo
  BY <1>0, <1>3, MovesOn DEF Stages, TypeOK
<1> QED BY <1>1, <1>2, <1>3 DEF IsApplied

(* The statements of a file run, or fail, inside a transaction.            *)
LEMMA ExecInv == ASSUME IInv, NEW r \in Runners, Exec(r) PROVE IInv'
<1>1. \E s \in {"insert", "failed"} : Goes(r, s)
  BY DEF Exec
<1>2. table' \in BOOLEAN /\ faulted' \in BOOLEAN
      /\ UNCHANGED <<recorded, changed, dir, todo>>
  BY DEF Exec, IInv, TypeOK, database
<1> QED BY <1>1, <1>2, MovesOn DEF Stages, Ended

(* The row with a name is inserted by one open transaction at a time, and  *)
(* only if it is not there.                                                *)
LEMMA InsertInv == ASSUME IInv, NEW r \in Runners, Insert(r) PROVE IInv'
<1> USE DEF IInv
<1>0. UNCHANGED <<recorded, changed, table, dir, todo, faulted>>
  BY DEF Insert, database
<1>1. PICK f \in Files :
        /\ Visits(r, f) /\ ~HeldByOther(r, f, {"commit"})
        /\ Goes(r, IF f \in recorded THEN "failed" ELSE "commit")
  BY DEF Insert
<1>2. CASE f \in recorded
  BY <1>0, <1>1, <1>2, MovesOn DEF TypeOK, Stages, Ended
<1>3. CASE f \notin recorded
  <2>1. Goes(r, "commit")
    BY <1>1, <1>3
  <2>2. TypeOK' /\ Finished'
    BY <1>0, <2>1 DEF TypeOK, Goes, Stages, Finished
  <2>3. Fresh'
    <3> SUFFICES ASSUME NEW q \in Runners, NEW g \in Files,
                        at'[q] = "commit", Visits(q, g)
                 PROVE  /\ g \notin recorded
                        /\ \A p \in Runners \ {q} : ~(at'[p] = "commit" /\ Visits(p, g))
      BY <1>0 DEF Fresh, HeldByOther, Visits
    <3>1. CASE q = r
      <4>1. g = f
        BY <1>1, <3>1, VisitsOne
      <4> QED BY <1>1, <1>3, <2>1, <3>1, <4>1 DEF HeldByOther, Goes, TypeOK
    <3>2. CASE q # r
      <4>1. at[q] = "commit"
        BY <2>1, <3>2 DEF Goes, TypeOK
      <4>2. g \notin recorded /\ \A p \in Runners \ {q} : ~(at[p] = "commit" /\ Visits(p, g))
        BY <4>1 DEF Fresh, HeldByOther
      <4>3. ~Visits(r, g)
        BY <1>1, <3>2, <4>1, VisitsOne DEF HeldByOther
      <4> QED BY <2>1, <4>2, <4>3 DEF Goes, TypeOK
    <3> QED BY <3>1, <3>2
  <2> QED BY <1>0, <2>2, <2>3 DEF ChangedOnceIffRecorded, InOrder, Walked
<1> QED BY <1>2, <1>3

(* The transaction commits, and the runner knows.                          *)
LEMMA CommitInv == ASSUME IInv, NEW r \in Runners, Commit(r) PROVE IInv'
<1>1. PICK f \in Files : Visits(r, f) /\ Committed(f) /\ Skip(r, f)
  BY DEF Commit
<1>2. at[r] = "commit" /\ Goes(r, "check") /\ UNCHANGED dir /\ faulted' \in BOOLEAN
  BY DEF Commit, IInv, TypeOK
<1> QED BY <1>1, <1>2, CommitStep

(* A runner stops: its transaction is undone, or committed unknown to it.  *)
LEMMA StopInv == ASSUME IInv, NEW r \in Runners, Stop(r) PROVE IInv'
<1>0. Goes(r, "failed") /\ UNCHANGED <<dir, todo>> /\ faulted' \in BOOLEAN
  BY DEF Stop
<1>1. CASE UNCHANGED database
  BY <1>0, <1>1, MovesOn DEF database, Stages, Ended, IInv, TypeOK
<1>2. CASE at[r] = "commit" /\ \E f \in Files : Visits(r, f) /\ Committed(f)
  BY <1>0, <1>2, CommitStep
<1> QED BY <1>1, <1>2 DEF Stop, RolledBack

(* A new start has everything to do again.                                 *)
LEMMA RestartInv == ASSUME IInv, NEW r \in Runners, Restart(r) PROVE IInv'
<1> USE DEF IInv
<1>0. at[r] \in Ended /\ Goes(r, "ensure") /\ UNCHANGED <<database, faulted>>
  BY DEF Restart
<1>1. PICK d \in Dirs : dir' = [dir EXCEPT ![r] = d] /\ todo' = [todo EXCEPT ![r] = d]
  BY DEF Restart
<1>2. TypeOK'
  BY <1>0, <1>1, DirFiles DEF TypeOK, Goes, Stages, database
<1>3. Walked' /\ Finished'
  BY <1>0, <1>1 DEF TypeOK, Goes, Walked, Finished, database
<1>4. Fresh'
  <2>1. \A q \in Runners, g \in Files :
          at'[q] = "commit" => at[q] = "commit" /\ (Visits(q, g)' <=> Visits(q, g))
    BY <1>0, <1>1 DEF Goes, TypeOK, Visits, Ended
  <2> QED BY <1>0, <2>1 DEF Fresh, HeldByOther, database
<1> QED BY <1>0, <1>2, <1>3, <1>4 DEF ChangedOnceIffRecorded, InOrder, database

(* The invariant is inductive: one case for each action.                   *)
LEMMA NextInv == IInv /\ [Next]_vars => IInv'
<1> SUFFICES ASSUME IInv, [Next]_vars PROVE IInv'
  OBVIOUS
<1>1. ASSUME NEW r \in Runners, Run(r) PROVE IInv'
  BY <1>1, EnsureInv, IsAppliedInv, ExecInv, InsertInv, CommitInv DEF Run
<1>2. ASSUME NEW r \in Runners, Stop(r) \/ Restart(r) PROVE IInv'
  BY <1>2, StopInv, RestartInv
<1>3. CASE UNCHANGED vars
  BY <1>3 DEF vars, database, IInv, TypeOK, ChangedOnceIffRecorded, InOrder, Walked,
              Fresh, Finished, Visits, HeldByOther
<1> QED BY <1>1, <1>2, <1>3 DEF Next

(* The invariant holds throughout.                                         *)
THEOREM Invariance == Spec => []IInv
BY InitInv, NextInv, PTL DEF Spec

(* A file's changes and its record come together, and once.                *)
THEOREM FilesChangeOnce == Spec => []ChangedOnceIffRecorded
<1>1. IInv => ChangedOnceIffRecorded
  BY DEF IInv
<1> QED BY <1>1, Invariance, PTL

(* Files are applied in the order of their names as far as the directories *)
(* agree on it.                                                            *)
THEOREM FilesInOrder == Spec => []InOrder
<1>1. IInv => InOrder
  BY DEF IInv
<1> QED BY <1>1, Invariance, PTL

(* Success is never reported too early.                                    *)
THEOREM SuccessIsComplete == Spec => []DoneIsComplete
<1>1. IInv => DoneIsComplete
  BY DEF IInv, Walked, Finished, DoneIsComplete, TypeOK
<1> QED BY <1>1, Invariance, PTL
-----------------------------------------------------------------------------
(* r will fail whatever it does next: another one has created the table or *)
(* recorded the file since r looked.                                       *)
Doomed(r) ==
  \/ at[r] = "create" /\ table
  \/ at[r] \in {"exec", "insert"} /\ \E f \in recorded : Visits(r, f)

(* Of runners that nothing but each other can stop, one is not stopped: it *)
(* is the one that created the table or committed last, or one that has    *)
(* looked since.                                                           *)
OneGoesOn ==
  ~faulted => Runners = {} \/ \E r \in Runners : at[r] # "failed" /\ ~Doomed(r)

(* A step after which r can go on, whatever it does to the others.         *)
LEMMA NewWitness ==
  ASSUME IInv, NEW r \in Runners, NEW s \in Stages \ {"failed", "create", "exec", "insert"},
         Goes(r, s)
  PROVE  OneGoesOn'
<1>1. at'[r] = s
  BY DEF Goes, IInv, TypeOK
<1>2. ~Doomed(r)'
  BY <1>1 DEF Doomed
<1> QED BY <1>1, <1>2 DEF OneGoesOn

(* A step of r that dooms nobody else: r goes on, or was doomed itself, so *)
(* that the one that goes on is another.                                   *)
LEMMA SameWitness ==
  ASSUME IInv, OneGoesOn, NEW r \in Runners,
         UNCHANGED <<table, recorded, faulted>>,
         \A q \in Runners \ {r} : at'[q] = at[q] /\ todo'[q] = todo[q],
         Doomed(r) \/ (at'[r] # "failed" /\ ~Doomed(r)')
  PROVE  OneGoesOn'
<1> SUFFICES ASSUME ~faulted, Runners # {}
             PROVE  \E q \in Runners : at'[q] # "failed" /\ ~Doomed(q)'
  BY DEF OneGoesOn
<1>1. CASE at'[r] # "failed" /\ ~Doomed(r)'
  BY <1>1
<1>2. CASE Doomed(r)
  <2>1. PICK q \in Runners : at[q] # "failed" /\ ~Doomed(q)
    BY DEF OneGoesOn
  <2>2. q # r
    BY <1>2, <2>1
  <2>3. at'[q] = at[q] /\ todo'[q] = todo[q]
    BY <2>2
  <2> QED BY <2>1, <2>3 DEF Doomed, Visits
<1> QED BY <1>1, <1>2

(* A runner dooms others when it gets ahead of them, and fails only if it  *)
(* was doomed.                                                             *)
LEMMA RunGoesOn == ASSUME IInv, OneGoesOn, NEW r \in Runners, Run(r) PROVE OneGoesOn'
<1> USE DEF Stages, Ended
<1>1. CASE Ensure(r)
  <2>1. CASE at[r] = "ensure" /\ table
    BY <1>1, <2>1, NewWitness DEF Ensure
  <2>2. CASE at[r] = "ensure" /\ ~table
    <3>1. Goes(r, "create") /\ UNCHANGED <<table, recorded, todo, faulted>>
      BY <1>1, <2>2 DEF Ensure
    <3>2. at'[r] = "create" /\ \A q \in Runners \ {r} : at'[q] = at[q]
      BY <3>1 DEF Goes, IInv, TypeOK
    <3>3. ~Doomed(r)'
      BY <2>2, <3>1, <3>2 DEF Doomed
    <3> QED BY <3>1, <3>2, <3>3, SameWitness
  <2>3. CASE at[r] = "create" /\ ~table
    BY <1>1, <2>3, NewWitness DEF Ensure
  <2>4. CASE at[r] = "create" /\ table
    <3>1. Goes(r, "failed") /\ UNCHANGED <<table, recorded, todo, faulted>>
      BY <1>1, <2>4 DEF Ensure
    <3>2. \A q \in Runners \ {r} : at'[q] = at[q]
      BY <3>1 DEF Goes, IInv, TypeOK
    <3>3. Doomed(r)
      BY <2>4 DEF Doomed
    <3> QED BY <3>1, <3>2, <3>3, SameWitness
  <2> QED BY <1>1, <2>1, <2>2, <2>3, <2>4 DEF Ensure
<1>2. CASE IsApplied(r)
  <2>0. at[r] = "check" /\ UNCHANGED <<table, recorded, faulted>>
    BY <1>2 DEF IsApplied, database
  <2>1. CASE Goes(r, "done")
    BY <2>1, NewWitness
  <2>2. ASSUME NEW f \in Files, Skip(r, f), UNCHANGED at PROVE OneGoesOn'
    <3>1. ~Doomed(r)' /\ at'[r] # "failed"
      BY <2>0, <2>2 DEF Doomed
    <3>2. \A q \in Runners \ {r} : todo'[q] = todo[q]
      BY <2>2 DEF Skip, IInv, TypeOK
    <3> QED BY <2>0, <2>2, <3>1, <3>2, SameWitness
  <2>3. ASSUME NEW f \in Files, Visits(r, f), f \notin recorded,
               Goes(r, "exec"), UNCHANGED todo
        PROVE  OneGoesOn'
    <3>1. at'[r] = "exec" /\ \A q \in Runners \ {r} : at'[q] = at[q]
      BY <2>3 DEF Goes, IInv, TypeOK
    <3>2. \A g \in recorded : ~Visits(r, g)
      BY <2>3, VisitsOne DEF IInv, TypeOK
    <3>3. ~Doomed(r)'
      BY <2>0, <2>3, <3>1, <3>2 DEF Doomed, Visits
    <3> QED BY <2>0, <2>3, <3>1, <3>3, SameWitness
  <2> QED BY <1>2, <2>1, <2>2, <2>3 DEF IsApplied
<1>3. CASE Exec(r)
  <2>0. at[r] = "exec" /\ UNCHANGED <<table, recorded, todo, faulted>>
    BY <1>3 DEF Exec, database
  <2>1. PICK f \in Files :
          /\ Visits(r, f)
          /\ Goes(r, "insert") \/ (changed[f] # 0 /\ Goes(r, "failed"))
    BY <1>3 DEF Exec
  <2>2. \A q \in Runners \ {r} : at'[q] = at[q]
    BY <2>1 DEF Goes, IInv, TypeOK
  <2>3. CASE f \in recorded
    <3>1. Doomed(r)
      BY <2>0, <2>1, <2>3 DEF Doomed
    <3> QED BY <2>0, <2>2, <3>1, SameWitness
  <2>4. CASE f \notin recorded
    <3>1. changed[f] = 0
      BY <2>4 DEF IInv, ChangedOnceIffRecorded
    <3>2. at'[r] = "insert"
      BY <2>1, <3>1 DEF Goes, IInv, TypeOK
    <3>3. \A g \in recorded : ~Visits(r, g)
      BY <2>1, <2>4, VisitsOne DEF IInv, TypeOK
    <3>4. ~Doomed(r)'
      BY <2>0, <3>2, <3>3 DEF Doomed, Visits
    <3> QED BY <2>0, <2>2, <3>2, <3>4, SameWitness
  <2> QED BY <2>3, <2>4
<1>4. CASE Insert(r)
  <2>0. at[r] = "insert" /\ UNCHANGED <<table, recorded, todo, faulted>>
    BY <1>4 DEF Insert, database
  <2>1. PICK f \in Files :
          Visits(r, f) /\ Goes(r, IF f \in recorded THEN "failed" ELSE "commit")
    BY <1>4 DEF Insert
  <2>2. CASE f \in recorded
    <3>1. Doomed(r) /\ \A q \in Runners \ {r} : at'[q] = at[q]
      BY <2>0, <2>1, <2>2 DEF Doomed, Goes, IInv, TypeOK
    <3> QED BY <2>0, <3>1, SameWitness
  <2>3. CASE f \notin recorded
    BY <2>1, <2>3, NewWitness
  <2> QED BY <2>2, <2>3
<1>5. CASE Commit(r)
  BY <1>5, NewWitness DEF Commit
<1> QED BY <1>1, <1>2, <1>3, <1>4, <1>5 DEF Run

(* The witness is kept: a stop counts as a fault, a new start is one.      *)
LEMMA GoesOnInv == IInv /\ OneGoesOn /\ [Next]_vars => OneGoesOn'
<1> SUFFICES ASSUME IInv, OneGoesOn, [Next]_vars PROVE OneGoesOn'
  OBVIOUS
<1>1. ASSUME NEW r \in Runners, Run(r) PROVE OneGoesOn'
  BY <1>1, RunGoesOn
<1>2. ASSUME NEW r \in Runners, Stop(r) PROVE OneGoesOn'
  BY <1>2 DEF Stop, OneGoesOn
<1>3. ASSUME NEW r \in Runners, Restart(r) PROVE OneGoesOn'
  BY <1>3, NewWitness DEF Restart, Stages, Ended
<1>4. CASE UNCHANGED vars
  BY <1>4 DEF vars, database, OneGoesOn, Doomed, Visits
<1> QED BY <1>1, <1>2, <1>3, <1>4 DEF Next

(* Overlapping runners never all fail of each other: one succeeds, unless  *)
(* a statement or a process failed by itself.                              *)
THEOREM OneRunnerSucceeds == Spec => []OneSucceeds
<1>1. Init => OneGoesOn
  BY DEF Init, OneGoesOn, Doomed
<1>2. IInv /\ OneGoesOn => OneSucceeds
  BY DEF OneGoesOn, OneSucceeds, Ended
<1> QED BY <1>1, <1>2, GoesOnInv, InitInv, NextInv, PTL DEF Spec
=============================================================================
