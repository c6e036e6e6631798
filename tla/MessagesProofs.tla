--------------------------- MODULE MessagesProofs ---------------------------
(***************************************************************************)
(* Theorems about the messages and read marks of one conversation, for any *)
(* number of users, messages and requests.  What the runs check of the     *)
(* database and of the events follows from what each request under way     *)
(* will still write, and from when it took the time it writes.             *)
(***************************************************************************)
EXTENDS Messages, TLAPS

Stages == {"check", "find", "begin", "write", "publish"}

Known(m)      == message[m].state \in {"stored", "deleted"}
IsOpen(m)     == message[m].state = "open"
Publishing(w) == req[w] # NoRequest /\ req[w].stage = "publish"
Opening(w)    == Serving(w, "create", "write")
Marking(w)    == Serving(w, "read", "write")
Renaming(w)   == Serving(w, "rename", "write")
Sets(w)       == Opening(w) \/ Renaming(w)
Says(w)       == IF req[w].op = "delete" THEN "deleted" ELSE req[w].content

(* What is known of the request a worker serves.                           *)
Requested(w) ==
  req[w] # NoRequest =>
    /\ req[w].at <= now
    /\ req[w].op \in {"create", "update"} => req[w].content \in Contents
    /\ req[w].op \in {"update", "delete"} => req[w].msg \in MsgIDs /\ Known(req[w].msg)
    /\ Publishing(w) => /\ req[w].msg \in MsgIDs /\ Known(req[w].msg)
                        /\ req[w].op \notin {"read", "rename"}
    /\ Opening(w) => LET m == req[w].msg
                     IN /\ m \in MsgIDs /\ IsOpen(m)
                        /\ message[m].created = req[w].at
                        /\ message[m].content = req[w].content

(* Two transactions insert two messages.                                   *)
Separate == \A v, w \in Workers :
              Opening(v) /\ Opening(w) /\ req[v].msg = req[w].msg => v = w

(* Nothing carries a time that has not come yet.                           *)
Dated == /\ \A m \in MsgIDs : message[m].state \in {"open", "stored"}
                                => message[m].created <= now
         /\ \A u \in Present : lastRead[u] <= now

(* A stored message that overtook nobody is older than what is being       *)
(* inserted, and than the time a rename is about to write.                 *)
Overtakes(m) ==
  m \in Stored \ outrun =>
    /\ message[m].created <= updatedAt
    /\ \A v \in Workers : Sets(v) => message[m].created <= req[v].at

(* A mark at time t that saw the messages S tells older from newer ones.   *)
Parts(t, S, m) ==
  /\ m \in S => Known(m)
  /\ m \notin straddled /\ m \in Stored =>
       IF m \in S THEN message[m].created <= t ELSE message[m].created >= t
  /\ m \notin straddled /\ IsOpen(m) => message[m].created >= t

Marks(m) ==
  /\ \A w \in Workers : Marking(w) => Parts(req[w].at, req[w].saw, m)
  /\ \A u \in Present : Parts(lastRead[u], covered[u], m)

Forgotten == \A u \in Users \ Present : covered[u] = {}

(* One event at most is under way about a message, and it is true; when    *)
(* none is, the last one was.                                              *)
Heard(m) ==
  m \notin crossed =>
    /\ \A v, w \in Workers : Publishing(v) /\ Publishing(w) /\ req[v].msg = m
                               /\ req[w].msg = m => v = w
    /\ \A v \in Workers : Publishing(v) /\ req[v].msg = m => Says(v) = Fact(m)
    /\ (\A v \in Workers : Publishing(v) => req[v].msg # m) => told[m] = Fact(m)

Inv == /\ TypeOK
       /\ \A w \in Workers : Requested(w)
       /\ Separate /\ Dated /\ Forgotten
       /\ \A m \in MsgIDs : Overtakes(m) /\ Marks(m) /\ Heard(m)

Typed == [state : {"open", "stored"}, sender : Users, content : Contents, created : Times]

USE OpsAssumption, TimeAssumption, NoneAssumption DEF Times, AllOps

(* What the invariant says of the rows, in terms of their fields.          *)
LEMMA Rows ==
  ASSUME TypeOK, NEW m \in MsgIDs
  PROVE  /\ message[m].state \in {"unused", "deleted", "open", "stored"}
         /\ message[m].state = "unused" <=> message[m] = Unused
         /\ message[m].state = "deleted" <=> message[m] = Deleted
         /\ message[m].state \in {"open", "stored"} =>
              /\ message[m] \in Typed /\ message[m].sender \in Users
              /\ message[m].content \in Contents /\ message[m].created \in 0..MaxTime
         /\ m \in Stored <=> message[m].state = "stored"
  <1>1. Unused.state = "unused" /\ Deleted.state = "deleted"
    BY DEF Unused, Deleted
  <1>2. message[m] \in {Unused, Deleted} \cup Typed
    BY DEF TypeOK, Typed
  <1>3. message[m] \in Typed => message[m].state \in {"open", "stored"}
    BY DEF Typed
  <1>4. message[m] \in Typed =>
          /\ message[m].sender \in Users
          /\ message[m].content \in Contents /\ message[m].created \in 0..MaxTime
    BY DEF Typed
  <1> QED
    BY <1>1, <1>2, <1>3, <1>4 DEF Stored

(* The fields of a request that moves on.                                  *)
LEMMA Moved ==
  ASSUME NEW r \in Requests, NEW s \in Stages, NEW q, q = [r EXCEPT !.stage = s]
  PROVE  /\ q \in Requests /\ q # NoRequest /\ q.stage = s
         /\ q.op = r.op /\ q.user = r.user /\ q.msg = r.msg /\ q.content = r.content
         /\ q.at = r.at /\ q.saw = r.saw
  BY DEF Requests, Stages

LEMMA Fields ==
  ASSUME NEW r \in Requests
  PROVE  /\ r # NoRequest /\ r.op \in AllOps /\ r.user \in Users /\ r.msg \in MsgIDs \cup {None}
         /\ r.content \in Contents \cup {None} /\ r.stage \in Stages
         /\ r.at \in 0..MaxTime /\ r.saw \subseteq MsgIDs
  BY DEF Requests, Stages

LEMMA Initial == Init => Inv
  <1> SUFFICES ASSUME Init PROVE Inv
    OBVIOUS
  <1>1. TypeOK
    BY DEF Init, TypeOK, Present
  <1>2. \A m \in MsgIDs : message[m].state = "unused" /\ message[m] # Deleted
    BY DEF Init, Unused, Deleted
  <1>3. \A w \in Workers : /\ ~Publishing(w) /\ ~Opening(w)
                              /\ ~Marking(w) /\ ~Renaming(w)
    BY DEF Init, Publishing, Opening, Marking, Renaming, Serving
  <1>4. \A m \in MsgIDs : m \notin Stored /\ ~IsOpen(m) /\ ~Known(m) /\ Fact(m) = "nothing"
    BY <1>2 DEF Stored, IsOpen, Known, Fact
  <1>5. Present = Users /\ \A u \in Users : lastRead[u] = 0 /\ covered[u] = {}
    BY DEF Init, Present
  <1>6. \A w \in Workers : Requested(w)
    BY DEF Init, Requested
  <1>7. Separate /\ Dated /\ Forgotten
    BY <1>2, <1>3, <1>5 DEF Init, Separate, Dated, Forgotten
  <1>8. \A m \in MsgIDs : Overtakes(m) /\ Marks(m) /\ Heard(m)
    BY <1>3, <1>4, <1>5 DEF Init, Overtakes, Sets, Marks, Parts, Heard
  <1> QED
    BY <1>1, <1>6, <1>7, <1>8 DEF Inv

-----------------------------------------------------------------------------
(* A step that writes nothing: a request is taken, moves on or is answered *)
(* with nothing to say.                                                    *)
Harmless(x) ==
  \/ x = NoRequest
  \/ /\ x \in Requests /\ x.stage # "publish" /\ x.at <= now
     /\ ~(x.op \in {"create", "read", "rename"} /\ x.stage = "write")
     /\ x.op \in {"create", "update"} => x.content \in Contents
     /\ x.op \in {"update", "delete"} => x.msg \in MsgIDs /\ Known(x.msg)

LEMMA Quiet ==
  ASSUME Inv, NEW w \in Workers, ~Publishing(w), NEW x, Harmless(x),
         req' = [req EXCEPT ![w] = x], UNCHANGED <<now, db, told, aux>>
  PROVE  Inv'
  <1>0. UNCHANGED <<now, message, updatedAt, lastRead, told, covered, straddled, outrun,
                    crossed>>
    BY DEF db, aux
  <1>1. req' \in [Workers -> {NoRequest} \cup Requests]
    BY DEF Harmless, Inv, TypeOK
  <1>2. \A v \in Workers : req'[v] = IF v = w THEN x ELSE req[v]
    BY DEF Inv, TypeOK
  <1>3. \A v \in Workers : v # w =>
          /\ Publishing(v)' <=> Publishing(v)
          /\ (Opening(v)' <=> Opening(v)) /\ (Marking(v)' <=> Marking(v))
          /\ Renaming(v)' <=> Renaming(v)
    BY <1>2 DEF Publishing, Opening, Marking, Renaming, Serving
  <1>4. ~Publishing(w)' /\ ~Opening(w)' /\ ~Marking(w)' /\ ~Renaming(w)'
    BY <1>2 DEF Harmless, Publishing, Opening, Marking, Renaming, Serving
  <1>5. TypeOK'
    BY <1>0, <1>1 DEF Inv, TypeOK, Present
  <1>6. \A m : (IsOpen(m)' <=> IsOpen(m)) /\ (Known(m)' <=> Known(m)) /\ Fact(m)' = Fact(m)
               /\ (m \in Stored' <=> m \in Stored)
    BY <1>0 DEF IsOpen, Known, Fact, Stored
  <1>7. ASSUME NEW v \in Workers PROVE Requested(v)'
    <2>1. CASE v = w
      BY <1>0, <1>2, <1>4, <1>6, <2>1 DEF Requested, Harmless
    <2>2. CASE v # w
      BY <1>0, <1>2, <1>3, <1>6, <2>2 DEF Requested, Inv
    <2> QED
      BY <2>1, <2>2
  <1>8. Separate'
    BY <1>2, <1>3, <1>4 DEF Inv, Separate
  <1>9. Dated' /\ Forgotten'
    BY <1>0 DEF Inv, Dated, Forgotten, Present
  <1>10. ASSUME NEW m \in MsgIDs PROVE Overtakes(m)' /\ Marks(m)' /\ Heard(m)'
    <2>0. Overtakes(m) /\ Marks(m) /\ Heard(m)
      BY DEF Inv
    <2>1. Overtakes(m)'
      BY <1>0, <1>2, <1>3, <1>4, <1>6, <2>0 DEF Overtakes, Sets
    <2>2. Marks(m)'
      <3>1. ASSUME NEW v \in Workers, Marking(v)' PROVE Parts(req[v].at, req[v].saw, m)'
        <4>1. v # w /\ Marking(v) /\ req'[v] = req[v]
          BY <1>2, <3>1 DEF Harmless, Marking, Serving
        <4>2. Parts(req[v].at, req[v].saw, m)
          BY <2>0, <4>1 DEF Marks
        <4> QED
          BY <1>0, <1>6, <4>1, <4>2 DEF Parts
      <3>2. ASSUME NEW u \in Present' PROVE Parts(lastRead[u], covered[u], m)'
        <4>1. Parts(lastRead[u], covered[u], m)
          BY <1>0, <2>0 DEF Marks, Present
        <4> QED
          BY <1>0, <1>6, <4>1 DEF Parts
      <3> QED
        BY <3>1, <3>2 DEF Marks
    <2>3. Heard(m)'
      <3>1. \A v \in Workers : v # w => Says(v)' = Says(v)
        BY <1>2 DEF Says
      <3> QED
        BY <1>0, <1>2, <1>3, <1>4, <1>6, <2>0, <3>1 DEF Heard
    <2> QED
      BY <2>1, <2>2, <2>3
  <1> QED
    BY <1>5, <1>7, <1>8, <1>9, <1>10 DEF Inv

LEMMA Answered ==
  ASSUME Inv, NEW w \in Workers, ~Publishing(w), Finish(w), UNCHANGED <<now, db, told, aux>>
  PROVE  Inv'
  <1>1. Harmless(NoRequest)
    BY DEF Harmless
  <1> QED
    BY <1>1, Quiet DEF Finish

(* A request that moves on to a stage in which it does not write yet, or   *)
(* to the write of an update or a deletion.                                *)
LEMMA Advances ==
  ASSUME Inv, NEW w \in Workers, req[w] # NoRequest, ~Publishing(w),
         NEW s \in {"find", "begin", "write"},
         s = "write" => req[w].op \in {"update", "delete"},
         Advance(w, s), UNCHANGED <<now, db, told, aux>>
  PROVE  Inv'
  <1>1. req[w] \in Requests
    BY DEF Inv, TypeOK
  <1>2. PICK x : x = [req[w] EXCEPT !.stage = s]
    OBVIOUS
  <1>3. /\ x \in Requests /\ x.stage = s /\ x.op = req[w].op /\ x.msg = req[w].msg
        /\ x.content = req[w].content /\ x.at = req[w].at
    BY <1>1, <1>2, Moved DEF Stages
  <1>4. Requested(w)
    BY DEF Inv
  <1>5. Harmless(x)
    BY <1>3, <1>4 DEF Harmless, Requested
  <1>6. req' = [req EXCEPT ![w] = x]
    BY <1>2 DEF Advance
  <1> QED
    BY <1>5, <1>6, Quiet

LEMMA ReceiveStep ==
  ASSUME Inv, NEW w \in Workers, Receive(w)
  PROVE  Inv'
  <1>1. PICK u \in Users, op \in AllOps, m \in MsgIDs \cup {None},
              x \in Contents \cup {None} :
          /\ m # None <=> op \in {"update", "delete"}
          /\ x # None <=> op \in {"create", "update"}
          /\ m # None => message[m].state \in {"stored", "deleted"}
          /\ req' = [req EXCEPT ![w] = [op |-> op, user |-> u, msg |-> m,
                       content |-> x, stage |-> "check", at |-> 0, saw |-> {}]]
    <2>1. DOMAIN Carries = {"create", "update"} /\ \A v \in Users : Ops[v] \subseteq AllOps
      BY OpsAssumption, CarriesAssumption
    <2>2. PICK u \in Users : \E op \in Ops[u], m \in MsgIDs \cup {None},
                              x \in Contents \cup {None} :
            /\ m # None <=> op \in {"update", "delete"}
            /\ x # None <=> op \in DOMAIN Carries
            /\ m # None => message[m].state \in {"stored", "deleted"}
            /\ req' = [req EXCEPT ![w] = [op |-> op, user |-> u, msg |-> m,
                         content |-> x, stage |-> "check", at |-> 0, saw |-> {}]]
      BY DEF Receive
    <2> QED BY <2>1, <2>2
  <1>2. PICK r : r = [op |-> op, user |-> u, msg |-> m,
                      content |-> x, stage |-> "check", at |-> 0, saw |-> {}]
    OBVIOUS
  <1>3. /\ r \in Requests /\ r.stage = "check" /\ r.at = 0 /\ r.op = op /\ r.msg = m
        /\ r.content = x
    BY <1>2 DEF Requests
  <1>4. Harmless(r)
    <2>1. 0 <= now
      BY DEF Inv, TypeOK
    <2> QED
      BY <1>1, <1>3, <2>1 DEF Harmless, Known
  <1>5. ~Publishing(w) /\ UNCHANGED <<now, db, told, aux>>
    BY DEF Receive, Publishing
  <1> QED
    BY <1>1, <1>2, <1>4, <1>5, Quiet

LEMMA CheckStep ==
  ASSUME Inv, NEW w \in Workers, NEW op, NEW next \in {"begin", "find"},
         Serving(w, op, "check"), EnsureParticipant(w, next)
  PROVE  Inv'
  <1>1. ~Publishing(w) /\ req[w] # NoRequest /\ UNCHANGED <<now, db, told, aux>>
    BY DEF Serving, Publishing, EnsureParticipant
  <1> QED
    BY <1>1, Answered, Advances DEF EnsureParticipant

LEMMA FindStep ==
  ASSUME Inv, NEW w \in Workers, NEW op \in {"update", "delete"},
         Serving(w, op, "find"), FindOwn(w)
  PROVE  Inv'
  <1>1. /\ ~Publishing(w) /\ req[w] # NoRequest /\ req[w].op = op
        /\ UNCHANGED <<now, db, told, aux>>
    BY DEF Serving, Publishing, FindOwn
  <1>2. Advance(w, "write") \/ Finish(w)
    BY DEF FindOwn
  <1> QED
    BY <1>1, <1>2, Answered, Advances

-----------------------------------------------------------------------------
(* The transaction of a new message begins.                                *)
LEMMA OpenStep ==
  ASSUME Inv, NEW w \in Workers, Serving(w, "create", "begin"), OpenCreate(w)
  PROVE  Inv'
  <1>1. PICK m \in MsgIDs, t \in Times :
          /\ message[m] = Unused /\ Start(t)
          /\ message' = [message EXCEPT ![m] = [state |-> "open",
                           sender |-> req[w].user, content |-> req[w].content, created |-> t]]
          /\ req' = [req EXCEPT ![w].stage = "write", ![w].msg = m, ![w].at = t]
    BY DEF OpenCreate
  <1>2. UNCHANGED <<updatedAt, lastRead, told, covered, straddled, outrun, crossed>>
    BY DEF OpenCreate, aux
  <1>3. t \in 0..MaxTime /\ now' = t /\ now <= t /\ now \in 0..MaxTime
    BY <1>1 DEF Start, Inv, TypeOK
  <1>4. /\ req[w] \in Requests /\ req[w].op = "create" /\ req[w].stage = "begin"
        /\ req[w].user \in Users /\ req[w].content \in Contents /\ req[w].saw \subseteq MsgIDs
    <2>1. req[w] \in Requests /\ req[w].op = "create" /\ req[w].stage = "begin"
      BY DEF Inv, TypeOK, Serving
    <2> QED
      BY <2>1, Fields DEF Inv, Requested
  <1>5. PICK x : x = [req[w] EXCEPT !.stage = "write", !.msg = m, !.at = t]
    OBVIOUS
  <1>6. /\ x \in Requests /\ x # NoRequest /\ x.stage = "write" /\ x.op = "create"
        /\ x.msg = m /\ x.at = t /\ x.content = req[w].content
    BY <1>4, <1>5 DEF Requests
  <1>7. req' = [req EXCEPT ![w] = x]
    BY <1>1, <1>5
  <1>8. \A v \in Workers : req'[v] = IF v = w THEN x ELSE req[v]
    BY <1>7 DEF Inv, TypeOK
  <1>9. PICK row : row = [state |-> "open", sender |-> req[w].user, content |-> req[w].content,
                          created |-> t]
    OBVIOUS
  <1>10. row \in Typed /\ row.state = "open" /\ row.content = req[w].content /\ row.created = t
    BY <1>3, <1>4, <1>9 DEF Typed
  <1>11. \A i \in MsgIDs : message'[i] = IF i = m THEN row ELSE message[i]
    BY <1>1, <1>9 DEF Inv, TypeOK
  <1>12. TypeOK'
    <2>1. message' \in [MsgIDs -> {Unused, Deleted} \cup Typed]
      BY <1>1, <1>9, <1>10 DEF Inv, TypeOK, Typed
    <2>2. req' \in [Workers -> {NoRequest} \cup Requests]
      BY <1>6, <1>7 DEF Inv, TypeOK
    <2> QED
      BY <1>2, <1>3, <2>1, <2>2 DEF Inv, TypeOK, Present, Typed
  <1>13. message[m].state = "unused" /\ m \notin Stored /\ ~IsOpen(m) /\ ~Known(m)
    BY <1>1, Rows DEF Inv, IsOpen, Known
  <1>14. /\ \A i \in MsgIDs : i # m => /\ IsOpen(i)' <=> IsOpen(i)
                                       /\ Known(i)' <=> Known(i)
                                       /\ i \in Stored' <=> i \in Stored
         /\ IsOpen(m)' /\ ~Known(m)' /\ m \notin Stored'
    BY <1>10, <1>11 DEF IsOpen, Known, Stored
  <1>15. \A i \in MsgIDs : Fact(i)' = Fact(i)
    <2>1. Deleted.state = "deleted" /\ Unused.state = "unused"
      BY DEF Deleted, Unused
    <2>2. Fact(m)' = "nothing" /\ Fact(m) = "nothing"
      BY <1>10, <1>11, <1>13, <1>14, <2>1 DEF Fact
    <2>3. ASSUME NEW i \in MsgIDs, i # m PROVE Fact(i)' = Fact(i)
      BY <1>11, <1>14, <2>3 DEF Fact
    <2> QED
      BY <2>2, <2>3
  <1>16. \A v \in Workers : v # w =>
           /\ Publishing(v)' <=> Publishing(v)
           /\ (Opening(v)' <=> Opening(v)) /\ (Marking(v)' <=> Marking(v))
           /\ Renaming(v)' <=> Renaming(v)
    BY <1>8 DEF Publishing, Opening, Marking, Renaming, Serving
  <1>17. ~Publishing(w)' /\ ~Publishing(w) /\ ~Marking(w)' /\ ~Renaming(w)'
    BY <1>4, <1>6, <1>8 DEF Publishing, Marking, Renaming, Serving
  <1>18. ASSUME NEW v \in Workers PROVE Requested(v)'
    <2>1. CASE v = w
      BY <1>3, <1>4, <1>6, <1>8, <1>10, <1>11, <1>14, <1>17, <2>1 DEF Requested
    <2>2. CASE v # w
      <3>1. Requested(v)
        BY DEF Inv
      <3>2. req'[v] = req[v] /\ (req[v] # NoRequest => req[v].at \in 0..MaxTime)
        BY <1>8, <2>2, Fields DEF Inv, TypeOK
      <3> QED
        BY <1>3, <1>11, <1>13, <1>14, <1>16, <2>2, <3>1, <3>2 DEF Requested
    <2> QED
      BY <2>1, <2>2
  <1>19. Separate'
    <2>1. \A v \in Workers : v # w /\ Opening(v) => req[v].msg # m
      BY <1>13 DEF Inv, Requested, Opening, Serving
    <2> QED
      BY <1>6, <1>8, <1>16, <2>1 DEF Inv, Separate
  <1>20. Dated' /\ Forgotten'
    <2>1. ASSUME NEW i \in MsgIDs, message'[i].state \in {"open", "stored"}
          PROVE  message'[i].created <= now'
      BY <1>3, <1>10, <1>11, <2>1, Rows DEF Inv, Dated
    <2>2. \A u \in Present' : lastRead'[u] <= now'
      BY <1>2, <1>3 DEF Inv, Dated, Present, TypeOK
    <2> QED
      BY <1>2, <2>1, <2>2 DEF Inv, Dated, Forgotten, Present
  <1>21. ASSUME NEW i \in MsgIDs PROVE Overtakes(i)' /\ Marks(i)' /\ Heard(i)'
    <2>0. Overtakes(i) /\ Marks(i) /\ Heard(i)
      BY DEF Inv
    <2>1. Overtakes(i)'
      <3>1. CASE i = m
        BY <1>14, <3>1 DEF Overtakes, Sets
      <3>2. CASE i # m
        <4>1. i \in Stored => message[i].created <= t
          BY <1>3, Rows DEF Inv, Dated
        <4> QED
          BY <1>2, <1>6, <1>8, <1>11, <1>14, <1>16, <2>0, <3>2, <4>1 DEF Overtakes, Sets
      <3> QED
        BY <3>1, <3>2
    <2>2. ASSUME NEW r, NEW S, r \in 0..MaxTime, r <= now, Parts(r, S, i)
          PROVE  Parts(r, S, i)'
      <3>1. CASE i = m
        BY <1>3, <1>10, <1>11, <1>13, <1>14, <2>2, <3>1 DEF Parts
      <3>2. CASE i # m
        BY <1>2, <1>11, <1>14, <2>2, <3>2 DEF Parts
      <3> QED
        BY <3>1, <3>2
    <2>3. Marks(i)'
      <3>1. ASSUME NEW v \in Workers, Marking(v)' PROVE Parts(req[v].at, req[v].saw, i)'
        <4>1. v # w /\ Marking(v) /\ req'[v] = req[v]
          BY <1>6, <1>8, <3>1 DEF Marking, Serving
        <4>2. Parts(req[v].at, req[v].saw, i) /\ req[v].at <= now /\ req[v].at \in 0..MaxTime
          BY <2>0, <4>1, Fields DEF Marks, Inv, TypeOK, Requested, Marking, Serving
        <4>3. \A r, S : r = req[v].at /\ S = req[v].saw => Parts(r, S, i)'
          BY <2>2, <4>2
        <4> QED
          BY <4>1, <4>3 DEF Parts
      <3>2. ASSUME NEW u \in Present' PROVE Parts(lastRead[u], covered[u], i)'
        <4>1. u \in Present /\ UNCHANGED <<lastRead, covered>>
          BY <1>2 DEF Present
        <4>2. Parts(lastRead[u], covered[u], i) /\ lastRead[u] <= now /\ lastRead[u] \in 0..MaxTime
          BY <2>0, <4>1 DEF Marks, Inv, TypeOK, Dated
        <4>3. \A r, S : r = lastRead[u] /\ S = covered[u] => Parts(r, S, i)'
          BY <2>2, <4>2
        <4> QED
          BY <4>1, <4>3 DEF Parts
      <3> QED
        BY <3>1, <3>2 DEF Marks
    <2>4. Heard(i)'
      <3>1. \A v \in Workers : v # w => Says(v)' = Says(v)
        BY <1>8 DEF Says
      <3> QED
        BY <1>2, <1>8, <1>15, <1>16, <1>17, <2>0, <3>1 DEF Heard
    <2> QED
      BY <2>1, <2>3, <2>4
  <1> QED
    BY <1>12, <1>18, <1>19, <1>20, <1>21 DEF Inv

-----------------------------------------------------------------------------
(* A request has written what it says of a message, and will now publish   *)
(* it: the commit of a new message, an update or a deletion.               *)
LEMMA Written ==
  ASSUME Inv, NEW w \in Workers, req[w] # NoRequest, ~Publishing(w),
         NEW m \in MsgIDs, Known(m) \/ (Opening(w) /\ req[w].msg = m),
         NEW row \in {Deleted} \cup Typed, row.state # "open",
         row.state = "stored" => /\ message[m].state \in {"open", "stored"}
                                 /\ row.created = message[m].created,
         message' = [message EXCEPT ![m] = row],
         NEW x \in Requests, x.stage = "publish", x.msg = m, x.op \notin {"read", "rename"},
         x.at <= now,
         x.op # "delete" => x.content \in Contents /\ row.state = "stored" /\ row.content = x.content,
         x.op = "delete" => row = Deleted,
         req' = [req EXCEPT ![w] = x],
         UNCHANGED <<now, lastRead, told, covered>>,
         straddled' = straddled \/ (row = Deleted /\ straddled' = straddled \ {m}),
         crossed \subseteq crossed', crossed' \subseteq MsgIDs,
         m \in crossed' \/ \A v \in Workers \ {w} : ~(Publishing(v) /\ req[v].msg = m),
         updatedAt' \in Times, outrun' \subseteq MsgIDs,
         \A i \in MsgIDs : Overtakes(i)'
  PROVE  Inv'
  <1>1. \A v \in Workers : req'[v] = IF v = w THEN x ELSE req[v]
    BY DEF Inv, TypeOK
  <1>2. \A i \in MsgIDs : message'[i] = IF i = m THEN row ELSE message[i]
    BY DEF Inv, TypeOK
  <1>3. Deleted.state = "deleted" /\ row.state \in {"stored", "deleted"}
        /\ (row.state = "stored" <=> row # Deleted)
        /\ (row.state = "stored" => row.content \in Contents)
    <2>1. Deleted.state = "deleted"
      BY DEF Deleted
    <2>2. row # Deleted => row.state \in {"open", "stored"} /\ row.content \in Contents
      BY DEF Typed
    <2> QED
      BY <2>1, <2>2
  <1>4. /\ x # NoRequest /\ x.op \in AllOps /\ x.at \in 0..MaxTime
    BY Fields
  <1>5. TypeOK'
    <2>1. message' \in [MsgIDs -> {Unused, Deleted} \cup Typed]
      BY DEF Inv, TypeOK, Typed
    <2>2. req' \in [Workers -> {NoRequest} \cup Requests]
      BY DEF Inv, TypeOK
    <2>3. straddled' \subseteq MsgIDs
      BY DEF Inv, TypeOK
    <2> QED
      BY <2>1, <2>2, <2>3 DEF Inv, TypeOK, Present, Typed
  <1>6. /\ \A i \in MsgIDs : i # m => /\ IsOpen(i)' <=> IsOpen(i)
                                      /\ Known(i)' <=> Known(i)
                                      /\ i \in Stored' <=> i \in Stored
        /\ ~IsOpen(m)' /\ Known(m)' /\ (m \in Stored' <=> row.state = "stored")
    BY <1>2, <1>3 DEF IsOpen, Known, Stored
  <1>7. \A v \in Workers : v # w =>
          /\ Publishing(v)' <=> Publishing(v)
          /\ (Opening(v)' <=> Opening(v)) /\ (Marking(v)' <=> Marking(v))
          /\ Renaming(v)' <=> Renaming(v)
    BY <1>1 DEF Publishing, Opening, Marking, Renaming, Serving
  <1>8. Publishing(w)' /\ ~Opening(w)' /\ ~Marking(w)' /\ ~Renaming(w)'
    BY <1>1, <1>4 DEF Publishing, Opening, Marking, Renaming, Serving
  <1>9. \A v \in Workers : v # w /\ Opening(v) => req[v].msg # m
    <2>1. ASSUME NEW v \in Workers, v # w, Opening(v) PROVE req[v].msg # m
      <3>1. CASE Known(m)
        BY <2>1, <3>1 DEF Inv, Requested, Opening, Serving, IsOpen, Known
      <3>2. CASE Opening(w) /\ req[w].msg = m
        BY <2>1, <3>2 DEF Inv, Separate
      <3> QED
        BY <3>1, <3>2
    <2> QED
      BY <2>1
  <1>10. \A v \in Workers : v # w /\ Publishing(v) /\ req[v].msg = m => Known(m)
    BY DEF Inv, Requested, Publishing
  <1>11. ASSUME NEW v \in Workers PROVE Requested(v)'
    <2>1. CASE v = w
      BY <1>1, <1>4, <1>6, <1>8, <2>1 DEF Requested
    <2>2. CASE v # w
      <3>1. Requested(v) /\ req'[v] = req[v]
        BY <1>1, <2>2 DEF Inv
      <3> QED
        BY <1>2, <1>6, <1>7, <1>9, <2>2, <3>1 DEF Requested
    <2> QED
      BY <2>1, <2>2
  <1>12. Separate'
    BY <1>1, <1>7, <1>8 DEF Inv, Separate
  <1>13. Dated' /\ Forgotten'
    <2>1. ASSUME NEW i \in MsgIDs, message'[i].state \in {"open", "stored"}
          PROVE  message'[i].created <= now'
      BY <1>2, <1>3, <2>1 DEF Inv, Dated
    <2>2. \A u \in Present' : lastRead'[u] <= now'
      BY DEF Inv, Dated, Present
    <2> QED
      BY <2>1, <2>2 DEF Inv, Dated, Forgotten, Present
  <1>14. ASSUME NEW i \in MsgIDs PROVE Marks(i)' /\ Heard(i)'
    <2>0. Marks(i) /\ Heard(i)
      BY DEF Inv
    <2>1. ASSUME NEW r, NEW S, Parts(r, S, i) PROVE Parts(r, S, i)'
      <3>1. CASE i = m
        <4>1. CASE row = Deleted
          BY <1>3, <1>6, <3>1, <4>1 DEF Parts
        <4>2. CASE row # Deleted
          <5>1. /\ row.state = "stored" /\ straddled' = straddled
                /\ row.created = message[m].created /\ message'[m] = row
            BY <1>2, <1>3, <4>2
          <5>2. IsOpen(m) \/ m \in Stored
            BY <5>1 DEF IsOpen, Stored
          <5>3. IsOpen(m) => m \notin S
            BY <2>1, <3>1 DEF Parts, IsOpen, Known
          <5> QED
            BY <1>6, <2>1, <3>1, <5>1, <5>2, <5>3 DEF Parts
        <4> QED
          BY <4>1, <4>2
      <3>2. CASE i # m
        BY <1>2, <1>6, <2>1, <3>2 DEF Parts
      <3> QED
        BY <3>1, <3>2
    <2>2. Marks(i)'
      <3>1. ASSUME NEW v \in Workers, Marking(v)' PROVE Parts(req[v].at, req[v].saw, i)'
        <4>1. v # w /\ Marking(v) /\ req'[v] = req[v]
          BY <1>1, <3>1 DEF Marking, Serving
        <4>2. Parts(req[v].at, req[v].saw, i)
          BY <2>0, <4>1 DEF Marks
        <4>3. \A r, S : r = req[v].at /\ S = req[v].saw => Parts(r, S, i)'
          BY <2>1, <4>2
        <4> QED
          BY <4>1, <4>3 DEF Parts
      <3>2. ASSUME NEW u \in Present' PROVE Parts(lastRead[u], covered[u], i)'
        <4>1. Parts(lastRead[u], covered[u], i)
          BY <2>0 DEF Marks, Present
        <4>2. \A r, S : r = lastRead[u] /\ S = covered[u] => Parts(r, S, i)'
          BY <2>1, <4>1
        <4> QED
          BY <4>2 DEF Parts
      <3> QED
        BY <3>1, <3>2 DEF Marks
    <2>3. Heard(i)'
      <3>1. \A v \in Workers : v # w => Says(v)' = Says(v)
        BY <1>1 DEF Says
      <3>2. CASE i = m
        <4>1. Says(w)' = Fact(m)'
          BY <1>1, <1>2, <1>3, <1>4, <1>6 DEF Says, Fact
        <4>2. m \in crossed' \/ \A v \in Workers : Publishing(v)' /\ req'[v].msg = m => v = w
          BY <1>1, <1>7
        <4> QED
          BY <1>1, <1>8, <3>2, <4>1, <4>2 DEF Heard
      <3>3. CASE i # m
        <4>1. Fact(i)' = Fact(i)
          BY <1>2, <1>6, <3>3 DEF Fact
        <4>2. \A v \in Workers : Publishing(v)' /\ req'[v].msg = i => v # w
          BY <1>1, <3>3
        <4>3. \A v \in Workers : v # w => req'[v] = req[v]
          BY <1>1
        <4>4. i \notin crossed' => i \notin crossed
          OBVIOUS
        <4> QED
          BY <1>7, <1>8, <2>0, <3>1, <4>1, <4>2, <4>3, <4>4 DEF Heard
      <3> QED
        BY <3>2, <3>3
    <2> QED
      BY <2>2, <2>3
  <1> QED
    BY <1>5, <1>11, <1>12, <1>13, <1>14 DEF Inv

LEMMA CommitStep ==
  ASSUME Inv, NEW w \in Workers, Serving(w, "create", "write"), CommitCreate(w)
  PROVE  Inv'
  <1> DEFINE m == req[w].msg
  <1>1. /\ message' = [message EXCEPT ![m].state = "stored"]
        /\ updatedAt' = req[w].at
        /\ outrun' = IF \E v \in Opened : req[v].at < req[w].at THEN outrun \cup {m} ELSE outrun
        /\ req' = [req EXCEPT ![w].stage = "publish", ![w].at = 0]
        /\ UNCHANGED <<now, lastRead, told, covered, straddled, crossed>>
    BY DEF CommitCreate, Bump
  <1>2. /\ req[w] # NoRequest /\ req[w].op = "create" /\ req[w].stage = "write"
        /\ req[w] \in Requests /\ Opening(w) /\ ~Publishing(w)
    BY DEF Serving, Opening, Publishing, Inv, TypeOK
  <1>3. /\ m \in MsgIDs /\ IsOpen(m) /\ message[m].created = req[w].at
        /\ message[m].content = req[w].content /\ req[w].content \in Contents
        /\ req[w].at \in 0..MaxTime
    BY <1>2, Fields DEF Inv, Requested
  <1>4. message[m] \in Typed
    BY <1>3, Rows DEF Inv, IsOpen
  <1>5. PICK row : row = [message[m] EXCEPT !.state = "stored"]
    OBVIOUS
  <1>6. /\ row \in Typed /\ row.state = "stored" /\ row.created = message[m].created
        /\ row.content = message[m].content
    BY <1>4, <1>5 DEF Typed
  <1>7. PICK x : x = [req[w] EXCEPT !.stage = "publish", !.at = 0]
    OBVIOUS
  <1>8. /\ x \in Requests /\ x.stage = "publish" /\ x.msg = m /\ x.op = "create" /\ x.at = 0
        /\ x.content = req[w].content
    <2>1. PICK y : y = [req[w] EXCEPT !.stage = "publish"]
      OBVIOUS
    <2>2. /\ y \in Requests /\ y.stage = "publish" /\ y.msg = m /\ y.op = "create"
          /\ y.content = req[w].content
      BY <1>2, <2>1, Moved DEF Stages
    <2>3. x = [y EXCEPT !.at = 0] /\ 0 \in 0..MaxTime
      BY <1>7, <2>1
    <2> HIDE DEF m
    <2> QED
      BY <2>2, <2>3 DEF Requests
  <1>9. message' = [message EXCEPT ![m] = row] /\ req' = [req EXCEPT ![w] = x]
    BY <1>1, <1>5, <1>7
  <1>10. /\ \A v \in Workers : req'[v] = IF v = w THEN x ELSE req[v]
         /\ \A i \in MsgIDs : message'[i] = IF i = m THEN row ELSE message[i]
    BY <1>3, <1>9 DEF Inv, TypeOK
  <1>11. ASSUME NEW i \in MsgIDs PROVE Overtakes(i)'
    <2>1. \A v \in Workers : Sets(v)' => v # w /\ Sets(v) /\ v \in Opened
      BY <1>8, <1>10 DEF Sets, Opening, Renaming, Serving, Opened
    <2>2. \A v \in Workers : Sets(v) => req[v].at \in 0..MaxTime
      BY Fields DEF Sets, Opening, Renaming, Serving, Inv, TypeOK
    <2>3. CASE i = m
      <3>1. i \notin outrun' => \A v \in Workers : Sets(v)' => req[w].at <= req[v].at
        BY <1>1, <1>3, <2>1, <2>2, <2>3
      <3>2. message'[i].created = req[w].at
        BY <1>3, <1>6, <1>10, <2>3
      <3>3. \A v \in Workers : Sets(v)' => req'[v] = req[v]
        BY <1>10, <2>1
      <3>4. message'[i].created <= updatedAt'
        BY <1>1, <1>3, <3>2
      <3>5. i \notin outrun' => \A v \in Workers : Sets(v)' => message'[i].created <= req'[v].at
        BY <3>1, <3>2, <3>3
      <3> QED
        BY <3>4, <3>5 DEF Overtakes, Sets
    <2>4. CASE i # m
      <3>1. i \in Stored' /\ i \notin outrun' => i \in Stored /\ i \notin outrun
        BY <1>1, <1>10, <2>4 DEF Stored
      <3>2. Overtakes(i)
        BY DEF Inv
      <3> QED
        BY <1>1, <1>2, <1>10, <2>1, <2>4, <3>1, <3>2 DEF Overtakes, Sets
    <2> QED
      BY <2>3, <2>4
  <1>12. \A v \in Workers : Publishing(v) => req[v].msg # m
    BY <1>3 DEF Inv, Requested, Publishing, Known, IsOpen
  <1>13. /\ updatedAt' \in Times /\ outrun' \subseteq MsgIDs /\ crossed' \subseteq MsgIDs
         /\ 0 <= now
    BY <1>1, <1>3 DEF Inv, TypeOK
  <1>14. message[m].state = "open"
    BY <1>3 DEF IsOpen
  <1>15. /\ Known(m) \/ (Opening(w) /\ req[w].msg = m)
         /\ row \in {Deleted} \cup Typed /\ row.state # "open"
         /\ row.state = "stored" => /\ message[m].state \in {"open", "stored"}
                                    /\ row.created = message[m].created
         /\ x.op \notin {"read", "rename"} /\ x.at <= now
         /\ x.op # "delete" => /\ x.content \in Contents /\ row.state = "stored"
                               /\ row.content = x.content
         /\ x.op = "delete" => row = Deleted
    BY <1>2, <1>3, <1>6, <1>8, <1>13, <1>14
  <1>16. m \in crossed' \/ \A v \in Workers \ {w} : ~(Publishing(v) /\ req[v].msg = m)
    BY <1>12
  <1>17. /\ UNCHANGED <<now, lastRead, told, covered>> /\ straddled' = straddled
         /\ crossed \subseteq crossed'
    BY <1>1
  <1>18. req[w] # NoRequest /\ ~Publishing(w) /\ m \in MsgIDs
    BY <1>2, <1>3
  <1> HIDE DEF m
  <1> QED
    BY <1>8, <1>9, <1>11, <1>13, <1>15, <1>16, <1>17, <1>18, Written

LEMMA UpdateStep ==
  ASSUME Inv, NEW w \in Workers, Serving(w, "update", "write"), UpdateContent(w)
  PROVE  Inv'
  <1> DEFINE m == req[w].msg
  <1>1. /\ req[w] # NoRequest /\ req[w].op = "update" /\ req[w].stage = "write"
        /\ req[w] \in Requests /\ ~Publishing(w)
    BY DEF Serving, Publishing, Inv, TypeOK
  <1>2. CASE m \notin Stored
    <2>1. Finish(w) /\ UNCHANGED <<now, db, told, aux>>
      BY <1>2 DEF UpdateContent, db, aux
    <2> QED
      BY <1>1, <2>1, Answered
  <1>3. CASE m \in Stored
    <2>1. /\ message' = [message EXCEPT ![m].content = req[w].content]
          /\ Cross(w, m) /\ Advance(w, "publish")
          /\ UNCHANGED <<now, updatedAt, lastRead, told, covered, straddled, outrun>>
      BY <1>3 DEF UpdateContent
    <2>2. m \in MsgIDs /\ Known(m) /\ req[w].content \in Contents /\ req[w].at <= now
      BY <1>1 DEF Inv, Requested
    <2>3. message[m] \in Typed /\ message[m].state = "stored"
      BY <1>3, <2>2, Rows DEF Inv
    <2>4. PICK row : row = [message[m] EXCEPT !.content = req[w].content]
      OBVIOUS
    <2>5. /\ row \in Typed /\ row.state = "stored" /\ row.created = message[m].created
          /\ row.content = req[w].content
      BY <2>2, <2>3, <2>4 DEF Typed
    <2>6. PICK x : x = [req[w] EXCEPT !.stage = "publish"]
      OBVIOUS
    <2>7. /\ x \in Requests /\ x.stage = "publish" /\ x.msg = m /\ x.op = "update"
          /\ x.at = req[w].at /\ x.content = req[w].content
      BY <1>1, <2>6, Moved DEF Stages
    <2>8. message' = [message EXCEPT ![m] = row] /\ req' = [req EXCEPT ![w] = x]
      BY <2>1, <2>4, <2>6 DEF Advance
    <2>9. /\ crossed \subseteq crossed' /\ crossed' \subseteq MsgIDs
          /\ m \in crossed' \/ \A v \in Workers \ {w} : ~(Publishing(v) /\ req[v].msg = m)
      BY <2>1, <2>2 DEF Cross, Inv, TypeOK, Publishing
    <2>10. /\ \A v \in Workers : req'[v] = IF v = w THEN x ELSE req[v]
           /\ \A i \in MsgIDs : message'[i] = IF i = m THEN row ELSE message[i]
      BY <2>2, <2>8 DEF Inv, TypeOK
    <2>11. ASSUME NEW i \in MsgIDs PROVE Overtakes(i)'
      <3>1. \A v \in Workers : Sets(v)' => Sets(v) /\ req'[v] = req[v]
        BY <2>7, <2>10 DEF Sets, Opening, Renaming, Serving
      <3>2. i \in Stored' => i \in Stored /\ message'[i].created = message[i].created
        BY <1>3, <2>5, <2>10 DEF Stored
      <3>3. Overtakes(i)
        BY DEF Inv
      <3> QED
        BY <2>1, <3>1, <3>2, <3>3 DEF Overtakes, Sets
    <2>12. updatedAt' \in Times /\ outrun' \subseteq MsgIDs
      BY <2>1 DEF Inv, TypeOK
    <2>13. /\ row \in {Deleted} \cup Typed /\ row.state # "open"
           /\ row.state = "stored" => /\ message[m].state \in {"open", "stored"}
                                      /\ row.created = message[m].created
           /\ x.op \notin {"read", "rename"} /\ x.at <= now
           /\ x.op # "delete" => /\ x.content \in Contents /\ row.state = "stored"
                                 /\ row.content = x.content
           /\ x.op = "delete" => row = Deleted
      BY <2>2, <2>3, <2>5, <2>7
    <2>14. UNCHANGED <<now, lastRead, told, covered>> /\ straddled' = straddled
      BY <2>1
    <2>15. /\ req[w] # NoRequest /\ ~Publishing(w) /\ m \in MsgIDs
           /\ Known(m) \/ (Opening(w) /\ req[w].msg = m)
      BY <1>1, <2>2
    <2> HIDE DEF m
    <2> QED
      BY <2>7, <2>8, <2>9, <2>11, <2>12, <2>13, <2>14, <2>15, Written
  <1> QED
    BY <1>2, <1>3

LEMMA DeleteStep ==
  ASSUME Inv, NEW w \in Workers, Serving(w, "delete", "write"), DeleteRow(w)
  PROVE  Inv'
  <1> DEFINE m == req[w].msg
  <1>1. /\ req[w] # NoRequest /\ req[w].op = "delete" /\ req[w].stage = "write"
        /\ req[w] \in Requests /\ ~Publishing(w)
    BY DEF Serving, Publishing, Inv, TypeOK
  <1>2. /\ message' = [message EXCEPT ![m] = Deleted]
        /\ Cross(w, m) /\ Advance(w, "publish")
        /\ straddled' = straddled \ {m} /\ outrun' = outrun \ {m}
        /\ UNCHANGED <<now, updatedAt, lastRead, told, covered>>
    BY DEF DeleteRow, PublishDelete
  <1>3. m \in MsgIDs /\ Known(m) /\ req[w].at <= now
    BY <1>1 DEF Inv, Requested
  <1>4. Deleted.state = "deleted"
    BY DEF Deleted
  <1>5. PICK x : x = [req[w] EXCEPT !.stage = "publish"]
    OBVIOUS
  <1>6. /\ x \in Requests /\ x.stage = "publish" /\ x.msg = m /\ x.op = "delete"
        /\ x.at = req[w].at
    BY <1>1, <1>5, Moved DEF Stages
  <1>7. req' = [req EXCEPT ![w] = x]
    BY <1>2, <1>5 DEF Advance
  <1>8. /\ crossed \subseteq crossed' /\ crossed' \subseteq MsgIDs
        /\ m \in crossed' \/ \A v \in Workers \ {w} : ~(Publishing(v) /\ req[v].msg = m)
    BY <1>2, <1>3 DEF Cross, Inv, TypeOK, Publishing
  <1>9. /\ \A v \in Workers : req'[v] = IF v = w THEN x ELSE req[v]
        /\ \A i \in MsgIDs : message'[i] = IF i = m THEN Deleted ELSE message[i]
    BY <1>2, <1>3, <1>7 DEF Inv, TypeOK
  <1>10. ASSUME NEW i \in MsgIDs PROVE Overtakes(i)'
    <2>1. \A v \in Workers : Sets(v)' => Sets(v) /\ req'[v] = req[v]
      BY <1>6, <1>9 DEF Sets, Opening, Renaming, Serving
    <2>2. i \in Stored' => i \in Stored /\ i # m /\ message'[i].created = message[i].created
      BY <1>4, <1>9 DEF Stored
    <2>3. Overtakes(i)
      BY DEF Inv
    <2> QED
      BY <1>2, <2>1, <2>2, <2>3 DEF Overtakes, Sets
  <1>11. updatedAt' \in Times /\ outrun' \subseteq MsgIDs
    BY <1>2 DEF Inv, TypeOK
  <1> HIDE DEF m
  <1> QED
    BY <1>1, <1>2, <1>3, <1>4, <1>6, <1>7, <1>8, <1>10, <1>11, Written

-----------------------------------------------------------------------------
(* A request is answered, whatever it was about to do; what changes with   *)
(* it is left to the caller: rows taken back or participants, no times.    *)
LEMMA Done ==
  ASSUME Inv, NEW w \in Workers, Finish(w)
  PROVE  /\ \A v \in Workers : req'[v] = IF v = w THEN NoRequest ELSE req[v]
         /\ req' \in [Workers -> {NoRequest} \cup Requests]
         /\ \A v \in Workers : v # w =>
              /\ Publishing(v)' <=> Publishing(v)
              /\ (Opening(v)' <=> Opening(v)) /\ (Marking(v)' <=> Marking(v))
              /\ Renaming(v)' <=> Renaming(v)
              /\ Says(v)' = Says(v)
         /\ ~Publishing(w)' /\ ~Opening(w)' /\ ~Marking(w)' /\ ~Renaming(w)'
         /\ \A v \in Workers : Marking(v)' => v # w /\ Marking(v) /\ req'[v] = req[v]
  <1>1. \A v \in Workers : req'[v] = IF v = w THEN NoRequest ELSE req[v]
    BY DEF Finish, Inv, TypeOK
  <1>2. req' \in [Workers -> {NoRequest} \cup Requests]
    BY DEF Finish, Inv, TypeOK
  <1> QED
    BY <1>1, <1>2 DEF Publishing, Opening, Marking, Renaming, Serving, Says

LEMMA PublishStep ==
  ASSUME Inv, NEW w \in Workers, NEW op \in {"create", "update", "delete"}, Publish(w, op)
  PROVE  Inv'
  <1> DEFINE m == req[w].msg
  <1>1. /\ Publishing(w) /\ req[w].op = op /\ Finish(w)
        /\ told' = [told EXCEPT ![m] = Says(w)]
        /\ UNCHANGED <<now, message, updatedAt, lastRead, covered, straddled, outrun, crossed>>
    BY DEF Publish, Serving, Publishing, Says, db, aux
  <1>2. m \in MsgIDs /\ Says(w) \in {"deleted"} \cup Contents
    BY <1>1 DEF Inv, Requested, Publishing, Says
  <1>3. TypeOK'
    <2>1. told' \in [MsgIDs -> {"nothing", "deleted"} \cup Contents]
      BY <1>1, <1>2 DEF Inv, TypeOK
    <2> QED
      BY <1>1, <2>1, Done DEF Inv, TypeOK, Present
  <1>4. \A i : /\ IsOpen(i)' <=> IsOpen(i)
               /\ (Known(i)' <=> Known(i)) /\ (i \in Stored' <=> i \in Stored)
               /\ Fact(i)' = Fact(i)
    BY <1>1 DEF IsOpen, Known, Stored, Fact
  <1>5. ASSUME NEW v \in Workers PROVE Requested(v)'
    <2>1. CASE v = w
      BY <1>1, <2>1, Done DEF Requested
    <2>2. CASE v # w
      BY <1>1, <1>4, <2>2, Done DEF Inv, Requested
    <2> QED
      BY <2>1, <2>2
  <1>6. Separate'
    BY <1>1, Done DEF Inv, Separate
  <1>7. Dated' /\ Forgotten'
    BY <1>1 DEF Inv, Dated, Forgotten, Present
  <1>8. ASSUME NEW i \in MsgIDs PROVE Overtakes(i)' /\ Marks(i)' /\ Heard(i)'
    <2>0. Overtakes(i) /\ Marks(i) /\ Heard(i)
      BY DEF Inv
    <2>1. Overtakes(i)'
      BY <1>1, <1>4, <2>0, Done DEF Overtakes, Sets
    <2>2. Marks(i)'
      <3>1. ASSUME NEW v \in Workers, Marking(v)' PROVE Parts(req[v].at, req[v].saw, i)'
        <4>1. Parts(req[v].at, req[v].saw, i) /\ req'[v] = req[v]
          BY <1>1, <2>0, <3>1, Done DEF Marks
        <4> QED
          BY <1>1, <1>4, <4>1 DEF Parts
      <3>2. ASSUME NEW u \in Present' PROVE Parts(lastRead[u], covered[u], i)'
        <4>1. Parts(lastRead[u], covered[u], i)
          BY <1>1, <2>0 DEF Marks, Present
        <4> QED
          BY <1>1, <1>4, <4>1 DEF Parts
      <3> QED
        BY <3>1, <3>2 DEF Marks
    <2>3. Heard(i)'
      <3>1. CASE i = m
        <4>1. told'[i] = Says(w)
          BY <1>1, <1>2, <3>1 DEF Inv, TypeOK
        <4>2. i \notin crossed => /\ Says(w) = Fact(i)
                                 /\ \A v \in Workers : Publishing(v) /\ req[v].msg = i => v = w
          BY <1>1, <2>0, <3>1 DEF Heard
        <4>3. i \notin crossed => \A v \in Workers : ~(Publishing(v)' /\ req'[v].msg = i)
          BY <1>1, <4>2, Done
        <4> QED
          BY <1>1, <1>4, <4>1, <4>2, <4>3 DEF Heard
      <3>2. CASE i # m
        <4>1. told'[i] = told[i]
          BY <1>1, <1>2, <3>2 DEF Inv, TypeOK
        <4>2. \A v \in Workers : Publishing(v) /\ req[v].msg = i => v # w
          BY <3>2
        <4>3. /\ \A v \in Workers : v # w => req'[v] = req[v]
              /\ \A v \in Workers : v # w => (Publishing(v)' <=> Publishing(v)) /\ Says(v)' = Says(v)
              /\ ~Publishing(w)'
          BY <1>1, Done
        <4> QED
          BY <1>1, <1>4, <2>0, <4>1, <4>2, <4>3 DEF Heard
      <3> QED
        BY <3>1, <3>2
    <2> QED
      BY <2>1, <2>2, <2>3
  <1> QED
    BY <1>3, <1>5, <1>6, <1>7, <1>8 DEF Inv

(* A mark takes its time: all that is stored is older, what is being       *)
(* inserted is set aside.                                                  *)
LEMMA StartStep ==
  ASSUME Inv, NEW w \in Workers, Serving(w, "read", "begin"), StartMark(w)
  PROVE  Inv'
  <1>1. PICK t \in Times :
          /\ Start(t)
          /\ req' = [req EXCEPT ![w].stage = "write", ![w].at = t, ![w].saw = Stored]
    BY DEF StartMark
  <1>2. /\ straddled' = straddled \cup {m \in MsgIDs : message[m].state = "open"}
        /\ UNCHANGED <<message, updatedAt, lastRead, told, covered, outrun, crossed>>
    BY DEF StartMark, db
  <1>3. t \in 0..MaxTime /\ now' = t /\ now <= t /\ now \in 0..MaxTime
    BY <1>1 DEF Start, Inv, TypeOK
  <1>4. /\ req[w] \in Requests /\ req[w].op = "read" /\ req[w].stage = "begin"
        /\ Stored \subseteq MsgIDs
    BY DEF Inv, TypeOK, Serving, Stored
  <1>5. PICK x : x = [req[w] EXCEPT !.stage = "write", !.at = t, !.saw = Stored]
    OBVIOUS
  <1>6. /\ x \in Requests /\ x # NoRequest /\ x.stage = "write" /\ x.op = "read"
        /\ x.at = t /\ x.saw = Stored
    <2>1. PICK y : y = [req[w] EXCEPT !.stage = "write"]
      OBVIOUS
    <2>2. y \in Requests /\ y.stage = "write" /\ y.op = "read"
      BY <1>4, <2>1, Moved DEF Stages
    <2>3. PICK z : z = [y EXCEPT !.at = t]
      OBVIOUS
    <2>4. z \in Requests /\ z.stage = "write" /\ z.op = "read" /\ z.at = t
      BY <1>3, <2>2, <2>3 DEF Requests
    <2>5. x = [z EXCEPT !.saw = Stored]
      BY <1>5, <2>1, <2>3
    <2> QED
      BY <1>4, <2>4, <2>5 DEF Requests
  <1>7. req' = [req EXCEPT ![w] = x]
    BY <1>1, <1>5
  <1>8. \A v \in Workers : req'[v] = IF v = w THEN x ELSE req[v]
    BY <1>7 DEF Inv, TypeOK
  <1>9. TypeOK'
    <2>1. req' \in [Workers -> {NoRequest} \cup Requests]
      BY <1>6, <1>7 DEF Inv, TypeOK
    <2> QED
      BY <1>2, <1>3, <2>1 DEF Inv, TypeOK, Present
  <1>10. \A i : /\ IsOpen(i)' <=> IsOpen(i)
                /\ (Known(i)' <=> Known(i)) /\ (i \in Stored' <=> i \in Stored)
                /\ Fact(i)' = Fact(i)
    BY <1>2 DEF IsOpen, Known, Stored, Fact
  <1>11. \A v \in Workers : v # w =>
           /\ Publishing(v)' <=> Publishing(v)
           /\ (Opening(v)' <=> Opening(v)) /\ (Marking(v)' <=> Marking(v))
           /\ Renaming(v)' <=> Renaming(v)
           /\ Says(v)' = Says(v)
    BY <1>8 DEF Publishing, Opening, Marking, Renaming, Serving, Says
  <1>12. ~Publishing(w)' /\ ~Publishing(w) /\ ~Opening(w)' /\ ~Renaming(w)'
    BY <1>4, <1>6, <1>8 DEF Publishing, Opening, Renaming, Serving
  <1>13. ASSUME NEW v \in Workers PROVE Requested(v)'
    <2>1. CASE v = w
      BY <1>3, <1>6, <1>8, <1>12, <2>1 DEF Requested
    <2>2. CASE v # w
      <3>1. Requested(v)
        BY DEF Inv
      <3>2. req'[v] = req[v] /\ (req[v] # NoRequest => req[v].at \in 0..MaxTime)
        BY <1>8, <2>2, Fields DEF Inv, TypeOK
      <3> QED
        BY <1>2, <1>3, <1>10, <1>11, <2>2, <3>1, <3>2 DEF Requested
    <2> QED
      BY <2>1, <2>2
  <1>14. Separate'
    BY <1>8, <1>11, <1>12 DEF Inv, Separate
  <1>15. Dated' /\ Forgotten'
    <2>1. ASSUME NEW i \in MsgIDs, message'[i].state \in {"open", "stored"}
          PROVE  message'[i].created <= now'
      BY <1>2, <1>3, <2>1, Rows DEF Inv, Dated
    <2>2. \A u \in Present' : lastRead'[u] <= now'
      BY <1>2, <1>3 DEF Inv, Dated, Present, TypeOK
    <2> QED
      BY <1>2, <2>1, <2>2 DEF Inv, Dated, Forgotten, Present
  <1>16. ASSUME NEW i \in MsgIDs PROVE Overtakes(i)' /\ Marks(i)' /\ Heard(i)'
    <2>0. Overtakes(i) /\ Marks(i) /\ Heard(i)
      BY DEF Inv
    <2>1. Overtakes(i)'
      BY <1>2, <1>8, <1>10, <1>11, <1>12, <2>0 DEF Overtakes, Sets
    <2>2. Marks(i)'
      <3>1. ASSUME NEW v \in Workers, Marking(v)' PROVE Parts(req[v].at, req[v].saw, i)'
        <4>1. CASE v = w
          <5>1. i \in Stored => Known(i) /\ message[i].created <= t /\ ~IsOpen(i)
            BY <1>3, Rows DEF Inv, Dated, Known, IsOpen
          <5>2. IsOpen(i) => i \in straddled'
            BY <1>2 DEF IsOpen
          <5> QED
            BY <1>2, <1>6, <1>8, <1>10, <4>1, <5>1, <5>2 DEF Parts
        <4>2. CASE v # w
          <5>1. Marking(v) /\ req'[v] = req[v]
            BY <1>8, <3>1, <4>2 DEF Marking, Serving
          <5>2. Parts(req[v].at, req[v].saw, i)
            BY <2>0, <5>1 DEF Marks
          <5> QED
            BY <1>2, <1>10, <5>1, <5>2 DEF Parts
        <4> QED
          BY <4>1, <4>2
      <3>2. ASSUME NEW u \in Present' PROVE Parts(lastRead[u], covered[u], i)'
        <4>1. Parts(lastRead[u], covered[u], i)
          BY <1>2, <2>0 DEF Marks, Present
        <4> QED
          BY <1>2, <1>10, <4>1 DEF Parts
      <3> QED
        BY <3>1, <3>2 DEF Marks
    <2>3. Heard(i)'
      BY <1>2, <1>8, <1>10, <1>11, <1>12, <2>0 DEF Heard
    <2> QED
      BY <2>1, <2>2, <2>3
  <1> QED
    BY <1>9, <1>13, <1>14, <1>15, <1>16 DEF Inv

(* The mark is written, and parts the messages as it did when it began.    *)
LEMMA WriteStep ==
  ASSUME Inv, NEW w \in Workers, Serving(w, "read", "write"), WriteMark(w)
  PROVE  Inv'
  <1> DEFINE u == req[w].user
  <1>1. /\ Finish(w) /\ UNCHANGED <<now, message, updatedAt, told, straddled, outrun, crossed>>
        /\ ~Publishing(w) /\ Marking(w)
    BY DEF WriteMark, Serving, Publishing, Marking
  <1>2. CASE u \notin Present
    <2>1. UNCHANGED <<now, db, told, aux>>
      BY <1>1, <1>2 DEF WriteMark, db, aux
    <2> QED
      BY <1>1, <2>1, Answered
  <1>3. CASE u \in Present
    <2>1. /\ lastRead' = [lastRead EXCEPT ![u] = req[w].at]
          /\ covered' = [covered EXCEPT ![u] = req[w].saw]
      BY <1>3 DEF WriteMark, MarkTime
    <2>2. /\ u \in Users /\ req[w].at \in 0..MaxTime /\ req[w].saw \subseteq MsgIDs
          /\ req[w].at <= now
      BY Fields DEF Inv, TypeOK, Serving, Requested
    <2>3. Present' = Present
      BY <2>1 DEF Present
    <2>4. /\ \A p \in Present : lastRead'[p] = IF p = u THEN req[w].at ELSE lastRead[p]
          /\ \A p \in Present : covered'[p] = IF p = u THEN req[w].saw ELSE covered[p]
          /\ \A p \in Users \ Present : covered'[p] = covered[p]
      BY <1>3, <2>1 DEF Present, Inv, TypeOK
    <2>5. TypeOK'
      <3>1. covered' \in [Users -> SUBSET MsgIDs]
        BY <2>1, <2>2 DEF Inv, TypeOK
      <3> QED
        BY <1>1, <2>2, <2>3, <2>4, <3>1, Done DEF Inv, TypeOK
    <2>6. \A i : /\ IsOpen(i)' <=> IsOpen(i)
                 /\ (Known(i)' <=> Known(i)) /\ (i \in Stored' <=> i \in Stored)
                 /\ Fact(i)' = Fact(i)
      BY <1>1 DEF IsOpen, Known, Stored, Fact
    <2>7. ASSUME NEW v \in Workers PROVE Requested(v)'
      <3>1. CASE v = w
        BY <1>1, <3>1, Done DEF Requested
      <3>2. CASE v # w
        BY <1>1, <2>6, <3>2, Done DEF Inv, Requested
      <3> QED
        BY <3>1, <3>2
    <2>8. Separate'
      BY <1>1, Done DEF Inv, Separate
    <2>9. Dated' /\ Forgotten'
      BY <1>1, <2>2, <2>3, <2>4 DEF Inv, Dated, Forgotten
    <2>10. ASSUME NEW i \in MsgIDs PROVE Overtakes(i)' /\ Marks(i)' /\ Heard(i)'
      <3>0. Overtakes(i) /\ Marks(i) /\ Heard(i)
        BY DEF Inv
      <3>1. Overtakes(i)'
        BY <1>1, <2>6, <3>0, Done DEF Overtakes, Sets
      <3>2. Marks(i)'
        <4>1. ASSUME NEW v \in Workers, Marking(v)' PROVE Parts(req[v].at, req[v].saw, i)'
          <5>1. Parts(req[v].at, req[v].saw, i) /\ req'[v] = req[v]
            BY <1>1, <3>0, <4>1, Done DEF Marks
          <5> QED
            BY <1>1, <2>6, <5>1 DEF Parts
        <4>2. ASSUME NEW p \in Present PROVE Parts(lastRead[p], covered[p], i)'
          <5>1. CASE p = u
            <6>1. Parts(req[w].at, req[w].saw, i)
              BY <1>1, <3>0 DEF Marks
            <6>2. lastRead'[p] = req[w].at /\ covered'[p] = req[w].saw
              BY <2>4, <5>1
            <6> QED
              BY <1>1, <2>6, <6>1, <6>2 DEF Parts
          <5>2. CASE p # u
            <6>1. Parts(lastRead[p], covered[p], i)
              BY <3>0 DEF Marks
            <6>2. lastRead'[p] = lastRead[p] /\ covered'[p] = covered[p]
              BY <2>4, <5>2
            <6> QED
              BY <1>1, <2>6, <6>1, <6>2 DEF Parts
          <5> QED
            BY <5>1, <5>2
        <4> QED
          BY <2>3, <4>1, <4>2 DEF Marks
      <3>3. Heard(i)'
        BY <1>1, <2>6, <3>0, Done DEF Heard
      <3> QED
        BY <3>1, <3>2, <3>3
    <2> QED
      BY <2>5, <2>7, <2>8, <2>9, <2>10 DEF Inv
  <1> QED
    BY <1>2, <1>3

(* A rename takes its time: everything stored is older.                    *)
LEMMA RenameStartStep ==
  ASSUME Inv, NEW w \in Workers, Serving(w, "rename", "begin"), StartRename(w)
  PROVE  Inv'
  <1>1. PICK t \in Times :
          /\ Start(t)
          /\ req' = [req EXCEPT ![w].stage = "write", ![w].at = t]
    BY DEF StartRename
  <1>2. UNCHANGED <<message, updatedAt, lastRead, told, covered, straddled, outrun, crossed>>
    BY DEF StartRename, db, aux
  <1>3. t \in 0..MaxTime /\ now' = t /\ now <= t /\ now \in 0..MaxTime
    BY <1>1 DEF Start, Inv, TypeOK
  <1>4. req[w] \in Requests /\ req[w].op = "rename" /\ req[w].stage = "begin"
    BY DEF Inv, TypeOK, Serving
  <1>5. PICK x : x = [req[w] EXCEPT !.stage = "write", !.at = t]
    OBVIOUS
  <1>6. x \in Requests /\ x # NoRequest /\ x.stage = "write" /\ x.op = "rename" /\ x.at = t
    <2>1. PICK y : y = [req[w] EXCEPT !.stage = "write"]
      OBVIOUS
    <2>2. y \in Requests /\ y.stage = "write" /\ y.op = "rename"
      BY <1>4, <2>1, Moved DEF Stages
    <2>3. x = [y EXCEPT !.at = t]
      BY <1>5, <2>1
    <2> QED
      BY <1>3, <2>2, <2>3 DEF Requests
  <1>7. req' = [req EXCEPT ![w] = x]
    BY <1>1, <1>5
  <1>8. \A v \in Workers : req'[v] = IF v = w THEN x ELSE req[v]
    BY <1>7 DEF Inv, TypeOK
  <1>9. TypeOK'
    <2>1. req' \in [Workers -> {NoRequest} \cup Requests]
      BY <1>6, <1>7 DEF Inv, TypeOK
    <2> QED
      BY <1>2, <1>3, <2>1 DEF Inv, TypeOK, Present
  <1>10. \A i : /\ IsOpen(i)' <=> IsOpen(i)
                /\ (Known(i)' <=> Known(i)) /\ (i \in Stored' <=> i \in Stored)
                /\ Fact(i)' = Fact(i)
    BY <1>2 DEF IsOpen, Known, Stored, Fact
  <1>11. \A v \in Workers : v # w =>
           /\ Publishing(v)' <=> Publishing(v)
           /\ (Opening(v)' <=> Opening(v)) /\ (Marking(v)' <=> Marking(v))
           /\ (Renaming(v)' <=> Renaming(v)) /\ Says(v)' = Says(v)
    BY <1>8 DEF Publishing, Opening, Marking, Renaming, Serving, Says
  <1>12. ~Publishing(w)' /\ ~Publishing(w) /\ ~Opening(w)' /\ ~Marking(w)'
    BY <1>4, <1>6, <1>8 DEF Publishing, Opening, Marking, Serving
  <1>13. ASSUME NEW v \in Workers PROVE Requested(v)'
    <2>1. CASE v = w
      BY <1>3, <1>6, <1>8, <1>12, <2>1 DEF Requested
    <2>2. CASE v # w
      <3>1. Requested(v)
        BY DEF Inv
      <3>2. req'[v] = req[v] /\ (req[v] # NoRequest => req[v].at \in 0..MaxTime)
        BY <1>8, <2>2, Fields DEF Inv, TypeOK
      <3> QED
        BY <1>2, <1>3, <1>10, <1>11, <2>2, <3>1, <3>2 DEF Requested
    <2> QED
      BY <2>1, <2>2
  <1>14. Separate'
    BY <1>8, <1>11, <1>12 DEF Inv, Separate
  <1>15. Dated' /\ Forgotten'
    <2>1. ASSUME NEW i \in MsgIDs, message'[i].state \in {"open", "stored"}
          PROVE  message'[i].created <= now'
      BY <1>2, <1>3, <2>1, Rows DEF Inv, Dated
    <2>2. \A u \in Present' : lastRead'[u] <= now'
      BY <1>2, <1>3 DEF Inv, Dated, Present, TypeOK
    <2> QED
      BY <1>2, <2>1, <2>2 DEF Inv, Dated, Forgotten, Present
  <1>16. ASSUME NEW i \in MsgIDs PROVE Overtakes(i)' /\ Marks(i)' /\ Heard(i)'
    <2>0. Overtakes(i) /\ Marks(i) /\ Heard(i)
      BY DEF Inv
    <2>1. Overtakes(i)'
      <3>1. i \in Stored => message[i].created <= t
        BY <1>3, Rows DEF Inv, Dated
      <3>2. ASSUME NEW v \in Workers, Sets(v)', i \in Stored \ outrun
            PROVE  message[i].created <= req'[v].at
        BY <1>6, <1>8, <1>11, <2>0, <3>1, <3>2 DEF Overtakes, Sets
      <3> QED
        BY <1>2, <1>10, <2>0, <3>2 DEF Overtakes
    <2>2. Marks(i)'
      <3>1. ASSUME NEW v \in Workers, Marking(v)' PROVE Parts(req[v].at, req[v].saw, i)'
        <4>1. Marking(v) /\ req'[v] = req[v]
          BY <1>8, <1>11, <1>12, <3>1
        <4>2. Parts(req[v].at, req[v].saw, i)
          BY <2>0, <4>1 DEF Marks
        <4> QED
          BY <1>2, <1>10, <4>1, <4>2 DEF Parts
      <3>2. ASSUME NEW u \in Present' PROVE Parts(lastRead[u], covered[u], i)'
        <4>1. Parts(lastRead[u], covered[u], i)
          BY <1>2, <2>0 DEF Marks, Present
        <4> QED
          BY <1>2, <1>10, <4>1 DEF Parts
      <3> QED
        BY <3>1, <3>2 DEF Marks
    <2>3. Heard(i)'
      BY <1>2, <1>8, <1>10, <1>11, <1>12, <2>0 DEF Heard
    <2> QED
      BY <2>1, <2>2, <2>3
  <1> QED
    BY <1>9, <1>13, <1>14, <1>15, <1>16 DEF Inv

(* The rename is written: the time it sets is not before a message that    *)
(* overtook nobody.                                                        *)
LEMMA RenameWriteStep ==
  ASSUME Inv, NEW w \in Workers, Serving(w, "rename", "write"), WriteRename(w)
  PROVE  Inv'
  <1>1. /\ Finish(w) /\ updatedAt' = req[w].at /\ Renaming(w)
        /\ UNCHANGED <<now, message, lastRead, told, covered, straddled, outrun, crossed>>
    BY DEF WriteRename, Bump, Renaming, Serving, aux
  <1>2. req[w].at \in 0..MaxTime
    BY Fields DEF Inv, TypeOK, Serving
  <1>3. TypeOK'
    BY <1>1, <1>2, Done DEF Inv, TypeOK, Present
  <1>4. \A i : /\ IsOpen(i)' <=> IsOpen(i)
               /\ (Known(i)' <=> Known(i)) /\ (i \in Stored' <=> i \in Stored)
               /\ Fact(i)' = Fact(i)
    BY <1>1 DEF IsOpen, Known, Stored, Fact
  <1>5. ASSUME NEW v \in Workers PROVE Requested(v)'
    <2>1. CASE v = w
      BY <1>1, <2>1, Done DEF Requested
    <2>2. CASE v # w
      BY <1>1, <1>4, <2>2, Done DEF Inv, Requested
    <2> QED
      BY <2>1, <2>2
  <1>6. Separate'
    BY <1>1, Done DEF Inv, Separate
  <1>7. Dated' /\ Forgotten'
    BY <1>1 DEF Inv, Dated, Forgotten, Present
  <1>8. ~Publishing(w)
    BY DEF Publishing, Serving
  <1>9. ASSUME NEW i \in MsgIDs PROVE Overtakes(i)' /\ Marks(i)' /\ Heard(i)'
    <2>0. Overtakes(i) /\ Marks(i) /\ Heard(i)
      BY DEF Inv
    <2>1. Overtakes(i)'
      <3>1. i \in Stored \ outrun => message[i].created <= req[w].at
        BY <1>1, <2>0 DEF Overtakes, Sets
      <3>2. \A v \in Workers : Sets(v)' => Sets(v) /\ req'[v] = req[v]
        BY <1>1, Done DEF Sets
      <3> QED
        BY <1>1, <1>4, <2>0, <3>1, <3>2 DEF Overtakes
    <2>2. Marks(i)'
      <3>1. ASSUME NEW v \in Workers, Marking(v)' PROVE Parts(req[v].at, req[v].saw, i)'
        <4>1. Parts(req[v].at, req[v].saw, i) /\ req'[v] = req[v]
          BY <1>1, <2>0, <3>1, Done DEF Marks
        <4> QED
          BY <1>1, <1>4, <4>1 DEF Parts
      <3>2. ASSUME NEW u \in Present' PROVE Parts(lastRead[u], covered[u], i)'
        <4>1. Parts(lastRead[u], covered[u], i)
          BY <1>1, <2>0 DEF Marks, Present
        <4> QED
          BY <1>1, <1>4, <4>1 DEF Parts
      <3> QED
        BY <3>1, <3>2 DEF Marks
    <2>3. Heard(i)'
      BY <1>1, <1>4, <1>8, <2>0, Done DEF Heard
    <2> QED
      BY <2>1, <2>2, <2>3
  <1> QED
    BY <1>3, <1>5, <1>6, <1>7, <1>9 DEF Inv

(* A failure before anything is written, of a transaction, or of an event. *)
LEMMA FailStep ==
  ASSUME Inv, NEW w \in Workers, Fail(w)
  PROVE  Inv'
  <1>0. PICK id : id = req[w].msg
    OBVIOUS
  <1>1. /\ req[w] # NoRequest /\ Finish(w)
        /\ message' = IF Opening(w) THEN [message EXCEPT ![id] = Unused] ELSE message
        /\ straddled' = IF Opening(w) THEN straddled \ {id} ELSE straddled
        /\ crossed' = IF Publishing(w) THEN crossed \cup {id} ELSE crossed
        /\ UNCHANGED <<now, updatedAt, lastRead, told, covered, outrun>>
    BY <1>0 DEF Fail, Opening, Publishing
  <1>2. CASE ~Opening(w) /\ ~Publishing(w)
    <2>1. UNCHANGED <<now, db, told, aux>>
      BY <1>1, <1>2 DEF db, aux
    <2> QED
      BY <1>1, <1>2, <2>1, Answered
  <1>3. CASE Opening(w) \/ Publishing(w)
    <2>1. id \in MsgIDs /\ (Opening(w) => IsOpen(id) /\ ~Publishing(w))
      BY <1>0, <1>1, <1>3 DEF Inv, Requested, Opening, Publishing, Serving
    <2>2. Unused.state = "unused" /\ Deleted.state = "deleted"
      BY DEF Unused, Deleted
    <2>3. \A i \in MsgIDs : message'[i] = IF i = id /\ Opening(w) THEN Unused ELSE message[i]
      BY <1>1, <2>1 DEF Inv, TypeOK
    <2>4. TypeOK'
      <3>1. message' \in [MsgIDs -> {Unused, Deleted} \cup Typed]
        BY <1>1, <2>1 DEF Inv, TypeOK, Typed
      <3> QED
        BY <1>1, <2>1, <3>1, Done DEF Inv, TypeOK, Present, Typed
    <2>5. \A i \in MsgIDs : /\ IsOpen(i)' => IsOpen(i)
                            /\ (Known(i)' <=> Known(i)) /\ (i \in Stored' <=> i \in Stored)
                            /\ message'[i].state \in {"open", "stored"} => message'[i] = message[i]
      BY <2>1, <2>2, <2>3 DEF IsOpen, Known, Stored
    <2>6. ASSUME NEW i \in MsgIDs PROVE Fact(i)' = Fact(i)
      <3>1. CASE i = id /\ Opening(w)
        <4>1. message'[i].state = "unused" /\ message[i].state = "open"
          BY <2>1, <2>2, <2>3, <3>1 DEF IsOpen
        <4>2. /\ message'[i] # Deleted /\ message[i] # Deleted
              /\ i \notin Stored /\ i \notin Stored'
          BY <2>2, <4>1 DEF Stored
        <4> QED
          BY <4>2 DEF Fact
      <3>2. CASE ~(i = id /\ Opening(w))
        BY <2>3, <2>5, <3>2 DEF Fact
      <3> QED
        BY <3>1, <3>2
    <2>7. ASSUME NEW v \in Workers PROVE Requested(v)'
      <3>1. CASE v = w
        BY <1>1, <3>1, Done DEF Requested
      <3>2. CASE v # w
        <4>1. /\ req'[v] = req[v] /\ Requested(v)
              /\ Publishing(v)' <=> Publishing(v)
              /\ Opening(v)' <=> Opening(v)
          BY <1>1, <3>2, Done DEF Inv, Publishing, Opening, Serving
        <4>2. Opening(v) /\ Opening(w) => req[v].msg # id
          BY <1>0, <3>2 DEF Inv, Separate
        <4>3. Opening(v) /\ req[v] # NoRequest => message'[req[v].msg] = message[req[v].msg]
          BY <2>3, <4>1, <4>2 DEF Requested
        <4> QED
          BY <1>1, <2>5, <4>1, <4>3 DEF Requested, IsOpen
      <3> QED
        BY <3>1, <3>2
    <2>8. Separate'
      BY <1>1, Done DEF Inv, Separate
    <2>9. Dated' /\ Forgotten'
      BY <1>1, <2>5 DEF Inv, Dated, Forgotten, Present
    <2>10. ASSUME NEW i \in MsgIDs PROVE Overtakes(i)' /\ Marks(i)' /\ Heard(i)'
      <3>0. Overtakes(i) /\ Marks(i) /\ Heard(i)
        BY DEF Inv
      <3>1. i \in Stored' => message'[i] = message[i]
        BY <2>5 DEF Stored
      <3>2. Overtakes(i)'
        BY <1>1, <2>5, <3>0, <3>1, Done DEF Overtakes, Sets
      <3>3. Marks(i)'
        <4>0. /\ i \notin straddled' /\ i \in Stored' => i \notin straddled /\ i \in Stored
              /\ i \notin straddled' /\ IsOpen(i)' =>
                   i \notin straddled /\ IsOpen(i) /\ message'[i] = message[i]
          <5>1. Opening(w) => id \notin Stored' /\ ~IsOpen(id)'
            BY <2>1, <2>2, <2>3 DEF Stored, IsOpen
          <5> QED
            BY <1>1, <2>5, <5>1 DEF IsOpen
        <4>1. ASSUME NEW v \in Workers, Marking(v)' PROVE Parts(req[v].at, req[v].saw, i)'
          <5>1. Parts(req[v].at, req[v].saw, i) /\ req'[v] = req[v]
            BY <1>1, <3>0, <4>1, Done DEF Marks
          <5> QED
            BY <2>5, <3>1, <4>0, <5>1 DEF Parts
        <4>2. ASSUME NEW u \in Present' PROVE Parts(lastRead[u], covered[u], i)'
          <5>1. Parts(lastRead[u], covered[u], i) /\ UNCHANGED <<lastRead, covered>>
            BY <1>1, <3>0 DEF Marks, Present
          <5> QED
            BY <2>5, <3>1, <4>0, <5>1 DEF Parts
        <4> QED
          BY <4>1, <4>2 DEF Marks
      <3>4. Heard(i)'
        <4>1. i \notin crossed' => i \notin crossed /\ ~(Publishing(w) /\ req[w].msg = i)
          BY <1>0, <1>1
        <4> QED
          BY <1>1, <2>6, <3>0, <4>1, Done DEF Heard
      <3> QED
        BY <3>2, <3>3, <3>4
    <2> QED
      BY <2>4, <2>7, <2>8, <2>9, <2>10 DEF Inv
  <1> QED
    BY <1>2, <1>3

(* Somebody leaves, or joins again with nothing read.                      *)
LEMMA MoverStep ==
  ASSUME Inv, NEW u \in Movers, Leave(u) \/ Join(u)
  PROVE  Inv'
  <1>1. u \in Users /\ UNCHANGED <<now, message, updatedAt, req, told, straddled, outrun, crossed>>
    BY DEF Leave, Join, aux
  <1>2. \/ /\ u \in Present /\ Present' = Present \ {u}
           /\ \A p \in Present' : lastRead'[p] = lastRead[p] /\ covered'[p] = covered[p]
           /\ covered' = [covered EXCEPT ![u] = {}]
        \/ /\ u \notin Present /\ Present' = Present \cup {u} /\ covered' = covered
           /\ \A p \in Present' : lastRead'[p] = IF p = u THEN 0 ELSE lastRead[p]
    <2>1. CASE Leave(u)
      <3>1. /\ u \in Present /\ lastRead' = [v \in Present \ {u} |-> lastRead[v]]
            /\ covered' = [covered EXCEPT ![u] = {}]
        BY <2>1 DEF Leave
      <3>2. Present' = Present \ {u}
        BY <3>1 DEF Present
      <3>3. \A p \in Present : p \in Users
        BY DEF Inv, TypeOK
      <3>4. \A p \in Present' : lastRead'[p] = lastRead[p] /\ covered'[p] = covered[p]
        BY <3>1, <3>2, <3>3 DEF Inv, TypeOK
      <3> QED
        BY <3>1, <3>2, <3>4
    <2>2. CASE Join(u)
      <3>1. /\ u \notin Present /\ covered' = covered
            /\ lastRead' = [v \in Present \cup {u} |-> IF v = u THEN 0 ELSE lastRead[v]]
        BY <2>2 DEF Join, aux
      <3>2. Present' = Present \cup {u}
        BY <3>1 DEF Present
      <3> QED
        BY <3>1, <3>2
    <2> QED
      BY <2>1, <2>2
  <1>3. covered' \in [Users -> SUBSET MsgIDs] /\ Forgotten' /\ Present' \subseteq Users
    <2>1. covered \in [Users -> SUBSET MsgIDs] /\ Present \subseteq Users
      BY DEF Inv, TypeOK
    <2> QED
      BY <1>1, <1>2, <2>1 DEF Inv, Forgotten
  <1>4. \A p \in Present' : lastRead'[p] \in 0..MaxTime /\ lastRead'[p] <= now'
    <2>1. now \in 0..MaxTime /\ \A p \in Present : lastRead[p] \in 0..MaxTime /\ lastRead[p] <= now
      BY DEF Inv, TypeOK, Dated
    <2> QED
      BY <1>1, <1>2, <2>1
  <1>5. TypeOK'
    BY <1>1, <1>3, <1>4 DEF Inv, TypeOK
  <1>6. /\ \A i : /\ IsOpen(i)' <=> IsOpen(i)
                  /\ (Known(i)' <=> Known(i)) /\ (i \in Stored' <=> i \in Stored)
                  /\ Fact(i)' = Fact(i)
        /\ \A v : /\ Publishing(v)' <=> Publishing(v)
                  /\ (Opening(v)' <=> Opening(v)) /\ (Marking(v)' <=> Marking(v))
                  /\ (Renaming(v)' <=> Renaming(v)) /\ Says(v)' = Says(v)
    BY <1>1 DEF IsOpen, Known, Stored, Fact, Publishing, Opening, Marking, Renaming, Serving, Says
  <1>7. (\A v \in Workers : Requested(v)') /\ Separate'
    BY <1>1, <1>6 DEF Inv, Requested, Separate
  <1>8. Dated'
    BY <1>1, <1>4 DEF Inv, Dated
  <1>9. ASSUME NEW i \in MsgIDs PROVE Overtakes(i)' /\ Marks(i)' /\ Heard(i)'
    <2>0. Overtakes(i) /\ Marks(i) /\ Heard(i)
      BY DEF Inv
    <2>1. Overtakes(i)' /\ Heard(i)'
      BY <1>1, <1>6, <2>0 DEF Overtakes, Sets, Heard
    <2>2. Marks(i)'
      <3>1. ASSUME NEW v \in Workers, Marking(v)' PROVE Parts(req[v].at, req[v].saw, i)'
        <4>1. Marking(v)
          BY <1>1, <3>1 DEF Marking, Serving
        <4>2. Parts(req[v].at, req[v].saw, i)
          BY <2>0, <4>1 DEF Marks
        <4> QED
          BY <1>1, <1>6, <4>2 DEF Parts
      <3>2. ASSUME NEW p \in Present' PROVE Parts(lastRead[p], covered[p], i)'
        <4>1. CASE p \in Present
          <5>1. Parts(lastRead[p], covered[p], i)
            BY <2>0, <4>1 DEF Marks
          <5>2. lastRead'[p] = lastRead[p] /\ covered'[p] = covered[p]
            BY <1>2, <3>2, <4>1
          <5> QED
            BY <1>1, <1>6, <5>1, <5>2 DEF Parts
        <4>2. CASE p \notin Present
          <5>1. lastRead'[p] = 0 /\ covered'[p] = {}
            BY <1>1, <1>2, <3>2, <4>2 DEF Inv, Forgotten
          <5>2. IsOpen(i) \/ i \in Stored => message[i].created >= 0
            BY Rows DEF Inv, IsOpen
          <5> QED
            BY <1>1, <1>6, <5>1, <5>2 DEF Parts
        <4> QED
          BY <4>1, <4>2
      <3> QED
        BY <3>1, <3>2 DEF Marks
    <2> QED
      BY <2>1, <2>2
  <1> QED
    BY <1>3, <1>5, <1>7, <1>8, <1>9 DEF Inv

-----------------------------------------------------------------------------
LEMMA Step == Inv /\ [Next]_vars => Inv'
  <1> SUFFICES ASSUME Inv, [Next]_vars PROVE Inv'
    OBVIOUS
  <1>1. ASSUME NEW w \in Workers, Receive(w) PROVE Inv'
    BY <1>1, ReceiveStep
  <1>2. ASSUME NEW w \in Workers, Create(w) PROVE Inv'
    BY <1>2, CheckStep, OpenStep, CommitStep, PublishStep DEF Create
  <1>3. ASSUME NEW w \in Workers, Update(w) PROVE Inv'
    BY <1>3, CheckStep, FindStep, UpdateStep, PublishStep DEF Update
  <1>4. ASSUME NEW w \in Workers, Delete(w) PROVE Inv'
    BY <1>4, CheckStep, FindStep, DeleteStep, PublishStep DEF Delete
  <1>5. ASSUME NEW w \in Workers, MarkRead(w) PROVE Inv'
    BY <1>5, CheckStep, StartStep, WriteStep DEF MarkRead
  <1>6. ASSUME NEW w \in Workers, Fail(w) PROVE Inv'
    BY <1>6, FailStep
  <1>7. ASSUME NEW u \in Movers, Leave(u) \/ Join(u) PROVE Inv'
    BY <1>7, MoverStep
  <1>8. CASE UNCHANGED vars
    BY <1>8 DEF vars, aux, Inv, TypeOK, Present, Requested, Publishing, Opening, Marking, Renaming, Sets, Serving,
       Known, IsOpen, Separate, Dated, Forgotten, Overtakes, Stored, Marks, Parts, Heard, Says, Fact
  <1>9. ASSUME NEW w \in Workers, Rename(w) PROVE Inv'
    BY <1>9, CheckStep, RenameStartStep, RenameWriteStep DEF Rename
  <1> QED
    BY <1>1, <1>2, <1>3, <1>4, <1>5, <1>6, <1>7, <1>8, <1>9 DEF Next, Serve

LEMMA Invariance == Spec => []Inv
  BY Initial, Step, PTL DEF Spec

(* TypeOK in every state: the rows, the requests and the marks stay what   *)
(* the schema and the handlers make of them                                *)
(* (message_repository.go:33-90, conversation_repository.go:322).          *)
THEOREM TypeCorrect == Spec => []TypeOK
  <1>1. Inv => TypeOK
    BY DEF Inv
  <1> QED
    BY <1>1, Invariance, PTL

(* What the last event about a message said is what the database holds,    *)
(* unless two writes to it overlapped or an event was lost                 *)
(* (handlers/messages.go:96-97, 206-207, 254-258).                         *)
THEOREM EventsTellTheTruth == Spec => []LastEventIsTrue
  <1>1. Inv => LastEventIsTrue
    BY DEF Inv, LastEventIsTrue, Heard, Publishing
  <1> QED
    BY <1>1, Invariance, PTL

(* A mark of read parts the messages at the moment MarkRead began, but for *)
(* those being inserted just then                                          *)
(* (message_repository.go:33, conversation_repository.go:155, 322).        *)
THEOREM MarksAreExact == Spec => []UnreadExact
  <1>1. Inv => UnreadExact
    <2> SUFFICES ASSUME Inv, NEW u \in Present, NEW m \in Stored \ straddled,
                        message[m].sender # u, message[m].created # lastRead[u]
                 PROVE  Unread(u, m) <=> m \notin covered[u]
      BY DEF UnreadExact
    <2>1. m \in MsgIDs /\ Parts(lastRead[u], covered[u], m)
      BY DEF Inv, Marks, Stored
    <2>2. message[m].created \in 0..MaxTime /\ lastRead[u] \in 0..MaxTime
      BY <2>1, Rows DEF Inv, TypeOK
    <2> QED
      BY <2>1, <2>2 DEF Parts, Unread
  <1> QED
    BY <1>1, Invariance, PTL

(* A conversation is listed no older than its newest message, but for one  *)
(* that overtook another message or a rename that began before it          *)
(* (message_repository.go:43-48, conversation_repository.go:137-139).      *)
THEOREM ListIsByNewest == Spec => []ListedByNewest
  <1>1. Inv => ListedByNewest
    BY DEF Inv, ListedByNewest, Overtakes, Stored
  <1> QED
    BY <1>1, Invariance, PTL
=============================================================================
