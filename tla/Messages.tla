------------------------------ MODULE Messages ------------------------------
(***************************************************************************)
(* The messages and read marks of one conversation, and the time that      *)
(* orders it in the list: services/message_service.go and                  *)
(* ConversationService.MarkRead and UpdateRoomName over                    *)
(* repositories/message_repository.go, up to the event the handler         *)
(* publishes once the database has answered (handlers/messages.go,         *)
(* handlers/conversations.go:150-235).                                     *)
(*                                                                         *)
(* A worker is one HTTP request.  NOW() is the time at which the           *)
(* transaction started, which a row lock or a later statement can put long *)
(* before its commit, so taking the time and writing are steps apart.      *)
(***************************************************************************)
EXTENDS Naturals, FiniteSets

CONSTANTS
  Users,
  MsgIDs,     \* ids uuid.New may return: the bound on messages
  Contents,   \* contents that pass validation
  Workers,    \* requests served at the same time
  Ops,        \* user -> the operations its clients send: bounds the runs
  Carries,    \* operation -> the contents sent with it: bounds the runs
  Movers,     \* users who leave and join again: bounds the runs
  MaxTime,    \* bound on the database's clock
  None,       \* the request names no message, or carries no content
  NoRequest   \* the worker is idle

AllOps == {"create", "update", "delete", "read", "rename"}
Times  == 0..MaxTime

VARIABLES
  now,        \* the database's clock
  message,    \* id -> [state, sender, content, created]
  updatedAt,  \* conversations.updated_at
  lastRead,   \* participant -> last_read_at, 0 for NULL; the rows there are
  req,        \* worker -> the request it serves
  told,       \* id -> what the last event published about it said
  covered,    \* auxiliary: user -> messages stored when the MarkRead that
              \* wrote last_read_at took its time
  straddled,  \* auxiliary: messages not committed yet when some MarkRead did
  outrun,     \* auxiliary: messages committed before a message or a rename
              \* that began earlier
  crossed     \* auxiliary: messages written while an event about an earlier
              \* write was still to be published, or whose event was lost

db   == <<message, updatedAt, lastRead>>
aux  == <<covered, straddled, outrun, crossed>>
vars == <<now, message, updatedAt, lastRead, req, told, aux>>

Requests == [op : AllOps, user : Users, msg : MsgIDs \cup {None},
             content : Contents \cup {None},
             stage : {"check", "find", "begin", "write", "publish"},
             at : Times, saw : SUBSET MsgIDs]

ASSUME OpsAssumption == Ops \in [Users -> SUBSET AllOps] /\ Movers \subseteq Users
ASSUME CarriesAssumption == Carries \in [{"create", "update"} -> SUBSET Contents]
ASSUME TimeAssumption == MaxTime \in Nat \ {0}
ASSUME NoneAssumption == None \notin MsgIDs \cup Contents /\ NoRequest \notin Requests

Unused  == [state |-> "unused"]
Deleted == [state |-> "deleted"]
Stored  == {m \in MsgIDs : message[m].state = "stored"}
Present == DOMAIN lastRead

(* The join of ListForUser that counts; NULL is before every time.         *)
Unread(u, m) == message[m].sender # u /\ message[m].created > lastRead[u]

Init ==
  /\ now = 1
  /\ message = [m \in MsgIDs |-> Unused]
  /\ updatedAt = 0
  /\ lastRead = [u \in Users |-> 0]
  /\ req = [w \in Workers |-> NoRequest]
  /\ told = [m \in MsgIDs |-> "nothing"]
  /\ covered = [u \in Users |-> {}]
  /\ straddled = {} /\ outrun = {} /\ crossed = {}

-----------------------------------------------------------------------------
(* Any user may ask; update and delete name a message clients have heard   *)
(* of.                                                                     *)
Receive(w) ==
  /\ req[w] = NoRequest
  /\ \E u \in Users : \E op \in Ops[u], m \in MsgIDs \cup {None},
        x \in Contents \cup {None} :
       /\ m # None <=> op \in {"update", "delete"}
       /\ x # None <=> op \in DOMAIN Carries
       /\ x # None => x \in Carries[op]
       /\ m # None => message[m].state \in {"stored", "deleted"}
       /\ req' = [req EXCEPT ![w] = [op |-> op, user |-> u, msg |-> m,
                    content |-> x, stage |-> "check", at |-> 0, saw |-> {}]]
  /\ UNCHANGED <<now, db, told, aux>>

Serving(w, op, stage) ==
  req[w] # NoRequest /\ req[w].op = op /\ req[w].stage = stage
Advance(w, stage) == req' = [req EXCEPT ![w].stage = stage]
Finish(w) == req' = [req EXCEPT ![w] = NoRequest]

(* IsParticipant, the first thing every operation asks; FindParticipant    *)
(* for a rename, whose role check is in ConversationService: here any      *)
(* participant may rename.                                                 *)
EnsureParticipant(w, next) ==
  /\ IF req[w].user \in Present THEN Advance(w, next) ELSE Finish(w)
  /\ UNCHANGED <<now, db, told, aux>>

(* FindByID and the test on the sender.                                    *)
FindOwn(w) ==
  LET m == req[w].msg
  IN  /\ IF m \in Stored /\ message[m].sender = req[w].user
         THEN Advance(w, "write") ELSE Finish(w)
      /\ UNCHANGED <<now, db, told, aux>>

(* A transaction starts: the clock may have moved on since the last one.   *)
Start(t) == /\ t \in {now, now + 1} \cap Times
            /\ now' = t

(* Writing to m while an event about it is still to come.                  *)
Cross(w, m) ==
  crossed' = IF \E v \in Workers \ {w} : /\ req[v] # NoRequest
                                         /\ req[v].stage = "publish"
                                         /\ req[v].msg = m
             THEN crossed \cup {m} ELSE crossed

(* The handler publishes after the change; the event says what it wrote.   *)
Publish(w, op) ==
  /\ Serving(w, op, "publish")
  /\ told' = [told EXCEPT ![req[w].msg] = IF op = "delete" THEN "deleted"
                                          ELSE req[w].content]
  /\ Finish(w)
  /\ UNCHANGED <<now, db, aux>>

-----------------------------------------------------------------------------
(* messages.Create.  BEGIN fixes created_at; the INSERT and the UPDATE of  *)
(* the conversation become visible together at the commit.                 *)
OpenCreate(w) ==
  \E m \in MsgIDs, t \in Times :
    /\ message[m] = Unused
    /\ Start(t)
    /\ message' = [message EXCEPT ![m] = [state |-> "open",
                     sender |-> req[w].user, content |-> req[w].content,
                     created |-> t]]
    /\ req' = [req EXCEPT ![w].stage = "write", ![w].msg = m, ![w].at = t]
    /\ UNCHANGED <<updatedAt, lastRead, told, aux>>

(* Mutated form: the conversation is not touched.                          *)
BumpNever(t) == UNCHANGED updatedAt

Bump(t) == updatedAt' = t

(* Those about to write updated_at with the time they began.               *)
Opened == {v \in Workers : Serving(v, "create", "write") \/ Serving(v, "rename", "write")}

CommitCreate(w) ==
  LET m == req[w].msg
  IN  /\ message' = [message EXCEPT ![m].state = "stored"]
      /\ Bump(req[w].at)
      /\ outrun' = IF \E v \in Opened : req[v].at < req[w].at
                   THEN outrun \cup {m} ELSE outrun
      /\ req' = [req EXCEPT ![w].stage = "publish", ![w].at = 0]
      /\ UNCHANGED <<now, lastRead, told, covered, straddled, crossed>>

Create(w) ==
  \/ Serving(w, "create", "check") /\ EnsureParticipant(w, "begin")
  \/ Serving(w, "create", "begin") /\ OpenCreate(w)
  \/ Serving(w, "create", "write") /\ CommitCreate(w)
  \/ Publish(w, "create")

(* messages.UpdateContent: no row, no update, and no event.                *)
UpdateContent(w) ==
  LET m == req[w].msg
  IN  /\ IF m \in Stored
         THEN /\ message' = [message EXCEPT ![m].content = req[w].content]
              /\ Cross(w, m) /\ Advance(w, "publish")
         ELSE Finish(w) /\ UNCHANGED <<message, crossed>>
      /\ UNCHANGED <<now, updatedAt, lastRead, told,
                     covered, straddled, outrun>>

Update(w) ==
  \/ Serving(w, "update", "check") /\ EnsureParticipant(w, "find")
  \/ Serving(w, "update", "find")  /\ FindOwn(w)
  \/ Serving(w, "update", "write") /\ UpdateContent(w)
  \/ Publish(w, "update")

(* Mutated form: the handler answers without telling anybody.              *)
AnswerDelete(w) == Finish(w)

PublishDelete(w) == Advance(w, "publish")

(* messages.Delete does not ask whether there was a row.                   *)
DeleteRow(w) ==
  LET m == req[w].msg
  IN  /\ message' = [message EXCEPT ![m] = Deleted]
      /\ Cross(w, m) /\ PublishDelete(w)
      /\ straddled' = straddled \ {m} /\ outrun' = outrun \ {m}
      /\ UNCHANGED <<now, updatedAt, lastRead, told, covered>>

Delete(w) ==
  \/ Serving(w, "delete", "check") /\ EnsureParticipant(w, "find")
  \/ Serving(w, "delete", "find")  /\ FindOwn(w)
  \/ Serving(w, "delete", "write") /\ DeleteRow(w)
  \/ Publish(w, "delete")

-----------------------------------------------------------------------------
(* conversations.MarkRead.  NOW() is taken when the statement starts; the  *)
(* row may be locked by another MarkRead then, and gone when it is free.   *)
StartMark(w) ==
  \E t \in Times :
    /\ Start(t)
    /\ req' = [req EXCEPT ![w].stage = "write", ![w].at = t, ![w].saw = Stored]
    /\ straddled' = straddled \cup {m \in MsgIDs : message[m].state = "open"}
    /\ UNCHANGED <<db, told, covered, outrun, crossed>>

(* Mutated form: the time of the write, not of the start.                  *)
MarkTimeLate(w) == now

MarkTime(w) == req[w].at

WriteMark(w) ==
  LET u == req[w].user
  IN  /\ IF u \in Present
         THEN /\ lastRead' = [lastRead EXCEPT ![u] = MarkTime(w)]
              /\ covered' = [covered EXCEPT ![u] = req[w].saw]
         ELSE UNCHANGED <<lastRead, covered>>
      /\ Finish(w)
      /\ UNCHANGED <<now, message, updatedAt, told,
                     straddled, outrun, crossed>>

MarkRead(w) ==
  \/ Serving(w, "read", "check") /\ EnsureParticipant(w, "begin")
  \/ Serving(w, "read", "begin") /\ StartMark(w)
  \/ Serving(w, "read", "write") /\ WriteMark(w)

(* conversations.UpdateRoomName: updated_at = NOW(), the time at which its *)
(* statement started, however long it then waits for the row.  Nobody is   *)
(* told.                                                                   *)
StartRename(w) ==
  \E t \in Times :
    /\ Start(t)
    /\ req' = [req EXCEPT ![w].stage = "write", ![w].at = t]
    /\ UNCHANGED <<db, told, aux>>

WriteRename(w) ==
  /\ Bump(req[w].at)
  /\ Finish(w)
  /\ UNCHANGED <<now, message, lastRead, told, aux>>

Rename(w) ==
  \/ Serving(w, "rename", "check") /\ EnsureParticipant(w, "begin")
  \/ Serving(w, "rename", "begin") /\ StartRename(w)
  \/ Serving(w, "rename", "write") /\ WriteRename(w)

(* A statement or the publication fails.  A rolled back message was never  *)
(* there; an event that is lost stays lost, only the log hears of it.      *)
Fail(w) ==
  LET m    == req[w].msg
      open == Serving(w, "create", "write")
  IN  /\ req[w] # NoRequest
      /\ message' = IF open THEN [message EXCEPT ![m] = Unused] ELSE message
      /\ straddled' = IF open THEN straddled \ {m} ELSE straddled
      /\ crossed' = IF req[w].stage = "publish" THEN crossed \cup {m} ELSE crossed
      /\ Finish(w)
      /\ UNCHANGED <<now, updatedAt, lastRead, told, covered, outrun>>

(* conversation_participants, as ConversationService changes it.           *)
Leave(u) ==
  /\ u \in Present
  /\ lastRead' = [v \in Present \ {u} |-> lastRead[v]]
  /\ covered' = [covered EXCEPT ![u] = {}]
  /\ UNCHANGED <<now, message, updatedAt, req, told,
                 straddled, outrun, crossed>>

Join(u) ==
  /\ u \notin Present
  /\ lastRead' = [v \in Present \cup {u} |-> IF v = u THEN 0 ELSE lastRead[v]]
  /\ UNCHANGED <<now, message, updatedAt, req, told, aux>>

Serve(w) == Create(w) \/ Update(w) \/ Delete(w) \/ MarkRead(w) \/ Rename(w)

Next == \/ \E w \in Workers : Receive(w) \/ Serve(w) \/ Fail(w)
        \/ \E u \in Movers : Leave(u) \/ Join(u)

Spec == Init /\ [][Next]_vars

-----------------------------------------------------------------------------
(* TypeOK: the values the variables range over.                            *)
TypeOK ==
  /\ now \in Times /\ updatedAt \in Times
  /\ message \in [MsgIDs -> {Unused, Deleted} \cup
       [state : {"open", "stored"}, sender : Users, content : Contents,
        created : Times]]
  /\ Present \subseteq Users /\ \A u \in Present : lastRead[u] \in Times
  /\ req \in [Workers -> {NoRequest} \cup Requests]
  /\ told \in [MsgIDs -> {"nothing", "deleted"} \cup Contents]
  /\ covered \in [Users -> SUBSET MsgIDs]
  /\ straddled \cup outrun \cup crossed \subseteq MsgIDs

(* What the last event about a message said is what the database holds,    *)
(* once no request is about to publish, unless two writes to the message   *)
(* overlapped or an event was lost (handlers/messages.go:96-97, 206-207,   *)
(* 254-258 publish after the database has answered, in no common order).   *)
Fact(m) == CASE m \in Stored          -> message[m].content
             [] message[m] = Deleted   -> "deleted"
             [] OTHER                  -> "nothing"

LastEventIsTrue ==
  \A m \in MsgIDs \ crossed :
    (\A w \in Workers : req[w] # NoRequest /\ req[w].stage = "publish"
                           => req[w].msg # m)
      => told[m] = Fact(m)

(* MarkRead reads exactly the messages that were stored when it began: the *)
(* unread badge counts the others, unless they were being written at that  *)
(* very time and so carry an older time, or share the mark's microsecond   *)
(* (message_repository.go:33, conversation_repository.go:155, 322).        *)
UnreadExact ==
  \A u \in Present : \A m \in Stored \ straddled :
    message[m].sender # u /\ message[m].created # lastRead[u]
      => (Unread(u, m) <=> m \notin covered[u])

(* The conversation list is ordered by updated_at: it is never older than  *)
(* the newest message, but for one that overtook another message or a      *)
(* rename that began before it, whose commit then set the time back        *)
(* (message_repository.go:43-48, conversation_repository.go:137-139).      *)
ListedByNewest ==
  \A m \in Stored \ outrun : message[m].created <= updatedAt
=============================================================================
