------------------------ MODULE ConversationService ------------------------
(***************************************************************************)
(* Conversation management: the functions of services/                     *)
(* conversation_service.go that change conversations and their             *)
(* participants, over the statements of repositories/                      *)
(* conversation_repository.go.                                             *)
(*                                                                         *)
(* A worker is one HTTP request being served.  Each database statement is  *)
(* a step of its own: the service reads the conversation, then the actor,  *)
(* then the target, and only then writes, with nothing that holds the rows *)
(* it read in between.  Two things last longer than a step and keep rows   *)
(* locked: the transaction of TransferOwnership, from its first UPDATE to  *)
(* its commit, and the DELETE of a conversation, which takes the row of    *)
(* the conversation and then, by ON DELETE CASCADE, its participants' one  *)
(* after the other.                                                        *)
(***************************************************************************)
EXTENDS Naturals, FiniteSets

CONSTANTS
  Users,      \* the registered users
  ConvIDs,    \* conversation ids uuid.New may return: the bound on creations
  Names,      \* room names that pass the length check
  Workers,    \* requests served at the same time
  Legacy,     \* direct conversations older than migration 002
  Ops,        \* the operations clients send: bounds the runs, all in general
  NoRole,     \* the user has no row in conversation_participants
  NoName,     \* a NULL name
  NoRequest   \* the worker is idle

CreateOps == {"create_room", "create_direct"}
ManageOps == {"add_participant", "update_role", "remove_participant",
              "leave_room", "transfer_ownership", "update_name",
              "delete_room"}
Roles     == {"owner", "admin", "member"}
Stages    == {"room", "actor", "target", "demote", "promote", "write",
              "cascade"}

(* newRole is the role an update or an addition writes, actorRole the role *)
(* RemoveParticipant keeps in its local variable, held the participants    *)
(* whose rows the open transaction has updated or deleted, and so locked;  *)
(* the target of a deletion is the participant its cascade comes to next.  *)
CreateRequest ==
  [op : CreateOps, actor : Users, target : Users, name : Names \cup {NoName},
   stage : {"find", "write"}]
ManageRequest ==
  [op : ManageOps, actor : Users, conv : ConvIDs, target : Users,
   newRole : {"admin", "member"}, name : Names \cup {NoName}, stage : Stages,
   actorRole : Roles \cup {NoRole}, held : SUBSET Users]
Request == CreateRequest \cup ManageRequest

ASSUME LegacyAssumption == Legacy \subseteq ConvIDs
ASSUME OpsAssumption    == Ops \subseteq CreateOps \cup ManageOps
ASSUME NullAssumption   == /\ NoRole \notin Roles
                           /\ NoRequest \notin Request

VARIABLES
  type,   \* conversation id -> "unused", "room", "direct" or "deleted"
  name,   \* conversation id -> its name
  role,   \* conversation id -> user -> role in conversation_participants
  req,    \* worker -> the request it serves
  raced   \* auxiliary: rooms handed over while another request was about
          \* to act on the roles it had read before

db   == <<type, name, role>>
vars == <<type, name, role, req, raced>>

Participants(c) == {u \in Users : role[c][u] # NoRole}
Owners(c)       == {u \in Users : role[c][u] = "owner"}
Directs(a, b)   == {c \in ConvIDs : type[c] = "direct"
                                    /\ {a, b} \subseteq Participants(c)}

(* Mutated form: the query asks for the wrong type.                        *)
FindRoomBetweenUsers(a, b) ==
  {c \in ConvIDs : type[c] = "room" /\ {a, b} \subseteq Participants(c)}

FindDirectBetweenUsers(a, b) ==
  {c \in ConvIDs : type[c] = "direct" /\ role[c][a] # NoRole
                                     /\ role[c][b] # NoRole}

(* Mutated form: the new role is not checked.                              *)
AnyRole == {"owner", "admin", "member"}

AssignableRoles == {"admin", "member"}

(* Mutated form: an admin's rank is not looked at.                         *)
RemovableByAll(actorRole) == {"admin", "member"}

(* The roles of those a remover of the given role may remove.              *)
Removable(actorRole) ==
  IF actorRole = "admin" THEN {"member"} ELSE {"admin", "member"}

-----------------------------------------------------------------------------
(* Migration 002 gave the creator of every existing conversation the role  *)
(* owner, direct conversations included.                                   *)
LegacyRoles == {r \in [Users -> {"owner", "member", NoRole}] :
                  \E a, b \in Users :
                    /\ a # b
                    /\ r = [u \in Users |-> CASE u = a -> "owner"
                                              [] u = b -> "member"
                                              [] OTHER -> NoRole]}

Init ==
  /\ type = [c \in ConvIDs |-> IF c \in Legacy THEN "direct" ELSE "unused"]
  /\ name = [c \in ConvIDs |-> NoName]
  /\ \E f \in [Legacy -> LegacyRoles] :
       /\ \A c, d \in Legacy : \* one conversation for each pair
            (\A u \in Users : f[c][u] = NoRole <=> f[d][u] = NoRole) => c = d
       /\ role = [c \in ConvIDs |-> IF c \in Legacy
                                    THEN f[c] ELSE [u \in Users |-> NoRole]]
  /\ req = [w \in Workers |-> NoRequest]
  /\ raced = {}

-----------------------------------------------------------------------------
(* Requests.  The checks on the input alone (ids not nil, actor not the    *)
(* target, a known role, a name of legal length) are the conditions a      *)
(* request must meet to get past the first lines of the service function.  *)
ReceiveCreate(w) ==
  \E op \in Ops \cap CreateOps, a, t \in Users, n \in Names \cup {NoName} :
    /\ IF op = "create_room" THEN t = a /\ n \in Names ELSE t # a /\ n = NoName
    /\ req' = [req EXCEPT ![w] =
         [op |-> op, actor |-> a, target |-> t, name |-> n,
          stage |-> IF op = "create_room" THEN "write" ELSE "find"]]

ReceiveManage(w) ==
  \E op \in Ops \cap ManageOps, a, t \in Users, c \in ConvIDs,
     r \in AssignableRoles, n \in Names \cup {NoName} :
    /\ type[c] # "unused"
    /\ (op \in {"leave_room", "update_name", "delete_room"}) <=> (t = a)
    /\ op # "update_role" => r = "member"
    /\ (op = "update_name") <=> (n \in Names)
    /\ req' = [req EXCEPT ![w] =
         [op |-> op, actor |-> a, conv |-> c, target |-> t, newRole |-> r,
          name |-> n, actorRole |-> NoRole, held |-> {},
          stage |-> IF op = "update_role" THEN "actor" ELSE "room"]]

Receive(w) ==
  /\ req[w] = NoRequest
  /\ ReceiveCreate(w) \/ ReceiveManage(w)
  /\ UNCHANGED <<type, name, role, raced>>

Serving(w, op) == req[w] # NoRequest /\ req[w].op = op
At(w, stage)   == req[w].stage = stage
Advance(w, stage) == req' = [req EXCEPT ![w].stage = stage]
Finish(w) == req' = [req EXCEPT ![w] = NoRequest]

(* A read that decides: the request goes on, or is refused.                *)
Check(w, ok, next) == /\ IF ok THEN Advance(w, next) ELSE Finish(w)
                      /\ UNCHANGED <<type, name, role, raced>>

(* Mutated form: the type is not tested.                                   *)
FindConversation(w, next) ==
  /\ At(w, "room")
  /\ Check(w, type[req[w].conv] \in {"room", "direct"}, next)

(* conversations.FindByID and the test on the type.                        *)
FindRoom(w, next) ==
  /\ At(w, "room")
  /\ Check(w, type[req[w].conv] = "room", next)

(* conversations.FindParticipant and the test on the role it returns; a    *)
(* user without a row is refused with pgx.ErrNoRows.                       *)
FindActor(w, allowed, next) ==
  /\ At(w, "actor")
  /\ Check(w, role[req[w].conv][req[w].actor] \in allowed, next)
FindTarget(w, allowed, next) ==
  /\ At(w, "target")
  /\ Check(w, role[req[w].conv][req[w].target] \in allowed, next)

-----------------------------------------------------------------------------
(* The statements that write.  A row that an open transaction has updated  *)
(* or deleted makes every other writer of the row wait.                    *)
Holds(w, c, u) ==
  /\ req[w] # NoRequest /\ req[w].op \in ManageOps
  /\ req[w].conv = c /\ u \in req[w].held

Locked(c, u) == \E w \in Workers : Holds(w, c, u)

(* w deletes the conversation c, and holds its row.                        *)
Deletes(w, c) == /\ Serving(w, "delete_room") /\ At(w, "cascade")
                 /\ req[w].conv = c

Deleting(c) == \E w \in Workers : Deletes(w, c)

SetRole(c, u, r) == role' = [role EXCEPT ![c][u] = r]

(* Mutated form: ON CONFLICT takes the new role.                           *)
AddParticipantOverwriting(c, u, r) ==
  /\ ~Locked(c, u) /\ (role[c][u] = NoRole => ~Deleting(c))
  /\ IF type[c] \in {"room", "direct"} THEN SetRole(c, u, r) ELSE UNCHANGED role
  /\ UNCHANGED <<type, name, raced>>

(* ON CONFLICT keeps the row that is there; the foreign key of a new row   *)
(* waits for a deletion of the conversation and refuses one that has gone. *)
RepoAddParticipant(c, u, r) ==
  /\ ~Locked(c, u) /\ (role[c][u] = NoRole => ~Deleting(c))
  /\ IF type[c] \in {"room", "direct"} /\ role[c][u] = NoRole
     THEN SetRole(c, u, r) ELSE UNCHANGED role
  /\ UNCHANGED <<type, name, raced>>

RepoUpdateParticipantRole(c, u, r) ==
  /\ ~Locked(c, u)
  /\ IF role[c][u] # NoRole THEN SetRole(c, u, r) ELSE UNCHANGED role
  /\ UNCHANGED <<type, name, raced>>

RepoRemoveParticipant(c, u) ==
  /\ ~Locked(c, u)
  /\ SetRole(c, u, NoRole)
  /\ UNCHANGED <<type, name, raced>>

(* The new updated_at, the order of the list, is in Messages.              *)
RepoUpdateRoomName(c, n) ==
  /\ ~Deleting(c)
  /\ IF type[c] \in {"room", "direct"}
     THEN name' = [name EXCEPT ![c] = n] ELSE UNCHANGED name
  /\ UNCHANGED <<type, role, raced>>

(* The cascade has deleted the rows of gone: it goes on with another, or   *)
(* the DELETE commits.                                                     *)
Cascade(w, gone) ==
  LET c    == req[w].conv
      left == Participants(c) \ gone
  IN  \/ /\ \E u \in left :
              req' = [req EXCEPT ![w].stage = "cascade", ![w].target = u,
                                 ![w].held = gone]
         /\ UNCHANGED db
      \/ /\ left = {}
         /\ type' = [type EXCEPT ![c] = "deleted"]
         /\ name' = [name EXCEPT ![c] = NoName]
         /\ role' = [role EXCEPT ![c] = [u \in Users |-> NoRole]]
         /\ Finish(w)

(* The DELETE takes the row of the conversation, if it is still there and  *)
(* when no other deletion has it, then every participant's in some order,  *)
(* waiting for the transaction that has updated one.                       *)
RepoDeleteConversation(w) ==
  LET c == req[w].conv
      u == req[w].target
  IN  /\ \/ /\ At(w, "write") /\ ~Deleting(c) /\ type[c] = "deleted"
            /\ Finish(w) /\ UNCHANGED db
         \/ /\ At(w, "write") /\ ~Deleting(c) /\ type[c] # "deleted"
            /\ Cascade(w, {})
         \/ /\ At(w, "cascade") /\ ~Locked(c, u)
            /\ Cascade(w, req[w].held \cup ({u} \cap Participants(c)))
      /\ UNCHANGED raced

(* One transaction inserts the conversation and its first participants.    *)
RepoCreate(c, t, n, roles) ==
  /\ type[c] = "unused"
  /\ type' = [type EXCEPT ![c] = t]
  /\ name' = [name EXCEPT ![c] = n]
  /\ role' = [role EXCEPT ![c] = roles]
  /\ UNCHANGED raced

(* The first UPDATE of the transfer does not ask whether it found a row;   *)
(* the change is not visible to others before the commit.                  *)
RepoDemote(w) ==
  LET c == req[w].conv
      a == req[w].actor
  IN  /\ At(w, "demote") /\ ~Locked(c, a)
      /\ req' = [req EXCEPT ![w].stage = "promote",
                            ![w].held = {a} \cap Participants(c)]
      /\ UNCHANGED <<type, name, role, raced>>

(* Requests whose decision rests on the roles that the transfer of c to u  *)
(* replaces: a write about to hit the new owner, another transfer that has *)
(* already found its actor to be the owner.                                *)
Stale(v, c, u) ==
  /\ req[v] # NoRequest /\ req[v].op \in ManageOps /\ req[v].conv = c
  /\ \/ /\ req[v].op \in {"update_role", "remove_participant", "leave_room"}
        /\ req[v].stage = "write" /\ req[v].target = u
     \/ /\ req[v].op = "transfer_ownership"
        /\ req[v].stage \in {"target", "demote", "promote"}

(* Mutated form: the transaction is left open.                             *)
LeaveOpen(w) == UNCHANGED req

(* The deferred tx.Rollback.                                               *)
Rollback(w) == Finish(w)

(* RETURNING finds no row when the target has left: the deferred Rollback  *)
(* undoes the demotion.  Otherwise both updates commit together.           *)
RepoPromote(w) ==
  LET c == req[w].conv
      a == req[w].actor
      u == req[w].target
  IN  /\ At(w, "promote") /\ ~Locked(c, u)
      /\ IF role[c][u] = NoRole
         THEN Rollback(w) /\ UNCHANGED <<role, raced>>
         ELSE /\ role' = [role EXCEPT
                   ![c][a] = IF a \in req[w].held THEN "admin" ELSE @,
                   ![c][u] = "owner"]
              /\ raced' = IF \E v \in Workers \ {w} : Stale(v, c, u)
                          THEN raced \cup {c} ELSE raced
              /\ Finish(w)
      /\ UNCHANGED <<type, name>>

-----------------------------------------------------------------------------
(* The service functions: each is the disjunction of its statements.       *)
CreateRoom(w) ==
  /\ Serving(w, "create_room")
  /\ \E c \in ConvIDs :
       RepoCreate(c, "room", req[w].name,
                  [u \in Users |-> IF u = req[w].actor THEN "owner" ELSE NoRole])
  /\ Finish(w)

CreateDirect(w) ==
  /\ Serving(w, "create_direct")
  /\ \/ /\ At(w, "find")
        /\ Check(w, FindDirectBetweenUsers(req[w].actor, req[w].target) = {}, "write")
     \/ /\ At(w, "write")
        /\ \E c \in ConvIDs :
             RepoCreate(c, "direct", NoName,
               [u \in Users |-> IF u \in {req[w].actor, req[w].target}
                                THEN "member" ELSE NoRole])
        /\ Finish(w)

AddRoomParticipant(w) ==
  /\ Serving(w, "add_participant")
  /\ \/ FindRoom(w, "actor")
     \/ FindActor(w, {"owner", "admin"}, "write")
     \/ /\ At(w, "write")
        /\ RepoAddParticipant(req[w].conv, req[w].target, "member")
        /\ Finish(w)

(* The one management function that never asks for the conversation.       *)
UpdateParticipantRole(w) ==
  /\ Serving(w, "update_role")
  /\ \/ FindActor(w, {"owner"}, "target")
     \/ FindTarget(w, {"admin", "member"}, "write")
     \/ /\ At(w, "write")
        /\ RepoUpdateParticipantRole(req[w].conv, req[w].target, req[w].newRole)
        /\ Finish(w)

RemoveParticipant(w) ==
  LET actorRole == role[req[w].conv][req[w].actor]
  IN  /\ Serving(w, "remove_participant")
      /\ \/ FindRoom(w, "actor")
         \/ /\ At(w, "actor") /\ actorRole \in {"owner", "admin"}
            /\ req' = [req EXCEPT ![w].stage = "target",
                                  ![w].actorRole = actorRole]
            /\ UNCHANGED <<type, name, role, raced>>
         \/ /\ At(w, "actor") /\ actorRole \notin {"owner", "admin"}
            /\ Finish(w)
            /\ UNCHANGED <<type, name, role, raced>>
         \/ FindTarget(w, Removable(req[w].actorRole), "write")
         \/ /\ At(w, "write")
            /\ RepoRemoveParticipant(req[w].conv, req[w].target)
            /\ Finish(w)

LeaveRoom(w) ==
  /\ Serving(w, "leave_room")
  /\ \/ FindRoom(w, "actor")
     \/ FindActor(w, {"admin", "member"}, "write")
     \/ /\ At(w, "write")
        /\ RepoRemoveParticipant(req[w].conv, req[w].target)
        /\ Finish(w)

TransferOwnership(w) ==
  /\ Serving(w, "transfer_ownership")
  /\ \/ FindRoom(w, "actor")
     \/ FindActor(w, {"owner"}, "target")
     \/ FindTarget(w, {"admin", "member"}, "demote")
     \/ RepoDemote(w)
     \/ RepoPromote(w)

UpdateRoomName(w) ==
  /\ Serving(w, "update_name")
  /\ \/ FindRoom(w, "actor")
     \/ FindActor(w, {"owner", "admin"}, "write")
     \/ /\ At(w, "write")
        /\ RepoUpdateRoomName(req[w].conv, req[w].name)
        /\ Finish(w)

DeleteRoom(w) ==
  /\ Serving(w, "delete_room")
  /\ \/ FindRoom(w, "actor")
     \/ FindActor(w, {"owner"}, "write")
     \/ RepoDeleteConversation(w)

(* A statement returns an error: the request ends, an open transaction is  *)
(* rolled back.                                                            *)
Fail(w) ==
  /\ req[w] # NoRequest
  /\ Finish(w)
  /\ UNCHANGED <<type, name, role, raced>>

(* The participants whose rows the next statement of w writes; whether it  *)
(* needs the row of the conversation, which a deletion holds.              *)
Writes(w) ==
  CASE req[w].stage = "demote"                 -> {req[w].actor}
    [] req[w].stage \in {"promote", "cascade"} -> {req[w].target}
    [] /\ req[w].stage = "write"
       /\ req[w].op \in {"add_participant", "update_role",
                         "remove_participant", "leave_room"} -> {req[w].target}
    [] OTHER -> {}

WritesConversation(w) ==
  /\ req[w].stage = "write"
  /\ \/ req[w].op \in {"update_name", "delete_room"}
     \/ /\ req[w].op = "add_participant"
        /\ role[req[w].conv][req[w].target] = NoRole

WaitsFor(w, v) ==
  /\ req[w] # NoRequest /\ req[w].op \in ManageOps
  /\ \/ \E u \in Writes(w) : Holds(v, req[w].conv, u)
     \/ WritesConversation(w) /\ Deletes(v, req[w].conv)

(* Transactions that wait for each other in a ring: PostgreSQL aborts one, *)
(* which is a Fail of its request.                                         *)
InRing(w) ==
  \E ring \in SUBSET Workers :
    /\ w \in ring
    /\ \A v \in ring : \E x, y \in ring : WaitsFor(x, v) /\ WaitsFor(v, y)

Serve(w) == \/ CreateRoom(w) \/ CreateDirect(w) \/ AddRoomParticipant(w)
            \/ UpdateParticipantRole(w) \/ RemoveParticipant(w)
            \/ LeaveRoom(w) \/ TransferOwnership(w) \/ UpdateRoomName(w)
            \/ DeleteRoom(w)

Next == \E w \in Workers : Receive(w) \/ Serve(w) \/ Fail(w)

Spec == Init /\ [][Next]_vars

-----------------------------------------------------------------------------
(* TypeOK: rows carry known roles, only existing conversations have rows,  *)
(* and a request carries the arguments of its operation.                   *)
TypeOK ==
  /\ type \in [ConvIDs -> {"unused", "room", "direct", "deleted"}]
  /\ name \in [ConvIDs -> Names \cup {NoName}]
  /\ role \in [ConvIDs -> [Users -> Roles \cup {NoRole}]]
  /\ req  \in [Workers -> Request \cup {NoRequest}]
  /\ raced \subseteq ConvIDs

(* A room has exactly one owner, whatever requests overlap, unless it was  *)
(* handed over while a request that had read the old roles was still to    *)
(* act on them (conversation_service.go:225-243, 299-308, 325-343).        *)
RacedOrOneOwner ==
  \A c \in ConvIDs : type[c] = "room" /\ c \notin raced =>
                       \E u \in Users : Owners(c) = {u}

(* With requests served one at a time every room has exactly one owner.    *)
OneOwner ==
  \A c \in ConvIDs : type[c] = "room" => \E u \in Users : Owners(c) = {u}

(* The two participants of a direct conversation never change: no room     *)
(* operation gets past its type check on one, and the role update that has *)
(* no type check (conversation_service.go:225) neither adds nor removes.   *)
DirectMembershipFixed ==
  [][\A c \in ConvIDs : type[c] = "direct" =>
        type'[c] = "direct" /\ Participants(c)' = Participants(c)]_vars

(* A pair that had its direct conversation before the service started never *)
(* gets a second one, whatever requests overlap: nothing takes either of    *)
(* the two out of it, turns it into a room or deletes it, so that           *)
(* CreateDirect finds it (conversation_service.go:134-148).                 *)
LegacyDirectStaysAlone ==
  \A c \in Legacy : \A a, b \in Participants(c) : a # b => Directs(a, b) = {c}

(* With requests served one at a time CreateDirect is idempotent: a pair   *)
(* shares at most one direct conversation.                                 *)
OneDirectPerPair ==
  \A a, b \in Users : a # b => Cardinality(Directs(a, b)) <= 1

(* A room that has lost its owner, with no transfer past its check on the  *)
(* actor, never has one again: nothing in the service can repair what an   *)
(* overlap of TransferOwnership with a removal broke.                      *)
OwnerlessForGood ==
  [][\A c \in ConvIDs :
        /\ type[c] = "room" /\ Owners(c) = {}
        /\ ~\E w \in Workers :
             /\ Serving(w, "transfer_ownership") /\ req[w].conv = c
             /\ req[w].stage \in {"target", "demote", "promote"}
        => Owners(c)' = {}]_vars

(* w waits for somebody, directly or through others, who holds a row and   *)
(* waits for nobody, or is in a ring.                                      *)
Waits(w) == \E v \in Workers : WaitsFor(w, v)

Served(w) ==
  \A S \in SUBSET Workers :
    (\A v \in S \cup {w}, x \in Workers : WaitsFor(v, x) => x \in S) =>
      \E v \in S \ {w} : /\ \E x \in S \cup {w} : WaitsFor(x, v)
                         /\ ~Waits(v) \/ InRing(v)

(* Transactions wait in a ring only in a room that had been handed over    *)
(* while a transfer rested on the old roles, or when one transfer and one  *)
(* deletion wait for each other: the transfer for the deleted row of its   *)
(* target, the deletion for the demoted one of the owner.                  *)
RingIsKnown(w) ==
  InRing(w) /\ req[w].conv \notin raced =>
    \E t, d \in Workers :
      /\ Serving(t, "transfer_ownership") /\ Serving(d, "delete_room")
      /\ WaitsFor(t, d) /\ WaitsFor(d, t) /\ w \in {t, d}

(* No request on a conversation waits for ever: it can go on, or waits in  *)
(* the end for a transaction that can, or for some that wait for each      *)
(* other, of which the database aborts one; a transfer leaves no lock      *)
(* behind (conversation_repository.go:125-133, 331-365).                   *)
WaitsEnd ==
  \A w \in Workers : req[w] # NoRequest /\ req[w].op \in ManageOps =>
    IF Waits(w) THEN Served(w) /\ RingIsKnown(w)
                ELSE ENABLED <<Serve(w)>>_vars

(* README.md:330 "Owners must transfer ownership before leaving a room."   *)
(* The row of an owner does not disappear from a room that goes on.        *)
OwnersDoNotLeave ==
  [][\A c \in ConvIDs, u \in Users :
        type[c] = "room" /\ type'[c] = "room" /\ role[c][u] = "owner"
        => role'[c][u] # NoRole]_vars
=============================================================================
