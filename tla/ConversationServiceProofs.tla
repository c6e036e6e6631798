--------------------- MODULE ConversationServiceProofs ---------------------
(***************************************************************************)
(* Theorems about ConversationService for every set of users, ids, names   *)
(* and workers: its type invariant, the single owner of a room and the     *)
(* room that has lost it, the membership and the number of direct          *)
(* conversations, that no request waits for ever for a row, and, with      *)
(* requests served one at a time, that the service implements RoomRoles.   *)
(***************************************************************************)
EXTENDS ConversationSerial, FiniteSetTheorems, TLAPS

(* The request of w is a management request on c.                          *)
Managing(w, c) == req[w] # NoRequest /\ req[w].op \in ManageOps
                  /\ req[w].conv = c

(* What the earlier steps of a request have established and nothing can    *)
(* take back: its conversation existed, and from its type check on is a    *)
(* room or a deleted one; whoever hands over does so to somebody else, and *)
(* whoever leaves removes himself.                                         *)
Established(w) ==
  req[w] # NoRequest /\ req[w].op \in ManageOps =>
    /\ type[req[w].conv] # "unused"
    /\ req[w].op # "update_role" /\ req[w].stage # "room"
         => type[req[w].conv] \in {"room", "deleted"}
    /\ req[w].op = "transfer_ownership" => req[w].target # req[w].actor
    /\ req[w].op = "leave_room" => req[w].target = req[w].actor

(* What has to hold of every request on c for its owner o to stay the only *)
(* owner: no write is aimed at o, and who hands over is o.                 *)
Harmless(w, c, o) ==
  Managing(w, c) =>
    /\ /\ req[w].op \in {"update_role", "remove_participant", "leave_room"}
       /\ req[w].stage = "write"
       => req[w].target # o
    /\ /\ req[w].op = "transfer_ownership"
       /\ req[w].stage \in {"target", "demote", "promote"}
       => req[w].actor = o /\ (req[w].stage = "promote" => o \in req[w].held)

(* A room not yet raced has an owner whom no request under way threatens.  *)
OwnerSecure(c) ==
  type[c] = "room" /\ c \notin raced =>
    \E o \in Users : Owners(c) = {o} /\ \A w \in Workers : Harmless(w, c, o)

(* The inductive invariant.                                                *)
IInv == /\ TypeOK
        /\ \A w \in Workers : Established(w)
        /\ \A c \in ConvIDs : OwnerSecure(c)

-----------------------------------------------------------------------------
(* How the fields of a request change when it goes on and when it ends.    *)
LEMMA AdvanceFields ==
  ASSUME TypeOK, NEW w \in Workers, NEW s \in Stages,
         req[w] \in ManageRequest, Advance(w, s)
  PROVE  /\ req' \in [Workers -> Request \cup {NoRequest}]
         /\ \A v \in Workers \ {w} : req'[v] = req[v]
         /\ req'[w] \in ManageRequest
         /\ req'[w] = [req[w] EXCEPT !.stage = s]
<1>1. [req[w] EXCEPT !.stage = s] \in ManageRequest
  BY DEF ManageRequest
<1>2. req' = [req EXCEPT ![w] = [req[w] EXCEPT !.stage = s]]
  BY DEF Advance
<1> QED BY <1>1, <1>2 DEF TypeOK, Request

(* A request that ends frees its worker and touches no other.              *)
LEMMA FinishFields ==
  ASSUME TypeOK, NEW w \in Workers, Finish(w)
  PROVE  /\ req' \in [Workers -> Request \cup {NoRequest}]
         /\ \A v \in Workers \ {w} : req'[v] = req[v]
         /\ req'[w] = NoRequest
BY DEF TypeOK, Finish

(* The operation of a request says which fields it carries.                *)
LEMMA RequestKinds ==
  ASSUME TypeOK, NEW w \in Workers, req[w] # NoRequest
  PROVE  /\ req[w].op \in ManageOps => req[w] \in ManageRequest
         /\ req[w].op \in CreateOps => req[w] \in CreateRequest
BY DEF TypeOK, Request, ManageRequest, CreateRequest, ManageOps, CreateOps

(* The service starts without rooms and without requests; conversations from*)
(* before migration 002 are direct ones, which the invariant leaves alone. *)
THEOREM InitInv == Init => IInv
<1> SUFFICES ASSUME Init PROVE IInv
  OBVIOUS
<1>1. TypeOK
  <2> PICK f \in [Legacy -> LegacyRoles] :
        role = [c \in ConvIDs |-> IF c \in Legacy
                                  THEN f[c] ELSE [u \in Users |-> NoRole]]
    BY DEF Init
  <2>1. role \in [ConvIDs -> [Users -> Roles \cup {NoRole}]]
    BY DEF LegacyRoles, Roles
  <2> QED BY <2>1 DEF TypeOK, Init
<1>2. \A w \in Workers : Established(w)
  BY DEF Init, Established
<1>3. \A c \in ConvIDs : OwnerSecure(c)
  BY DEF Init, OwnerSecure
<1> QED BY <1>1, <1>2, <1>3 DEF IInv

-----------------------------------------------------------------------------
(* The owner o of a room c whose requests are all harmless to it.          *)
Secure(c, o) == /\ type[c] = "room" /\ c \notin raced
                /\ Owners(c) = {o}
                /\ \A w \in Workers : Harmless(w, c, o)

(* A step that writes nothing keeps the invariant if the one request it    *)
(* moves stays established and harmless.                                   *)
LEMMA ReadStep ==
  ASSUME IInv, NEW w \in Workers,
         UNCHANGED <<type, name, role, raced>>,
         req' \in [Workers -> Request \cup {NoRequest}],
         \A v \in Workers \ {w} : req'[v] = req[v],
         Established(w)',
         \A c \in ConvIDs, o \in Users : Secure(c, o) => Harmless(w, c, o)'
  PROVE  IInv'
<1>1. TypeOK'
  BY DEF IInv, TypeOK
<1>2. ASSUME NEW v \in Workers PROVE Established(v)'
  BY <1>2 DEF IInv, Established
<1>3. ASSUME NEW c \in ConvIDs PROVE OwnerSecure(c)'
  <2> SUFFICES ASSUME type[c] = "room", c \notin raced
               PROVE  \E o \in Users : Owners(c)' = {o}
                        /\ \A v \in Workers : Harmless(v, c, o)'
    BY DEF OwnerSecure
  <2>1. PICK o \in Users : Secure(c, o)
    BY DEF IInv, OwnerSecure, Secure
  <2>2. Owners(c)' = {o}
    BY <2>1 DEF Owners, Secure
  <2>3. ASSUME NEW v \in Workers, v # w PROVE Harmless(v, c, o)'
    BY <2>1, <2>3 DEF Secure, Harmless, Managing
  <2> QED BY <2>1, <2>2, <2>3
<1> QED BY <1>1, <1>2, <1>3 DEF IInv

(* An early return, or a failed statement, changes no row: the invariant   *)
(* stays when a request ends like that.                                    *)
LEMMA RefuseStep ==
  ASSUME IInv, NEW w \in Workers, Finish(w),
         UNCHANGED <<type, name, role, raced>>
  PROVE  IInv'
<1>1. TypeOK
  BY DEF IInv
<1>2. Established(w)'
  BY <1>1, FinishFields DEF Established
<1>3. \A c \in ConvIDs, o \in Users : Harmless(w, c, o)'
  BY <1>1, FinishFields DEF Harmless, Managing
<1> QED BY <1>1, <1>2, <1>3, FinishFields, ReadStep

(* A read that decides: what the decision has to establish when it is yes. *)
LEMMA CheckStep ==
  ASSUME IInv, NEW w \in Workers, req[w] \in ManageRequest,
         req[w] # NoRequest, req[w].op \in ManageOps,
         NEW ok, NEW next \in Stages \ {"promote"}, Check(w, ok, next),
         ok => (req[w].op # "update_role"
                  => type[req[w].conv] \in {"room", "deleted"}),
         \A o \in Users : ok /\ Secure(req[w].conv, o) =>
           /\ req[w].op \in {"update_role", "remove_participant", "leave_room"}
              /\ next = "write" => req[w].target # o
           /\ req[w].op = "transfer_ownership"
              /\ next \in {"target", "demote"} => req[w].actor = o
  PROVE  IInv'
<1>1. CASE ~ok
  BY <1>1, RefuseStep DEF Check
<1>2. CASE ok
  <2>1. Advance(w, next) /\ UNCHANGED <<type, name, role, raced>>
    BY <1>2 DEF Check
  <2>2. /\ req' \in [Workers -> Request \cup {NoRequest}]
        /\ \A v \in Workers \ {w} : req'[v] = req[v]
        /\ req'[w] = [req[w] EXCEPT !.stage = next]
    BY <2>1, AdvanceFields DEF IInv
  <2>3. /\ req'[w].op = req[w].op /\ req'[w].conv = req[w].conv
        /\ req'[w].actor = req[w].actor /\ req'[w].target = req[w].target
        /\ req'[w].stage = next
    BY <2>2 DEF ManageRequest
  <2>4. Established(w)'
    BY <1>2, <2>1, <2>3 DEF Established, IInv
  <2>5. ASSUME NEW c \in ConvIDs, NEW o \in Users, Secure(c, o)
        PROVE  Harmless(w, c, o)'
    BY <1>2, <2>3, <2>5 DEF Harmless, Managing
  <2> QED BY <2>1, <2>2, <2>4, <2>5, ReadStep
<1> QED BY <1>1, <1>2

(* A write that ends its request keeps the invariant if it leaves the      *)
(* owner of every unraced room alone.                                      *)
LEMMA WriteStep ==
  ASSUME IInv, NEW w \in Workers, Finish(w), raced' = raced,
         type' \in [ConvIDs -> {"unused", "room", "direct", "deleted"}],
         name' \in [ConvIDs -> Names \cup {NoName}],
         role' \in [ConvIDs -> [Users -> Roles \cup {NoRole}]],
         \A c \in ConvIDs : \/ type'[c] = type[c]
                            \/ type[c] \in {"room", "deleted"}
                               /\ type'[c] = "deleted",
         \A c \in ConvIDs, o \in Users :
           Secure(c, o) /\ type'[c] = "room" => Owners(c)' = {o}
  PROVE  IInv'
<1>0. TypeOK
  BY DEF IInv
<1>1. TypeOK'
  BY <1>0, FinishFields DEF TypeOK
<1>2. ASSUME NEW v \in Workers PROVE Established(v)'
  <2>1. CASE v = w
    BY <1>0, <2>1, FinishFields DEF Established
  <2>2. CASE v # w
    <3>1. req'[v] = req[v]
      BY <1>0, <2>2, FinishFields
    <3>2. Established(v)
      BY DEF IInv
    <3>3. req[v] # NoRequest /\ req[v].op \in ManageOps => req[v].conv \in ConvIDs
      BY <1>0, RequestKinds DEF ManageRequest
    <3> QED BY <3>1, <3>2, <3>3 DEF Established
  <2> QED BY <2>1, <2>2
<1>3. ASSUME NEW c \in ConvIDs PROVE OwnerSecure(c)'
  <2> SUFFICES ASSUME type'[c] = "room", c \notin raced
               PROVE  \E o \in Users : Owners(c)' = {o}
                        /\ \A v \in Workers : Harmless(v, c, o)'
    BY DEF OwnerSecure
  <2>1. PICK o \in Users : Secure(c, o)
    BY DEF IInv, OwnerSecure, Secure
  <2>2. Owners(c)' = {o}
    BY <2>1
  <2>3. ASSUME NEW v \in Workers PROVE Harmless(v, c, o)'
    BY <1>0, <2>1, FinishFields DEF Secure, Harmless, Managing
  <2> QED BY <2>2, <2>3
<1> QED BY <1>1, <1>2, <1>3 DEF IInv

-----------------------------------------------------------------------------
(* Every step of the service keeps the invariant.                          *)
(* A new request has checked nothing yet, so it threatens no owner.        *)
LEMMA ReceiveInv ==
  ASSUME IInv, NEW w \in Workers, Receive(w)
  PROVE  IInv'
<1>0. TypeOK
  BY DEF IInv
<1>1. CASE ReceiveCreate(w)
  <2> PICK op \in Ops \cap CreateOps, a \in Users, t \in Users,
           n \in Names \cup {NoName} :
        req' = [req EXCEPT ![w] =
          [op |-> op, actor |-> a, target |-> t, name |-> n,
           stage |-> IF op = "create_room" THEN "write" ELSE "find"]]
    BY <1>1 DEF ReceiveCreate
  <2>1. /\ req' \in [Workers -> Request \cup {NoRequest}]
        /\ \A v \in Workers \ {w} : req'[v] = req[v]
        /\ req'[w].op \in CreateOps
    BY <1>0 DEF TypeOK, Request, CreateRequest
  <2>2. req'[w].op \notin ManageOps
    BY <2>1 DEF CreateOps, ManageOps
  <2> QED BY <2>1, <2>2, ReadStep DEF Receive, Established, Harmless, Managing
<1>2. CASE ReceiveManage(w)
  <2> PICK op \in Ops \cap ManageOps, a \in Users, t \in Users,
           c \in ConvIDs, r \in AssignableRoles, n \in Names \cup {NoName} :
        /\ type[c] # "unused"
        /\ (op \in {"leave_room", "update_name", "delete_room"}) <=> (t = a)
        /\ op # "update_role" => r = "member"
        /\ (op = "update_name") <=> (n \in Names)
        /\ req' = [req EXCEPT ![w] =
             [op |-> op, actor |-> a, conv |-> c, target |-> t, newRole |-> r,
              name |-> n, actorRole |-> NoRole, held |-> {},
              stage |-> IF op = "update_role" THEN "actor" ELSE "room"]]
    BY <1>2, Zenon DEF ReceiveManage
  <2>1. /\ req' \in [Workers -> Request \cup {NoRequest}]
        /\ \A v \in Workers \ {w} : req'[v] = req[v]
        /\ req'[w].op = op /\ req'[w].conv = c
        /\ req'[w].actor = a /\ req'[w].target = t
        /\ req'[w].stage = IF op = "update_role" THEN "actor" ELSE "room"
    BY <1>0 DEF TypeOK, Request, ManageRequest, Stages, AssignableRoles
  <2> QED BY <2>1, ReadStep DEF Receive, Established, Harmless, Managing
<1> QED BY <1>1, <1>2 DEF Receive

(* A failed statement ends its request and rolls its transaction back.     *)
LEMMA FailInv ==
  ASSUME IInv, NEW w \in Workers, Fail(w)
  PROVE  IInv'
BY RefuseStep DEF Fail

(* A fresh conversation has no request yet, and a room starts with the     *)
(* creator as its one owner.                                               *)
LEMMA CreateStep ==
  ASSUME IInv, NEW w \in Workers, Finish(w),
         NEW c \in ConvIDs, NEW t \in {"room", "direct"},
         NEW n \in Names \cup {NoName},
         NEW roles \in [Users -> Roles \cup {NoRole}],
         RepoCreate(c, t, n, roles),
         t = "room" => \E o \in Users : {u \in Users : roles[u] = "owner"} = {o}
  PROVE  IInv'
<1>0. TypeOK
  BY DEF IInv
<1>1. TypeOK'
  BY <1>0, FinishFields DEF TypeOK, RepoCreate
<1>2. ASSUME NEW v \in Workers
      PROVE  Established(v)' /\ ~Managing(v, c)'
  <2>1. CASE v = w
    BY <1>0, <2>1, FinishFields DEF Established, Managing
  <2>2. CASE v # w
    <3>1. req'[v] = req[v]
      BY <1>0, <2>2, FinishFields
    <3>2. Established(v)
      BY DEF IInv
    <3>3. req[v] # NoRequest /\ req[v].op \in ManageOps
            => req[v].conv \in ConvIDs
      BY <1>0, RequestKinds DEF ManageRequest
    <3> QED BY <1>0, <3>1, <3>2, <3>3 DEF Established, Managing, RepoCreate, TypeOK
  <2> QED BY <2>1, <2>2
<1>3. ASSUME NEW d \in ConvIDs PROVE OwnerSecure(d)'
  <2>1. CASE d = c
    <3>1. type'[c] = t /\ role'[c] = roles
      BY <1>0 DEF RepoCreate, TypeOK
    <3> QED BY <1>2, <2>1, <3>1 DEF OwnerSecure, Owners, Harmless
  <2>2. CASE d # c
    <3> SUFFICES ASSUME type'[d] = "room", d \notin raced'
                 PROVE  \E o \in Users : Owners(d)' = {o}
                          /\ \A v \in Workers : Harmless(v, d, o)'
      BY DEF OwnerSecure
    <3>1. type'[d] = type[d] /\ role'[d] = role[d] /\ raced' = raced
      BY <1>0, <2>2 DEF RepoCreate, TypeOK
    <3>2. PICK o \in Users : Secure(d, o)
      BY <3>1 DEF IInv, OwnerSecure, Secure
    <3>3. Owners(d)' = {o}
      BY <3>1, <3>2 DEF Owners, Secure
    <3>4. ASSUME NEW v \in Workers PROVE Harmless(v, d, o)'
      BY <1>0, <3>2, FinishFields DEF Secure, Harmless, Managing
    <3> QED BY <3>3, <3>4
  <2> QED BY <2>1, <2>2
<1> QED BY <1>1, <1>2, <1>3 DEF IInv

(* CreateRoom inserts a fresh room with its creator as the only owner.     *)
LEMMA CreateRoomInv ==
  ASSUME IInv, NEW w \in Workers, CreateRoom(w)
  PROVE  IInv'
<1>1. req[w] \in CreateRequest
  BY RequestKinds DEF IInv, CreateRoom, Serving, CreateOps
<1> DEFINE roles == [u \in Users |-> IF u = req[w].actor THEN "owner" ELSE NoRole]
<1>2. PICK c \in ConvIDs : RepoCreate(c, "room", req[w].name, roles)
  BY DEF CreateRoom
<1>3. /\ roles \in [Users -> Roles \cup {NoRole}]
      /\ {u \in Users : roles[u] = "owner"} = {req[w].actor}
      /\ req[w].actor \in Users /\ req[w].name \in Names \cup {NoName}
  BY <1>1, NullAssumption DEF CreateRequest, Roles
<1> HIDE DEF roles
<1> QED BY <1>2, <1>3, CreateStep DEF CreateRoom

(* CreateDirect inserts a conversation that is not a room, or answers an old one.*)
LEMMA CreateDirectInv ==
  ASSUME IInv, NEW w \in Workers, CreateDirect(w)
  PROVE  IInv'
<1>0. TypeOK
  BY DEF IInv
<1>1. req[w] \in CreateRequest /\ req[w].op = "create_direct"
  BY <1>0, RequestKinds DEF CreateDirect, Serving, CreateOps
<1>2. CASE At(w, "find")
  <2>1. Check(w, FindDirectBetweenUsers(req[w].actor, req[w].target) = {}, "write")
    BY <1>2 DEF CreateDirect, At
  <2>2. CASE Finish(w)
    BY <2>1, <2>2, RefuseStep DEF Check
  <2>3. CASE Advance(w, "write")
    <3>1. /\ req' = [req EXCEPT ![w] = [req[w] EXCEPT !.stage = "write"]]
          /\ [req[w] EXCEPT !.stage = "write"] \in CreateRequest
      BY <1>1, <2>3 DEF Advance, CreateRequest
    <3>2. /\ req' \in [Workers -> Request \cup {NoRequest}]
          /\ \A v \in Workers \ {w} : req'[v] = req[v]
          /\ req'[w].op = "create_direct"
      BY <1>0, <1>1, <3>1 DEF TypeOK, Request, CreateRequest
    <3> QED BY <2>1, <3>2, ReadStep
            DEF Check, Established, Harmless, Managing, ManageOps
  <2> QED BY <2>1, <2>2, <2>3 DEF Check
<1>3. CASE At(w, "write")
  <2> DEFINE roles == [u \in Users |-> IF u \in {req[w].actor, req[w].target}
                                      THEN "member" ELSE NoRole]
  <2>1. Finish(w) /\ \E c \in ConvIDs : RepoCreate(c, "direct", NoName, roles)
    BY <1>3 DEF CreateDirect, At
  <2>2. roles \in [Users -> Roles \cup {NoRole}]
    BY DEF Roles
  <2> HIDE DEF roles
  <2> QED BY <2>1, <2>2, CreateStep
<1> QED BY <1>2, <1>3 DEF CreateDirect

(* What the type invariant says of a management request under way.         *)
LEMMA ManageFacts ==
  ASSUME IInv, NEW w \in Workers, NEW op \in ManageOps, Serving(w, op)
  PROVE  /\ req[w] \in ManageRequest /\ req[w] # NoRequest
         /\ req[w].op = op /\ req[w].conv \in ConvIDs
         /\ req[w].actor \in Users /\ req[w].target \in Users
         /\ req[w].newRole \in {"admin", "member"}
         /\ req[w].name \in Names \cup {NoName}
         /\ type[req[w].conv] # "unused"
<1>1. TypeOK /\ Established(w)
  BY DEF IInv
<1>2. req[w] # NoRequest /\ req[w].op = op
  BY DEF Serving
<1>3. req[w] \in ManageRequest
  BY <1>1, <1>2, RequestKinds
<1>4. type[req[w].conv] # "unused"
  BY <1>1, <1>2 DEF Established
<1> QED BY <1>2, <1>3, <1>4 DEF ManageRequest

(* The first read of an operation on rooms, which decides nothing yet.     *)
LEMMA FindRoomInv ==
  ASSUME IInv, NEW w \in Workers, NEW op \in ManageOps \ {"update_role"},
         Serving(w, op), FindRoom(w, "actor")
  PROVE  IInv'
<1>1. Check(w, type[req[w].conv] = "room", "actor")
  BY DEF FindRoom
<1>2. "actor" \in Stages \ {"promote"}
  BY DEF Stages
<1> QED BY <1>1, <1>2, ManageFacts, CheckStep

(* AddRoomParticipant inserts a row of a member or an admin, never an owner.*)
LEMMA AddInv ==
  ASSUME IInv, NEW w \in Workers, AddRoomParticipant(w)
  PROVE  IInv'
<1>0. /\ TypeOK /\ Serving(w, "add_participant") /\ Established(w)
      /\ "add_participant" \in ManageOps \ {"update_role"}
      /\ "write" \in Stages \ {"promote"}
  BY DEF IInv, AddRoomParticipant, ManageOps, Stages
<1>1. CASE FindRoom(w, "actor")
  BY <1>0, <1>1, FindRoomInv
<1>2. CASE FindActor(w, {"owner", "admin"}, "write")
  <2>1. Check(w, role[req[w].conv][req[w].actor] \in {"owner", "admin"}, "write")
    BY <1>2 DEF FindActor
  <2>2. type[req[w].conv] \in {"room", "deleted"}
    BY <1>0, <1>2, ManageFacts DEF Established, FindActor, At
  <2> QED BY <1>0, <2>1, <2>2, ManageFacts, CheckStep
<1>3. CASE /\ RepoAddParticipant(req[w].conv, req[w].target, "member")
           /\ Finish(w)
  <2>1. /\ req[w].conv \in ConvIDs /\ req[w].target \in Users
        /\ role \in [ConvIDs -> [Users -> Roles \cup {NoRole}]]
    BY <1>0, ManageFacts DEF TypeOK
  <2>2. role' \in [ConvIDs -> [Users -> Roles \cup {NoRole}]]
    BY <1>3, <2>1 DEF RepoAddParticipant, SetRole, Roles
  <2>3. ASSUME NEW c \in ConvIDs PROVE Owners(c)' = Owners(c)
    BY <1>3, <2>1, NullAssumption DEF RepoAddParticipant, SetRole, Owners, Roles
  <2> QED BY <1>0, <1>3, <2>2, <2>3, WriteStep
          DEF RepoAddParticipant, TypeOK, Secure
<1> QED BY <1>1, <1>2, <1>3 DEF AddRoomParticipant

(* UpdateParticipantRole writes the row of someone who is not the owner    *)
(* while the room is unraced.                                              *)
LEMMA UpdateRoleInv ==
  ASSUME IInv, NEW w \in Workers, UpdateParticipantRole(w)
  PROVE  IInv'
<1>0. /\ TypeOK /\ Serving(w, "update_role")
      /\ "update_role" \in ManageOps
      /\ {"target", "write"} \subseteq Stages \ {"promote"}
  BY DEF IInv, UpdateParticipantRole, ManageOps, Stages
<1>1. CASE FindActor(w, {"owner"}, "target")
  <2>1. Check(w, role[req[w].conv][req[w].actor] \in {"owner"}, "target")
    BY <1>1 DEF FindActor
  <2> QED BY <1>0, <2>1, ManageFacts, CheckStep
<1>2. CASE FindTarget(w, {"admin", "member"}, "write")
  <2> DEFINE ok == role[req[w].conv][req[w].target] \in {"admin", "member"}
  <2>1. Check(w, ok, "write")
    BY <1>2 DEF FindTarget
  <2>2. ASSUME NEW o \in Users, ok, Secure(req[w].conv, o)
        PROVE  req[w].target # o
    BY <2>2 DEF Secure, Owners
  <2> HIDE DEF ok
  <2> QED BY <1>0, <2>1, <2>2, ManageFacts, CheckStep
<1>3. CASE /\ At(w, "write")
           /\ RepoUpdateParticipantRole(req[w].conv, req[w].target, req[w].newRole)
           /\ Finish(w)
  <2>1. /\ req[w].conv \in ConvIDs /\ req[w].target \in Users
        /\ req[w].newRole \in {"admin", "member"}
        /\ role \in [ConvIDs -> [Users -> Roles \cup {NoRole}]]
    BY <1>0, ManageFacts DEF TypeOK
  <2>2. role' \in [ConvIDs -> [Users -> Roles \cup {NoRole}]]
    BY <1>3, <2>1 DEF RepoUpdateParticipantRole, SetRole, Roles
  <2>3. ASSUME NEW c \in ConvIDs, NEW o \in Users, Secure(c, o)
        PROVE  Owners(c)' = {o}
    <3>1. c = req[w].conv => req[w].target # o
      BY <1>0, <1>3, <2>3, ManageFacts DEF Secure, Harmless, Managing, At
    <3> QED BY <1>3, <2>1, <2>3, <3>1
            DEF RepoUpdateParticipantRole, SetRole, Owners, Secure
  <2> QED BY <1>0, <1>3, <2>2, <2>3, WriteStep
          DEF RepoUpdateParticipantRole, TypeOK
<1> QED BY <1>1, <1>2, <1>3 DEF UpdateParticipantRole

(* The removal of a row by RemoveParticipant and by LeaveRoom.             *)
LEMMA RemovalStep ==
  ASSUME IInv, NEW w \in Workers,
         NEW op \in {"remove_participant", "leave_room"}, Serving(w, op),
         At(w, "write"), Finish(w),
         RepoRemoveParticipant(req[w].conv, req[w].target)
  PROVE  IInv'
<1>0. TypeOK /\ op \in ManageOps
  BY DEF IInv, ManageOps
<1>1. /\ req[w].conv \in ConvIDs /\ req[w].target \in Users
      /\ role \in [ConvIDs -> [Users -> Roles \cup {NoRole}]]
  BY <1>0, ManageFacts DEF TypeOK
<1>2. role' \in [ConvIDs -> [Users -> Roles \cup {NoRole}]]
  BY <1>1 DEF RepoRemoveParticipant, SetRole
<1>3. ASSUME NEW c \in ConvIDs, NEW o \in Users, Secure(c, o)
      PROVE  Owners(c)' = {o}
  <2>1. c = req[w].conv => req[w].target # o
    BY <1>0, <1>3, ManageFacts DEF Secure, Harmless, Managing, At
  <2> QED BY <1>1, <1>3, <2>1, NullAssumption
          DEF RepoRemoveParticipant, SetRole, Owners, Secure, Roles
<1> QED BY <1>0, <1>2, <1>3, WriteStep DEF RepoRemoveParticipant, TypeOK

(* RemoveParticipant deletes the row of someone who is not the owner while *)
(* the room is unraced.                                                    *)
LEMMA RemoveInv ==
  ASSUME IInv, NEW w \in Workers, RemoveParticipant(w)
  PROVE  IInv'
<1>0. /\ TypeOK /\ Serving(w, "remove_participant") /\ Established(w)
      /\ "remove_participant" \in ManageOps \ {"update_role"}
      /\ {"target", "write"} \subseteq Stages \ {"promote"}
  BY DEF IInv, RemoveParticipant, ManageOps, Stages
<1> DEFINE c == req[w].conv
           a == role[c][req[w].actor]
<1>1. CASE FindRoom(w, "actor")
  BY <1>0, <1>1, FindRoomInv
<1>2. CASE /\ At(w, "actor") /\ a \in {"owner", "admin"}
           /\ req' = [req EXCEPT ![w].stage = "target", ![w].actorRole = a]
           /\ UNCHANGED <<type, name, role, raced>>
  <2>1. /\ req[w] \in ManageRequest /\ req[w].op = "remove_participant"
        /\ a \in Roles /\ "target" \in Stages
    BY <1>0, <1>2, ManageFacts DEF Roles, Stages
  <2>2. /\ req' = [req EXCEPT ![w] =
                     [req[w] EXCEPT !.stage = "target", !.actorRole = a]]
        /\ [req[w] EXCEPT !.stage = "target", !.actorRole = a] \in ManageRequest
    BY <1>2, <2>1 DEF ManageRequest
  <2>3. /\ req' \in [Workers -> Request \cup {NoRequest}]
        /\ \A v \in Workers \ {w} : req'[v] = req[v]
        /\ req'[w].op = req[w].op /\ req'[w].conv = req[w].conv
        /\ req'[w].target = req[w].target /\ req'[w].stage = "target"
    BY <1>0, <2>1, <2>2 DEF TypeOK, Request, ManageRequest
  <2>4. type[c] \in {"room", "deleted"}
    BY <1>0, <1>2, ManageFacts DEF Established, At
  <2>5. Established(w)'
    BY <1>0, <1>2, <2>1, <2>3, <2>4, ManageFacts DEF Established
  <2> QED BY <1>2, <2>1, <2>3, <2>5, ReadStep DEF Harmless, Managing
<1>3. CASE Finish(w) /\ UNCHANGED <<type, name, role, raced>>
  BY <1>3, RefuseStep
<1>4. CASE FindTarget(w, Removable(req[w].actorRole), "write")
  <2> DEFINE ok == role[c][req[w].target] \in Removable(req[w].actorRole)
  <2>1. Check(w, ok, "write")
    BY <1>4 DEF FindTarget
  <2>2. ASSUME NEW o \in Users, ok, Secure(c, o) PROVE req[w].target # o
    BY <2>2 DEF Secure, Owners, Removable
  <2>3. type[c] \in {"room", "deleted"}
    BY <1>0, <1>4, ManageFacts DEF Established, FindTarget, At
  <2> HIDE DEF ok
  <2> QED BY <1>0, <2>1, <2>2, <2>3, ManageFacts, CheckStep
<1>5. CASE /\ At(w, "write") /\ Finish(w)
           /\ RepoRemoveParticipant(req[w].conv, req[w].target)
  BY <1>0, <1>5, RemovalStep
<1> QED BY <1>1, <1>2, <1>3, <1>4, <1>5 DEF RemoveParticipant

(* LeaveRoom deletes the row of its actor, who is not the owner while the  *)
(* room is unraced.                                                        *)
LEMMA LeaveInv ==
  ASSUME IInv, NEW w \in Workers, LeaveRoom(w)
  PROVE  IInv'
<1>0. /\ TypeOK /\ Serving(w, "leave_room") /\ Established(w)
      /\ "leave_room" \in ManageOps \ {"update_role"}
      /\ "write" \in Stages \ {"promote"}
  BY DEF IInv, LeaveRoom, ManageOps, Stages
<1>1. CASE FindRoom(w, "actor")
  BY <1>0, <1>1, FindRoomInv
<1>2. CASE FindActor(w, {"admin", "member"}, "write")
  <2> DEFINE ok == role[req[w].conv][req[w].actor] \in {"admin", "member"}
  <2>1. Check(w, ok, "write")
    BY <1>2 DEF FindActor
  <2>2. req[w].target = req[w].actor
    BY <1>0, ManageFacts DEF Established
  <2>3. ASSUME NEW o \in Users, ok, Secure(req[w].conv, o)
        PROVE  req[w].target # o
    BY <2>2, <2>3 DEF Secure, Owners
  <2>4. type[req[w].conv] \in {"room", "deleted"}
    BY <1>0, <1>2, ManageFacts DEF Established, FindActor, At
  <2> HIDE DEF ok
  <2> QED BY <1>0, <2>1, <2>3, <2>4, ManageFacts, CheckStep
<1>3. CASE /\ At(w, "write") /\ Finish(w)
           /\ RepoRemoveParticipant(req[w].conv, req[w].target)
  BY <1>0, <1>3, RemovalStep
<1> QED BY <1>1, <1>2, <1>3 DEF LeaveRoom

(* UpdateRoomName leaves all roles alone.                                  *)
LEMMA RenameInv ==
  ASSUME IInv, NEW w \in Workers, UpdateRoomName(w)
  PROVE  IInv'
<1>0. /\ TypeOK /\ Serving(w, "update_name") /\ Established(w)
      /\ "update_name" \in ManageOps \ {"update_role"}
      /\ "write" \in Stages \ {"promote"}
  BY DEF IInv, UpdateRoomName, ManageOps, Stages
<1>1. CASE FindRoom(w, "actor")
  BY <1>0, <1>1, FindRoomInv
<1>2. CASE FindActor(w, {"owner", "admin"}, "write")
  <2>1. Check(w, role[req[w].conv][req[w].actor] \in {"owner", "admin"}, "write")
    BY <1>2 DEF FindActor
  <2>2. type[req[w].conv] \in {"room", "deleted"}
    BY <1>0, <1>2, ManageFacts DEF Established, FindActor, At
  <2> QED BY <1>0, <2>1, <2>2, ManageFacts, CheckStep
<1>3. CASE RepoUpdateRoomName(req[w].conv, req[w].name) /\ Finish(w)
  <2>1. name' \in [ConvIDs -> Names \cup {NoName}]
    BY <1>0, <1>3, ManageFacts DEF RepoUpdateRoomName, TypeOK
  <2>2. \A c \in ConvIDs : Owners(c)' = Owners(c)
    BY <1>3 DEF RepoUpdateRoomName, Owners
  <2> QED BY <1>0, <1>3, <2>1, <2>2, WriteStep
          DEF RepoUpdateRoomName, TypeOK, Secure
<1> QED BY <1>1, <1>2, <1>3 DEF UpdateRoomName

(* The conversation c is deleted with all its participants.                *)
Removed(c) == /\ type' = [type EXCEPT ![c] = "deleted"]
              /\ name' = [name EXCEPT ![c] = NoName]
              /\ role' = [role EXCEPT ![c] = [u \in Users |-> NoRole]]
              /\ raced' = raced

(* The row of u is one that w holds, or there and held by nobody.          *)
FreeFor(w, u) == LET c == req[w].conv
                 IN  Holds(w, c, u) \/ (u \in Participants(c) /\ ~Locked(c, u))

(* The DELETE goes on to another row, or commits, when all are its own.    *)
CascadeMoves(w) ==
  /\ UNCHANGED <<type, name, role, raced>>
  /\ (~Deleting(req[w].conv) /\ At(w, "write")) \/ At(w, "cascade")
  /\ \E u \in Users, gone \in SUBSET Users :
       /\ u \notin gone /\ \A x \in gone : FreeFor(w, x)
       /\ req' = [req EXCEPT ![w] = [req[w] EXCEPT !.stage = "cascade", !.target = u,
                                                   !.held = gone]]
CascadeCommits(w) ==
  /\ Removed(req[w].conv) /\ Finish(w) /\ req[w].stage \in {"write", "cascade"}
  /\ \A u \in Participants(req[w].conv) : FreeFor(w, u)

(* A step of the DELETE finds nothing, goes on or commits.                 *)
LEMMA DeleteMoves ==
  ASSUME TypeOK, NEW w \in Workers, Serving(w, "delete_room"),
         RepoDeleteConversation(w)
  PROVE  \/ Finish(w) /\ UNCHANGED <<type, name, role, raced>>
         \/ CascadeMoves(w)
         \/ CascadeCommits(w)
<1>1. /\ req[w] \in ManageRequest /\ req[w] # NoRequest /\ req[w].op \in ManageOps
      /\ req[w].target \in Users /\ req[w].held \subseteq Users
  <2>1. req[w] # NoRequest /\ req[w].op \in ManageOps
    BY DEF Serving, ManageOps
  <2>2. req[w] \in ManageRequest
    BY <2>1, RequestKinds
  <2> QED BY <2>1, <2>2 DEF ManageRequest
<1>2. ASSUME NEW gone \in SUBSET Users, Cascade(w, gone), raced' = raced,
             (~Deleting(req[w].conv) /\ At(w, "write")) \/ At(w, "cascade"),
             \A u \in gone : FreeFor(w, u)
      PROVE  CascadeMoves(w) \/ CascadeCommits(w)
  <2>1. CASE UNCHANGED db
    <3>1. CASE Participants(req[w].conv) \ gone # {}
      <4>1. PICK u \in Users \ gone :
              req' = [req EXCEPT ![w].stage = "cascade", ![w].target = u, ![w].held = gone]
        BY <1>2, <3>1 DEF Cascade, Participants
      <4>2. req' = [req EXCEPT ![w] = [req[w] EXCEPT !.stage = "cascade", !.target = u,
                                                     !.held = gone]]
        BY <4>1
      <4> QED BY <1>2, <2>1, <4>2 DEF CascadeMoves, db
    <3>2. CASE Participants(req[w].conv) \ gone = {}
      BY <1>2, <3>2 DEF Cascade, CascadeCommits, Removed, At
    <3> QED BY <3>1, <3>2
  <2>2. CASE Participants(req[w].conv) \ gone = {}
    BY <1>2, <2>2 DEF Cascade, CascadeCommits, Removed, At
  <2> QED BY <1>2, <2>1, <2>2 DEF Cascade
<1>3. CASE /\ At(w, "write") /\ ~Deleting(req[w].conv) /\ Cascade(w, {})
           /\ raced' = raced
  BY <1>2, <1>3
<1>4. CASE /\ At(w, "cascade") /\ ~Locked(req[w].conv, req[w].target) /\ raced' = raced
           /\ Cascade(w, req[w].held \cup ({req[w].target} \cap Participants(req[w].conv)))
  <2>1. \A x \in req[w].held \cup ({req[w].target} \cap Participants(req[w].conv)) :
          FreeFor(w, x)
    BY <1>1, <1>4 DEF FreeFor, Holds
  <2> QED BY <1>1, <1>2, <1>4, <2>1
<1> QED BY <1>3, <1>4 DEF RepoDeleteConversation, db

(* DeleteRoom deletes the conversation with all its participants.          *)
LEMMA DeleteInv ==
  ASSUME IInv, NEW w \in Workers, DeleteRoom(w)
  PROVE  IInv'
<1>0. /\ TypeOK /\ Serving(w, "delete_room") /\ Established(w)
      /\ "delete_room" \in ManageOps \ {"update_role"}
      /\ "write" \in Stages \ {"promote"}
  BY DEF IInv, DeleteRoom, ManageOps, Stages
<1>1. CASE FindRoom(w, "actor")
  BY <1>0, <1>1, FindRoomInv
<1>2. CASE FindActor(w, {"owner"}, "write")
  <2>1. Check(w, role[req[w].conv][req[w].actor] \in {"owner"}, "write")
    BY <1>2 DEF FindActor
  <2>2. type[req[w].conv] \in {"room", "deleted"}
    BY <1>0, <1>2, ManageFacts DEF Established, FindActor, At
  <2> QED BY <1>0, <2>1, <2>2, ManageFacts, CheckStep
<1>3. CASE CascadeMoves(w)
  <2>1. PICK u \in Users, gone \in SUBSET Users :
          req' = [req EXCEPT ![w] = [req[w] EXCEPT !.stage = "cascade", !.target = u,
                                                   !.held = gone]]
    BY <1>3 DEF CascadeMoves
  <2>2. UNCHANGED <<type, name, role, raced>> /\ req[w].stage # "room"
    BY <1>3 DEF CascadeMoves, At
  <2>3. req[w] \in ManageRequest
    BY <1>0, ManageFacts
  <2>4. [req[w] EXCEPT !.stage = "cascade", !.target = u, !.held = gone] \in ManageRequest
    BY <2>3 DEF ManageRequest, Stages
  <2>5. /\ req' \in [Workers -> Request \cup {NoRequest}]
        /\ \A v \in Workers \ {w} : req'[v] = req[v]
        /\ req'[w] = [req[w] EXCEPT !.stage = "cascade", !.target = u, !.held = gone]
    BY <1>0, <2>1, <2>4 DEF TypeOK, Request
  <2>6. req'[w].op = req[w].op /\ req'[w].conv = req[w].conv
    BY <2>3, <2>5 DEF ManageRequest
  <2>7. req[w].op = "delete_room"
    BY <1>0 DEF Serving
  <2>8. Established(w)'
    BY <1>0, <2>2, <2>6, <2>7, ManageFacts DEF Established
  <2>9. \A c \in ConvIDs, o \in Users : Harmless(w, c, o)'
    BY <2>6, <2>7 DEF Harmless
  <2> QED BY <2>2, <2>5, <2>8, <2>9, ReadStep
<1>4. CASE CascadeCommits(w)
  <2>1. req[w].conv \in ConvIDs /\ type[req[w].conv] \in {"room", "deleted"}
    BY <1>0, <1>4, ManageFacts DEF Established, CascadeCommits
  <2>2. /\ type' \in [ConvIDs -> {"unused", "room", "direct", "deleted"}]
        /\ name' \in [ConvIDs -> Names \cup {NoName}]
        /\ role' \in [ConvIDs -> [Users -> Roles \cup {NoRole}]]
    BY <1>0, <1>4, <2>1 DEF CascadeCommits, Removed, TypeOK
  <2>3. ASSUME NEW c \in ConvIDs
        PROVE  \/ c = req[w].conv /\ type'[c] = "deleted"
               \/ type'[c] = type[c] /\ role'[c] = role[c]
    BY <1>0, <1>4, <2>1 DEF CascadeCommits, Removed, TypeOK
  <2>4. \A c \in ConvIDs : \/ type'[c] = type[c]
                           \/ type[c] \in {"room", "deleted"}
                              /\ type'[c] = "deleted"
    BY <2>1, <2>3
  <2>5. \A c \in ConvIDs, o \in Users :
          Secure(c, o) /\ type'[c] = "room" => Owners(c)' = {o}
    BY <2>3 DEF Secure, Owners
  <2> QED BY <1>4, <2>2, <2>4, <2>5, WriteStep DEF CascadeCommits, Removed
<1>5. CASE Finish(w) /\ UNCHANGED <<type, name, role, raced>>
  BY <1>5, RefuseStep
<1> QED BY <1>0, <1>1, <1>2, <1>3, <1>4, <1>5, DeleteMoves DEF DeleteRoom

(* The demotion touches only the request: the owner's row is there, so the *)
(* transaction holds it.                                                   *)
LEMMA DemoteInv ==
  ASSUME IInv, NEW w \in Workers, Serving(w, "transfer_ownership"),
         RepoDemote(w)
  PROVE  IInv'
<1>0. /\ TypeOK /\ Established(w) /\ "transfer_ownership" \in ManageOps
      /\ "promote" \in Stages
  BY DEF IInv, ManageOps, Stages
<1> DEFINE taken == {req[w].actor} \cap Participants(req[w].conv)
           r == [req[w] EXCEPT !.stage = "promote", !.held = taken]
<1>1. req' = [req EXCEPT ![w] = r] /\ UNCHANGED <<type, name, role, raced>>
  BY DEF RepoDemote
<1>2. /\ req[w] \in ManageRequest /\ req[w].op = "transfer_ownership"
      /\ req[w].stage = "demote"
  BY <1>0, ManageFacts DEF RepoDemote, At
<1>3. r \in ManageRequest
  BY <1>0, <1>2 DEF ManageRequest, Participants
<1>4. /\ req' \in [Workers -> Request \cup {NoRequest}]
      /\ \A v \in Workers \ {w} : req'[v] = req[v]
      /\ req'[w] = r
  BY <1>0, <1>1, <1>3 DEF TypeOK, Request
<1>5. /\ req'[w].op = req[w].op /\ req'[w].conv = req[w].conv
      /\ req'[w].target = req[w].target /\ req'[w].actor = req[w].actor
      /\ req'[w].stage = "promote" /\ req'[w].held = taken
  BY <1>2, <1>4 DEF ManageRequest
<1>6. Established(w)'
  BY <1>0, <1>1, <1>2, <1>5, ManageFacts DEF Established
<1>7. ASSUME NEW c \in ConvIDs, NEW o \in Users, Secure(c, o)
      PROVE  Harmless(w, c, o)'
  <2>1. c = req[w].conv => req[w].actor = o
    BY <1>0, <1>2, <1>7, ManageFacts DEF Secure, Harmless, Managing
  <2>2. role[c][o] = "owner"
    BY <1>7 DEF Secure, Owners
  <2>3. c = req[w].conv => o \in taken
    BY <2>1, <2>2, NullAssumption DEF Roles, Participants
  <2> HIDE DEF taken
  <2> QED BY <1>2, <1>5, <2>1, <2>3 DEF Harmless, Managing
<1> QED BY <1>1, <1>4, <1>6, <1>7, ReadStep

(* The commit of a transfer: in a room that does not become raced the old  *)
(* owner is demoted, and no request is left that could hurt the new one.   *)
LEMMA PromoteInv ==
  ASSUME IInv, NEW w \in Workers, Serving(w, "transfer_ownership"),
         RepoPromote(w)
  PROVE  IInv'
<1> DEFINE c == req[w].conv
           a == req[w].actor
           u == req[w].target
<1>0. /\ TypeOK /\ Established(w) /\ "transfer_ownership" \in ManageOps
  BY DEF IInv, ManageOps
<1>1. /\ req[w] \in ManageRequest /\ req[w].op = "transfer_ownership"
      /\ req[w] # NoRequest /\ c \in ConvIDs /\ a \in Users /\ u \in Users
      /\ req[w].stage = "promote" /\ u # a
  BY <1>0, ManageFacts DEF RepoPromote, At, Established
<1>2. CASE role[c][u] = NoRole
  BY <1>2, RefuseStep DEF RepoPromote, Rollback
<1>3. CASE role[c][u] # NoRole
  <2>1. /\ role' = [role EXCEPT
               ![c] = [role[c] EXCEPT
                        ![a] = IF a \in req[w].held THEN "admin" ELSE @,
                        ![u] = "owner"]]
        /\ raced' = IF \E v \in Workers \ {w} : Stale(v, c, u)
                    THEN raced \cup {c} ELSE raced
        /\ Finish(w) /\ UNCHANGED <<type, name>>
    BY <1>1, <1>3 DEF RepoPromote
  <2>2. /\ req' \in [Workers -> Request \cup {NoRequest}]
        /\ \A v \in Workers \ {w} : req'[v] = req[v]
        /\ req'[w] = NoRequest
    BY <1>0, <2>1, FinishFields
  <2>3. TypeOK'
    <3>1. role' \in [ConvIDs -> [Users -> Roles \cup {NoRole}]]
      BY <1>0, <1>1, <2>1 DEF TypeOK, Roles
    <3> QED BY <1>0, <1>1, <2>1, <2>2, <3>1 DEF TypeOK
  <2>4. ASSUME NEW v \in Workers PROVE Established(v)'
    <3>1. CASE v = w
      BY <2>2, <3>1 DEF Established
    <3>2. CASE v # w
      BY <2>1, <2>2, <3>2 DEF IInv, Established
    <3> QED BY <3>1, <3>2
  <2>5. ASSUME NEW d \in ConvIDs PROVE OwnerSecure(d)'
    <3> SUFFICES ASSUME type'[d] = "room", d \notin raced'
                 PROVE  \E o \in Users : Owners(d)' = {o}
                          /\ \A v \in Workers : Harmless(v, d, o)'
      BY DEF OwnerSecure
    <3>1. type[d] = "room" /\ d \notin raced
      BY <2>1
    <3>2. PICK o \in Users : Secure(d, o)
      BY <3>1 DEF IInv, OwnerSecure, Secure
    <3>3. CASE d # c
      <4>1. role'[d] = role[d]
        BY <1>0, <2>1, <3>3 DEF TypeOK
      <4>2. Owners(d)' = {o}
        BY <3>2, <4>1 DEF Owners, Secure
      <4>3. ASSUME NEW v \in Workers PROVE Harmless(v, d, o)'
        BY <2>2, <3>2 DEF Secure, Harmless, Managing
      <4> QED BY <4>2, <4>3
    <3>4. CASE d = c
      <4>1. a = o /\ a \in req[w].held
        BY <1>0, <1>1, <3>2, <3>4 DEF Secure, Harmless, Managing
      <4>2. \A x \in Users : role'[c][x] = IF x = u THEN "owner"
                                          ELSE IF x = a THEN "admin"
                                          ELSE role[c][x]
        BY <1>0, <1>1, <2>1, <4>1 DEF TypeOK
      <4>3. Owners(d)' = {u}
        BY <1>1, <3>2, <3>4, <4>1, <4>2 DEF Owners, Secure
      <4>4. \A v \in Workers \ {w} : ~Stale(v, c, u)
        BY <2>1, <3>4
      <4>5. PICK n \in Users : n = u
        BY <1>1
      <4>6. ASSUME NEW v \in Workers PROVE Harmless(v, d, n)'
        BY <2>2, <3>4, <4>4, <4>5 DEF Harmless, Managing, Stale
      <4> QED BY <4>3, <4>5, <4>6
    <3> QED BY <3>3, <3>4
  <2> QED BY <2>3, <2>4, <2>5 DEF IInv
<1> QED BY <1>2, <1>3

(* Both UPDATEs of TransferOwnership, and its checks, keep the invariant.  *)
LEMMA TransferInv ==
  ASSUME IInv, NEW w \in Workers, TransferOwnership(w)
  PROVE  IInv'
<1>0. /\ TypeOK /\ Serving(w, "transfer_ownership") /\ Established(w)
      /\ "transfer_ownership" \in ManageOps \ {"update_role"}
      /\ {"target", "demote"} \subseteq Stages \ {"promote"}
  BY DEF IInv, TransferOwnership, ManageOps, Stages
<1>1. CASE FindRoom(w, "actor")
  BY <1>0, <1>1, FindRoomInv
<1>2. CASE FindActor(w, {"owner"}, "target")
  <2> DEFINE ok == role[req[w].conv][req[w].actor] \in {"owner"}
  <2>1. Check(w, ok, "target")
    BY <1>2 DEF FindActor
  <2>2. type[req[w].conv] \in {"room", "deleted"}
    BY <1>0, <1>2, ManageFacts DEF Established, FindActor, At
  <2>3. ASSUME NEW o \in Users, ok, Secure(req[w].conv, o)
        PROVE  req[w].actor = o
    BY <1>0, <2>3, ManageFacts DEF Secure, Owners
  <2> HIDE DEF ok
  <2> QED BY <1>0, <2>1, <2>2, <2>3, ManageFacts, CheckStep
<1>3. CASE FindTarget(w, {"admin", "member"}, "demote")
  <2> DEFINE ok == role[req[w].conv][req[w].target] \in {"admin", "member"}
  <2>1. Check(w, ok, "demote")
    BY <1>3 DEF FindTarget
  <2>2. type[req[w].conv] \in {"room", "deleted"}
    BY <1>0, <1>3, ManageFacts DEF Established, FindTarget, At
  <2>3. ASSUME NEW o \in Users, Secure(req[w].conv, o)
        PROVE  req[w].actor = o
    BY <1>0, <1>3, <2>3, ManageFacts
       DEF Secure, Harmless, Managing, FindTarget, At
  <2> HIDE DEF ok
  <2> QED BY <1>0, <2>1, <2>2, <2>3, ManageFacts, CheckStep
<1>4. CASE RepoDemote(w)
  BY <1>0, <1>4, DemoteInv
<1>5. CASE RepoPromote(w)
  BY <1>0, <1>5, PromoteInv
<1> QED BY <1>1, <1>2, <1>3, <1>4, <1>5 DEF TransferOwnership

(* The invariant is inductive: one case for each disjunct of Next.         *)
LEMMA NextInv == IInv /\ [Next]_vars => IInv'
<1> SUFFICES ASSUME IInv, [Next]_vars PROVE IInv'
  OBVIOUS
<1>1. ASSUME NEW w \in Workers, Receive(w) PROVE IInv'
  BY <1>1, ReceiveInv
<1>2. ASSUME NEW w \in Workers, Serve(w) PROVE IInv'
  BY <1>2, CreateRoomInv, CreateDirectInv, AddInv, UpdateRoleInv, RemoveInv,
     LeaveInv, TransferInv, RenameInv, DeleteInv DEF Serve
<1>3. ASSUME NEW w \in Workers, Fail(w) PROVE IInv'
  BY <1>3, FailInv
<1>4. CASE UNCHANGED vars
  BY <1>4 DEF vars, IInv, TypeOK, Established, OwnerSecure, Owners, Harmless,
              Managing
<1> QED BY <1>1, <1>2, <1>3, <1>4 DEF Next

-----------------------------------------------------------------------------
(* The invariant holds throughout.                                         *)
THEOREM Invariance == Spec => []IInv
BY InitInv, NextInv, PTL DEF Spec

(* Rows carry known roles and requests the arguments of their operation.   *)
THEOREM TypeCorrect == Spec => []TypeOK
<1>1. IInv => TypeOK
  BY DEF IInv
<1> QED BY <1>1, Invariance, PTL

(* Whatever requests overlap, a room has one owner until a transfer commits *)
(* while another request still rests on the roles it replaces.             *)
THEOREM OneOwnerUnlessRaced == Spec => []RacedOrOneOwner
<1>1. IInv => RacedOrOneOwner
  BY DEF IInv, OwnerSecure, RacedOrOneOwner
<1> QED BY <1>1, Invariance, PTL

(* Only the commit of a transfer can overtake a request about to act on    *)
(* the roles it replaces.                                                  *)
LEMMA RacedByPromote ==
  ASSUME [Next]_vars
  PROVE  \/ UNCHANGED raced
         \/ \E w \in Workers : Serving(w, "transfer_ownership") /\ RepoPromote(w)
<1> DEFINE Promoting ==
      \E w \in Workers : Serving(w, "transfer_ownership") /\ RepoPromote(w)
<1>1. ASSUME NEW w \in Workers, TransferOwnership(w)
      PROVE  UNCHANGED raced \/ Promoting
  BY <1>1 DEF TransferOwnership, FindRoom, FindActor, FindTarget, Check, RepoDemote
<1>2. ASSUME NEW w \in Workers, Serve(w)
      PROVE  UNCHANGED raced \/ Promoting
  <2> HIDE DEF Promoting
  <2>1. CASE ~DeleteRoom(w)
    BY <1>1, <1>2, <2>1
       DEF Serve, CreateRoom, CreateDirect, AddRoomParticipant,
           UpdateParticipantRole, RemoveParticipant, LeaveRoom, UpdateRoomName,
           FindRoom, FindActor, FindTarget, Check, RepoCreate, RepoAddParticipant,
           RepoUpdateParticipantRole, RepoRemoveParticipant, RepoUpdateRoomName
  <2>2. CASE DeleteRoom(w)
    BY <2>2 DEF DeleteRoom, FindRoom, FindActor, Check, RepoDeleteConversation
  <2> QED BY <2>1, <2>2
<1>3. ASSUME NEW w \in Workers, Receive(w) \/ Fail(w)
      PROVE  UNCHANGED raced
  BY <1>3 DEF Receive, Fail
<1> QED BY <1>2, <1>3 DEF Next, vars

(* Served one at a time, requests never leave a room with no owner or two. *)
THEOREM OneOwnerSerially ==
  ASSUME NEW w0, Workers = {w0}
  PROVE  Spec => []OneOwner
<1>1. Init => raced = {}
  BY DEF Init
<1>2. raced = {} /\ [Next]_vars => (raced = {})'
  BY RacedByPromote DEF RepoPromote
<1>3. IInv /\ raced = {} => OneOwner
  BY DEF IInv, OwnerSecure, OneOwner
<1> QED BY <1>1, <1>2, <1>3, Invariance, PTL DEF Spec

-----------------------------------------------------------------------------
(* A step leaves a direct conversation's participants alone: whatever      *)
(* writes a row of c has found c to be a room, or only changes its role.   *)
Untouched(c) == type'[c] = type[c] /\ Participants(c)' = Participants(c)

(* A step that writes no table leaves every conversation alone.            *)
LEMMA ReadsTouchNothing ==
  ASSUME NEW c \in ConvIDs, UNCHANGED <<type, name, role, raced>>
  PROVE  Untouched(c)
BY DEF Untouched, Participants

(* The writes of the room operations hit a room, or one that is gone.      *)
LEMMA RoomWrites ==
  ASSUME IInv, NEW w \in Workers, NEW op \in ManageOps \ {"update_role"},
         Serving(w, op), req[w].stage # "room",
         NEW c \in ConvIDs, type[c] = "direct"
  PROVE  c # req[w].conv
BY ManageFacts DEF IInv, Established

(* No step of any request changes who takes part in a direct conversation. *)
LEMMA DirectsUntouched ==
  ASSUME IInv, NEW w \in Workers, Receive(w) \/ Serve(w) \/ Fail(w),
         NEW c \in ConvIDs, type[c] = "direct"
  PROVE  Untouched(c)
<1>0. TypeOK
  BY DEF IInv
<1>1. CASE Receive(w) \/ Fail(w)
  BY <1>1, ReadsTouchNothing DEF Receive, Fail
<1>2. ASSUME NEW d \in ConvIDs, NEW t, NEW n, NEW rs, RepoCreate(d, t, n, rs)
      PROVE  Untouched(c)
  BY <1>0, <1>2 DEF RepoCreate, Untouched, Participants, TypeOK
<1>3. CASE CreateRoom(w)
  BY <1>2, <1>3 DEF CreateRoom
<1>4. CASE CreateDirect(w)
  BY <1>2, <1>4, ReadsTouchNothing DEF CreateDirect, Check
<1>5. CASE AddRoomParticipant(w)
  <2>1. CASE FindRoom(w, "actor") \/ FindActor(w, {"owner", "admin"}, "write")
    BY <2>1, ReadsTouchNothing DEF FindRoom, FindActor, Check
  <2>2. CASE /\ At(w, "write")
             /\ RepoAddParticipant(req[w].conv, req[w].target, "member")
    <3>1. c # req[w].conv
      BY <1>5, <2>2, RoomWrites DEF AddRoomParticipant, At, ManageOps
    <3> QED BY <1>0, <2>2, <3>1
            DEF RepoAddParticipant, SetRole, Untouched, Participants, TypeOK
  <2> QED BY <1>5, <2>1, <2>2 DEF AddRoomParticipant
<1>6. CASE UpdateParticipantRole(w)
  <2>1. CASE \/ FindActor(w, {"owner"}, "target")
             \/ FindTarget(w, {"admin", "member"}, "write")
    BY <2>1, ReadsTouchNothing DEF FindActor, FindTarget, Check
  <2>2. CASE RepoUpdateParticipantRole(req[w].conv, req[w].target, req[w].newRole)
    <3>1. /\ req[w].conv \in ConvIDs /\ req[w].target \in Users
          /\ req[w].newRole \in {"admin", "member"}
      BY <1>6, ManageFacts DEF UpdateParticipantRole, ManageOps
    <3>2. req[w].newRole # NoRole
      BY <3>1, NullAssumption DEF Roles
    <3> QED BY <1>0, <2>2, <3>1, <3>2
            DEF RepoUpdateParticipantRole, SetRole, Untouched, Participants, TypeOK
  <2> QED BY <1>6, <2>1, <2>2 DEF UpdateParticipantRole
<1>7. CASE RemoveParticipant(w)
  <2>1. CASE UNCHANGED <<type, name, role, raced>>
    BY <2>1, ReadsTouchNothing
  <2>2. CASE /\ At(w, "write")
             /\ RepoRemoveParticipant(req[w].conv, req[w].target)
    <3>1. c # req[w].conv
      BY <1>7, <2>2, RoomWrites DEF RemoveParticipant, At, ManageOps
    <3> QED BY <1>0, <2>2, <3>1
            DEF RepoRemoveParticipant, SetRole, Untouched, Participants, TypeOK
  <2> QED BY <1>7, <2>1, <2>2
          DEF RemoveParticipant, FindRoom, FindTarget, Check
<1>8. CASE LeaveRoom(w)
  <2>1. CASE FindRoom(w, "actor") \/ FindActor(w, {"admin", "member"}, "write")
    BY <2>1, ReadsTouchNothing DEF FindRoom, FindActor, Check
  <2>2. CASE /\ At(w, "write")
             /\ RepoRemoveParticipant(req[w].conv, req[w].target)
    <3>1. c # req[w].conv
      BY <1>8, <2>2, RoomWrites DEF LeaveRoom, At, ManageOps
    <3> QED BY <1>0, <2>2, <3>1
            DEF RepoRemoveParticipant, SetRole, Untouched, Participants, TypeOK
  <2> QED BY <1>8, <2>1, <2>2 DEF LeaveRoom
<1>9. CASE TransferOwnership(w)
  <2>1. CASE UNCHANGED <<type, name, role, raced>>
    BY <2>1, ReadsTouchNothing
  <2>2. CASE RepoPromote(w)
    <3>1. c # req[w].conv
      BY <1>9, <2>2, RoomWrites DEF TransferOwnership, RepoPromote, At, ManageOps
    <3>2. type' = type /\ role'[c] = role[c]
      BY <1>0, <2>2, <3>1 DEF RepoPromote, TypeOK
    <3> QED BY <3>2 DEF Untouched, Participants
  <2> QED BY <1>9, <2>1, <2>2
          DEF TransferOwnership, FindRoom, FindActor, FindTarget, Check, RepoDemote
<1>10. CASE UpdateRoomName(w)
  BY <1>10 DEF UpdateRoomName, FindRoom, FindActor, Check, RepoUpdateRoomName,
               Untouched, Participants
<1>11. CASE DeleteRoom(w)
  <2>1. CASE FindRoom(w, "actor") \/ FindActor(w, {"owner"}, "write")
    BY <2>1, ReadsTouchNothing DEF FindRoom, FindActor, Check
  <2>2. CASE CascadeCommits(w)
    <3>1. c # req[w].conv
      BY <1>11, <2>2, RoomWrites DEF DeleteRoom, CascadeCommits, ManageOps
    <3> QED BY <1>0, <2>2, <3>1
            DEF CascadeCommits, Removed, Untouched, Participants, TypeOK
  <2>3. CASE UNCHANGED <<type, name, role, raced>>
    BY <2>3, ReadsTouchNothing
  <2> QED BY <1>0, <1>11, <2>1, <2>2, <2>3, DeleteMoves DEF DeleteRoom, CascadeMoves
<1> QED BY <1>1, <1>3, <1>4, <1>5, <1>6, <1>7, <1>8, <1>9, <1>10, <1>11 DEF Serve

(* The participants of a direct conversation never change, although one of *)
(* the operations does not look at the conversation's type.                *)
THEOREM DirectsKeepTheirParticipants == Spec => DirectMembershipFixed
<1>1. IInv /\ [Next]_vars =>
        [\A c \in ConvIDs : type[c] = "direct" =>
           type'[c] = "direct" /\ Participants(c)' = Participants(c)]_vars
  <2> SUFFICES ASSUME IInv, Next, NEW c \in ConvIDs, type[c] = "direct"
               PROVE  type'[c] = "direct" /\ Participants(c)' = Participants(c)
    OBVIOUS
  <2> QED BY DirectsUntouched DEF Next, Untouched
<1> QED BY <1>1, Invariance, PTL DEF Spec, DirectMembershipFixed
-----------------------------------------------------------------------------
(* One participant's row is written, with a role that is not the owner's,  *)
(* or removed: a row nobody holds, of a conversation that is there.        *)
RowWritten ==
  /\ type' = type
  /\ \E c \in ConvIDs, u \in Users, r \in {"admin", "member", NoRole} :
       /\ ~Locked(c, u) /\ SetRole(c, u, r)
       /\ r = NoRole \/ role[c][u] # NoRole \/ type[c] \in {"room", "direct"}

(* What a step can do to conversations and their rows: nothing, one row    *)
(* below the owner's, a creation, a deletion, or the commit of a transfer. *)
LEMMA Effects ==
  ASSUME IInv, NEW w \in Workers, Receive(w) \/ Serve(w) \/ Fail(w)
  PROVE  \/ UNCHANGED <<type, role>>
         \/ RowWritten
         \/ CreateRoom(w)
         \/ CreateDirect(w) /\ At(w, "write")
         \/ Serving(w, "delete_room") /\ CascadeCommits(w)
         \/ Serving(w, "transfer_ownership") /\ RepoPromote(w)
<1> DEFINE Goal == \/ UNCHANGED <<type, role>>
                   \/ RowWritten
                   \/ CreateRoom(w)
                   \/ CreateDirect(w) /\ At(w, "write")
                   \/ Serving(w, "delete_room") /\ CascadeCommits(w)
                   \/ Serving(w, "transfer_ownership") /\ RepoPromote(w)
<1>0. TypeOK
  BY DEF IInv
<1>1. CASE Receive(w) \/ Fail(w)
  BY <1>1 DEF Receive, Fail
<1>2. CASE CreateRoom(w)
  BY <1>2
<1>3. CASE CreateDirect(w)
  BY <1>3 DEF CreateDirect, Check
<1>4. CASE AddRoomParticipant(w)
  <2>1. req[w].conv \in ConvIDs /\ req[w].target \in Users
    BY <1>4, ManageFacts DEF AddRoomParticipant, ManageOps
  <2> QED BY <1>4, <2>1
          DEF AddRoomParticipant, FindRoom, FindActor, Check, RepoAddParticipant, RowWritten
<1>5. CASE UpdateParticipantRole(w)
  <2>1. /\ req[w].conv \in ConvIDs /\ req[w].target \in Users
        /\ req[w].newRole \in {"admin", "member"}
    BY <1>5, ManageFacts DEF UpdateParticipantRole, ManageOps
  <2> QED BY <1>5, <2>1
          DEF UpdateParticipantRole, FindActor, FindTarget, Check,
              RepoUpdateParticipantRole, RowWritten
<1>6. CASE RemoveParticipant(w)
  <2>1. req[w].conv \in ConvIDs /\ req[w].target \in Users
    BY <1>6, ManageFacts DEF RemoveParticipant, ManageOps
  <2> QED BY <1>6, <2>1
          DEF RemoveParticipant, FindRoom, FindTarget, Check, RepoRemoveParticipant,
              RowWritten
<1>7. CASE LeaveRoom(w)
  <2>1. req[w].conv \in ConvIDs /\ req[w].target \in Users
    BY <1>7, ManageFacts DEF LeaveRoom, ManageOps
  <2> QED BY <1>7, <2>1
          DEF LeaveRoom, FindRoom, FindActor, Check, RepoRemoveParticipant, RowWritten
<1>8. CASE TransferOwnership(w)
  BY <1>8 DEF TransferOwnership, FindRoom, FindActor, FindTarget, Check, RepoDemote
<1>9. CASE UpdateRoomName(w)
  BY <1>9 DEF UpdateRoomName, FindRoom, FindActor, Check, RepoUpdateRoomName
<1>10. CASE DeleteRoom(w)
  <2>1. CASE RepoDeleteConversation(w)
    BY <1>0, <1>10, <2>1, DeleteMoves DEF DeleteRoom, CascadeMoves
  <2> QED BY <1>10, <2>1 DEF DeleteRoom, FindRoom, FindActor, Check
<1> HIDE DEF Goal
<1> QED BY <1>1, <1>2, <1>3, <1>4, <1>5, <1>6, <1>7, <1>8, <1>9, <1>10 DEF Serve, Goal

(* A user becomes the owner of an existing conversation only by a transfer *)
(* that is past its checks.                                                *)
LEMMA OwnersComeFrom ==
  ASSUME IInv, NEW w \in Workers, Receive(w) \/ Serve(w) \/ Fail(w),
         NEW c \in ConvIDs, type[c] # "unused",
         ~(Serving(w, "transfer_ownership") /\ At(w, "promote") /\ req[w].conv = c)
  PROVE  Owners(c)' \subseteq Owners(c)
<1>0. TypeOK
  BY DEF IInv
<1>1. CASE UNCHANGED <<type, role>>
  BY <1>1 DEF Owners
<1>2. CASE RowWritten
  <2>1. PICK d \in ConvIDs, u \in Users, r \in {"admin", "member", NoRole} :
          role' = [role EXCEPT ![d] = [role[d] EXCEPT ![u] = r]]
    BY <1>2 DEF RowWritten, SetRole
  <2>2. r # "owner"
    BY NullAssumption DEF Roles
  <2>3. \A x \in Users : role'[c][x] = "owner" => role[c][x] = "owner"
    BY <1>0, <2>1, <2>2 DEF TypeOK
  <2> QED BY <2>3 DEF Owners
<1>3. ASSUME NEW d \in ConvIDs, NEW t, NEW n, NEW rs, RepoCreate(d, t, n, rs)
      PROVE  Owners(c)' \subseteq Owners(c)
  BY <1>0, <1>3 DEF RepoCreate, Owners, TypeOK
<1>4. CASE CascadeCommits(w)
  <2>1. \/ role'[c] = role[c]
        \/ role'[c] = [u \in Users |-> NoRole]
    BY <1>0, <1>4 DEF CascadeCommits, Removed, TypeOK
  <2> QED BY <2>1, NullAssumption DEF Owners, Roles
<1>5. CASE Serving(w, "transfer_ownership") /\ RepoPromote(w)
  <2>1. c # req[w].conv
    BY <1>5 DEF RepoPromote
  <2>2. role'[c] = role[c]
    BY <1>0, <1>5, <2>1 DEF RepoPromote, TypeOK
  <2> QED BY <2>2 DEF Owners
<1>6. CASE CreateRoom(w)
  BY <1>3, <1>6 DEF CreateRoom
<1>7. CASE CreateDirect(w) /\ At(w, "write")
  BY <1>3, <1>7 DEF CreateDirect, At
<1> QED BY <1>1, <1>2, <1>4, <1>5, <1>6, <1>7, Effects

(* A room that has lost its owner for good: only a transfer whose check on *)
(* the actor was made before could give it one.                            *)
THEOREM OwnerlessStaysOwnerless == Spec => OwnerlessForGood
<1> DEFINE Lost(c) ==
      /\ type[c] = "room" /\ Owners(c) = {}
      /\ ~\E w \in Workers :
           /\ Serving(w, "transfer_ownership") /\ req[w].conv = c
           /\ req[w].stage \in {"target", "demote", "promote"}
<1>1. IInv /\ [Next]_vars => [\A c \in ConvIDs : Lost(c) => Owners(c)' = {}]_vars
  <2> SUFFICES ASSUME IInv, Next, NEW c \in ConvIDs, Lost(c)
               PROVE  Owners(c)' = {}
    OBVIOUS
  <2>1. PICK w \in Workers : Receive(w) \/ Serve(w) \/ Fail(w)
    BY DEF Next
  <2>2. ~(Serving(w, "transfer_ownership") /\ At(w, "promote") /\ req[w].conv = c)
    BY DEF At
  <2>3. Owners(c)' \subseteq Owners(c)
    BY <2>1, <2>2, OwnersComeFrom
  <2> QED BY <2>3
<1> QED BY <1>1, Invariance, PTL DEF Spec, OwnerlessForGood
-----------------------------------------------------------------------------
(* A request keeps what the client asked for until it ends; a deletion's    *)
(* target moves with its cascade.                                          *)
SameRequest(w) == /\ req'[w].op = req[w].op /\ req'[w].actor = req[w].actor
                  /\ req[w].op # "delete_room" => req'[w].target = req[w].target

(* A step for w touches no other request, and ends its own or keeps it.    *)
OwnRequest(w) == /\ req'[w] = NoRequest \/ SameRequest(w)
                 /\ \A v \in Workers \ {w} : req'[v] = req[v]

(* A management request that goes on is the same request.                  *)
LEMMA AdvanceSame ==
  ASSUME IInv, NEW w \in Workers, NEW op \in ManageOps, Serving(w, op),
         NEW s \in Stages, Advance(w, s)
  PROVE  SameRequest(w) /\ \A v \in Workers \ {w} : req'[v] = req[v]
<1>1. req[w] \in ManageRequest /\ TypeOK
  BY ManageFacts DEF IInv
<1>2. req'[w] = [req[w] EXCEPT !.stage = s]
  BY <1>1, AdvanceFields
<1> QED BY <1>1, <1>2, AdvanceFields DEF SameRequest, ManageRequest

(* Serving one request touches no other, and ends it or keeps its terms.   *)
LEMMA ServeSame ==
  ASSUME IInv, NEW w \in Workers, Serve(w)
  PROVE  OwnRequest(w)
<1>0. TypeOK
  BY DEF IInv
<1>1. Finish(w) => OwnRequest(w)
  BY <1>0, FinishFields DEF OwnRequest
<1>2. ASSUME NEW op \in ManageOps, Serving(w, op), NEW s \in Stages, Advance(w, s)
      PROVE  OwnRequest(w)
  BY <1>2, AdvanceSame DEF OwnRequest
<1>3. ASSUME NEW op \in ManageOps, Serving(w, op), NEW ok, NEW s \in Stages,
             Check(w, ok, s)
      PROVE  OwnRequest(w)
  <2>1. Finish(w) \/ Advance(w, s)
    BY <1>3 DEF Check
  <2> QED BY <1>1, <1>2, <1>3, <2>1
<1>4. {"actor", "target", "demote", "write"} \subseteq Stages
  BY DEF Stages
<1>5. ASSUME NEW op \in ManageOps, Serving(w, op), NEW A, NEW s \in Stages,
             FindRoom(w, s) \/ FindActor(w, A, s) \/ FindTarget(w, A, s)
      PROVE  OwnRequest(w)
  <2> QED BY <1>3, <1>5 DEF FindRoom, FindActor, FindTarget
<1>6. CASE CreateRoom(w)
  BY <1>1, <1>6 DEF CreateRoom
<1>7. CASE CreateDirect(w)
  <2>1. CASE Finish(w)
    BY <1>1, <2>1
  <2>2. CASE Advance(w, "write")
    <3>1. req[w] \in CreateRequest
      BY <1>0, <1>7, RequestKinds DEF CreateDirect, Serving, CreateOps
    <3>2. /\ req' = [req EXCEPT ![w] = [req[w] EXCEPT !.stage = "write"]]
          /\ [req[w] EXCEPT !.stage = "write"] \in CreateRequest
      BY <2>2, <3>1 DEF Advance, CreateRequest
    <3> QED BY <1>0, <3>1, <3>2 DEF TypeOK, CreateRequest, SameRequest, OwnRequest
  <2> QED BY <1>7, <2>1, <2>2 DEF CreateDirect, Check
<1>8. CASE AddRoomParticipant(w)
  <2>1. Serving(w, "add_participant") /\ "add_participant" \in ManageOps
    BY <1>8 DEF AddRoomParticipant, ManageOps
  <2> QED BY <1>1, <1>4, <1>5, <1>8, <2>1 DEF AddRoomParticipant
<1>9. CASE UpdateParticipantRole(w)
  <2>1. Serving(w, "update_role") /\ "update_role" \in ManageOps
    BY <1>9 DEF UpdateParticipantRole, ManageOps
  <2> QED BY <1>1, <1>4, <1>5, <1>9, <2>1 DEF UpdateParticipantRole
<1>10. CASE RemoveParticipant(w)
  <2>1. Serving(w, "remove_participant") /\ "remove_participant" \in ManageOps
    BY <1>10 DEF RemoveParticipant, ManageOps
  <2>2. ASSUME NEW r, req' = [req EXCEPT ![w].stage = "target", ![w].actorRole = r]
        PROVE  OwnRequest(w)
    <3>1. req[w] \in ManageRequest
      BY <2>1, ManageFacts
    <3>2. req' = [req EXCEPT ![w] = [req[w] EXCEPT !.stage = "target", !.actorRole = r]]
      BY <2>2
    <3>3. req'[w] = [req[w] EXCEPT !.stage = "target", !.actorRole = r]
      BY <1>0, <3>2 DEF TypeOK
    <3>4. SameRequest(w)
      BY <3>1, <3>3 DEF ManageRequest, SameRequest
    <3> QED BY <1>0, <3>2, <3>4 DEF TypeOK, OwnRequest
  <2> QED BY <1>1, <1>4, <1>5, <1>10, <2>1, <2>2 DEF RemoveParticipant
<1>11. CASE LeaveRoom(w)
  <2>1. Serving(w, "leave_room") /\ "leave_room" \in ManageOps
    BY <1>11 DEF LeaveRoom, ManageOps
  <2> QED BY <1>1, <1>4, <1>5, <1>11, <2>1 DEF LeaveRoom
<1>12. CASE TransferOwnership(w)
  <2>1. Serving(w, "transfer_ownership") /\ "transfer_ownership" \in ManageOps
    BY <1>12 DEF TransferOwnership, ManageOps
  <2>2. ASSUME NEW b, req' = [req EXCEPT ![w].stage = "promote", ![w].held = b]
        PROVE  OwnRequest(w)
    <3>1. req[w] \in ManageRequest
      BY <2>1, ManageFacts
    <3>2. req' = [req EXCEPT ![w] = [req[w] EXCEPT !.stage = "promote", !.held = b]]
      BY <2>2
    <3>3. req'[w] = [req[w] EXCEPT !.stage = "promote", !.held = b]
      BY <1>0, <3>2 DEF TypeOK
    <3>4. SameRequest(w)
      BY <3>1, <3>3 DEF ManageRequest, SameRequest
    <3> QED BY <1>0, <3>2, <3>4 DEF TypeOK, OwnRequest
  <2>3. RepoPromote(w) => Finish(w)
    BY DEF RepoPromote, Rollback
  <2>4. RepoDemote(w) => OwnRequest(w)
    <3>1. PICK b : b = {req[w].actor} \cap Participants(req[w].conv)
      OBVIOUS
    <3>2. RepoDemote(w) => req' = [req EXCEPT ![w].stage = "promote", ![w].held = b]
      BY <3>1 DEF RepoDemote
    <3> QED BY <2>2, <3>2
  <2> QED BY <1>1, <1>4, <1>5, <1>12, <2>1, <2>3, <2>4 DEF TransferOwnership
<1>13. CASE UpdateRoomName(w)
  <2>1. Serving(w, "update_name") /\ "update_name" \in ManageOps
    BY <1>13 DEF UpdateRoomName, ManageOps
  <2> QED BY <1>1, <1>4, <1>5, <1>13, <2>1 DEF UpdateRoomName
<1>14. CASE DeleteRoom(w)
  <2>1. Serving(w, "delete_room") /\ "delete_room" \in ManageOps
    BY <1>14 DEF DeleteRoom, ManageOps
  <2>2. CASE CascadeMoves(w)
    <3>1. PICK u, gone :
            req' = [req EXCEPT ![w] = [req[w] EXCEPT !.stage = "cascade", !.target = u,
                                                     !.held = gone]]
      BY <2>2 DEF CascadeMoves
    <3>2. req[w] \in ManageRequest /\ req[w].op = "delete_room"
      BY <2>1, ManageFacts DEF Serving
    <3>3. req'[w] = [req[w] EXCEPT !.stage = "cascade", !.target = u, !.held = gone]
      BY <1>0, <3>1 DEF TypeOK
    <3>4. SameRequest(w)
      BY <3>2, <3>3 DEF ManageRequest, SameRequest
    <3> QED BY <1>0, <3>1, <3>4 DEF TypeOK, OwnRequest
  <2>3. RepoDeleteConversation(w) => OwnRequest(w)
    BY <1>0, <1>1, <2>1, <2>2, DeleteMoves DEF CascadeCommits
  <2> QED BY <1>1, <1>4, <1>5, <1>14, <2>1, <2>3 DEF DeleteRoom
<1> QED BY <1>6, <1>7, <1>8, <1>9, <1>10, <1>11, <1>12, <1>13, <1>14 DEF Serve
-----------------------------------------------------------------------------
(* About to insert a direct conversation, having found none.               *)
AboutToPair(w) == Serving(w, "create_direct") /\ At(w, "write")

(* Whoever asks for a direct conversation asks for one with somebody else. *)
Pairs == \A w \in Workers : Serving(w, "create_direct") => req[w].actor # req[w].target

(* No two of the participants of c share another direct conversation, or   *)
(* are about to.                                                           *)
Alone(c) ==
  /\ type[c] = "direct"
  /\ \A d \in ConvIDs, a, b \in Users :
       a # b /\ {a, b} \subseteq Participants(c) /\ d \in Directs(a, b) => d = c
  /\ \A w \in Workers :
       AboutToPair(w) => ~({req[w].actor, req[w].target} \subseteq Participants(c))

(* What is asked for when a request arrives.                               *)
LEMMA Received ==
  ASSUME TypeOK, NEW w \in Workers, Receive(w)
  PROVE  /\ \A v \in Workers \ {w} : req'[v] = req[v]
         /\ req'[w].op \in Ops
         /\ req'[w].op = "create_direct"
              => req'[w].stage = "find" /\ req'[w].actor # req'[w].target
<1>1. CASE ReceiveCreate(w)
  <2>1. PICK op \in Ops \cap CreateOps, a \in Users, t \in Users,
             n \in Names \cup {NoName} :
          /\ IF op = "create_room" THEN t = a /\ n \in Names ELSE t # a /\ n = NoName
          /\ req' = [req EXCEPT ![w] =
               [op |-> op, actor |-> a, target |-> t, name |-> n,
                stage |-> IF op = "create_room" THEN "write" ELSE "find"]]
    BY <1>1, Zenon DEF ReceiveCreate
  <2>2. /\ \A v \in Workers \ {w} : req'[v] = req[v]
        /\ req'[w].op = op /\ req'[w].actor = a /\ req'[w].target = t
        /\ req'[w].stage = IF op = "create_room" THEN "write" ELSE "find"
    BY <2>1 DEF TypeOK
  <2> QED BY <2>1, <2>2
<1>2. CASE ReceiveManage(w)
  <2>1. PICK op \in Ops \cap ManageOps, a \in Users, t \in Users,
             c \in ConvIDs, r \in AssignableRoles, n \in Names \cup {NoName} :
          /\ type[c] # "unused"
          /\ (op \in {"leave_room", "update_name", "delete_room"}) <=> (t = a)
          /\ op # "update_role" => r = "member"
          /\ (op = "update_name") <=> (n \in Names)
          /\ req' = [req EXCEPT ![w] =
               [op |-> op, actor |-> a, conv |-> c, target |-> t, newRole |-> r,
                name |-> n, actorRole |-> NoRole, held |-> {},
                stage |-> IF op = "update_role" THEN "actor" ELSE "room"]]
    BY <1>2, Zenon DEF ReceiveManage
  <2>2. /\ \A v \in Workers \ {w} : req'[v] = req[v]
        /\ req'[w].op \in Ops \cap ManageOps
    BY <2>1 DEF TypeOK
  <2> QED BY <2>2 DEF ManageOps
<1> QED BY <1>1, <1>2 DEF Receive

(* Requests ask for pairs of two, always.                                  *)
LEMMA PairsStep ==
  ASSUME IInv, Pairs, NEW w \in Workers, Receive(w) \/ Serve(w) \/ Fail(w)
  PROVE  Pairs'
<1> SUFFICES ASSUME NEW v \in Workers, Serving(v, "create_direct")'
             PROVE  req'[v].actor # req'[v].target
  BY DEF Pairs
<1>0. TypeOK
  BY DEF IInv
<1>1. CASE req'[v] = req[v]
  BY <1>1 DEF Pairs, Serving
<1>2. CASE Receive(w)
  BY <1>0, <1>1, <1>2, Received DEF Serving
<1>3. CASE Serve(w)
  <2>1. v = w \/ req'[v] = req[v]
    BY <1>3, ServeSame DEF OwnRequest
  <2>2. CASE v = w
    <3>1. SameRequest(w) /\ req'[w].op = "create_direct"
      BY <1>3, <2>2, ServeSame DEF OwnRequest, Serving
    <3>2. req[w] # NoRequest
      BY <1>3 DEF Serve, CreateRoom, CreateDirect, AddRoomParticipant,
         UpdateParticipantRole, RemoveParticipant, LeaveRoom, TransferOwnership,
         UpdateRoomName, DeleteRoom, Serving
    <3> QED BY <2>2, <3>1, <3>2 DEF SameRequest, Pairs, Serving
  <2> QED BY <1>1, <2>1, <2>2
<1>4. CASE Fail(w)
  BY <1>0, <1>1, <1>4, FinishFields DEF Fail, Serving
<1> QED BY <1>2, <1>3, <1>4

(* A direct conversation that was not there is inserted by CreateDirect,   *)
(* with the two users of its request and no other.                         *)
LEMMA NewDirect ==
  ASSUME IInv, NEW w \in Workers, Receive(w) \/ Serve(w) \/ Fail(w),
         NEW d \in ConvIDs, type'[d] = "direct", type[d] # "direct"
  PROVE  /\ CreateDirect(w) /\ AboutToPair(w) /\ Finish(w)
         /\ Participants(d)' \subseteq {req[w].actor, req[w].target}
         /\ \A e \in ConvIDs \ {d} : type'[e] = type[e] /\ role'[e] = role[e]
<1>0. TypeOK
  BY DEF IInv
<1>1. CascadeCommits(w) => type'[d] # "direct"
  BY <1>0 DEF CascadeCommits, Removed, TypeOK
<1>2. ~CreateRoom(w)
  BY <1>0 DEF CreateRoom, RepoCreate, TypeOK
<1>3. CreateDirect(w) /\ At(w, "write")
  BY <1>1, <1>2, Effects DEF RowWritten, RepoPromote
<1>4. PICK e \in ConvIDs :
        RepoCreate(e, "direct", NoName,
          [u \in Users |-> IF u \in {req[w].actor, req[w].target}
                           THEN "member" ELSE NoRole])
  BY <1>3 DEF CreateDirect, At
<1>5. e = d
  BY <1>0, <1>4 DEF RepoCreate, TypeOK
<1>6. role'[d] = [u \in Users |-> IF u \in {req[w].actor, req[w].target}
                                  THEN "member" ELSE NoRole]
  BY <1>0, <1>4, <1>5 DEF RepoCreate, TypeOK
<1>7. \A x \in ConvIDs \ {d} : type'[x] = type[x] /\ role'[x] = role[x]
  BY <1>0, <1>4, <1>5 DEF RepoCreate, TypeOK
<1>8. Participants(d)' \subseteq {req[w].actor, req[w].target}
  BY <1>6 DEF Participants
<1> QED BY <1>3, <1>7, <1>8 DEF AboutToPair, CreateDirect, At

(* A request comes to its insertion only by finding no conversation.       *)
LEMMA FoundNone ==
  ASSUME IInv, NEW w \in Workers, Receive(w) \/ Serve(w) \/ Fail(w),
         NEW v \in Workers, AboutToPair(v)', ~AboutToPair(v)
  PROVE  /\ v = w /\ SameRequest(w) /\ req[w].actor \in Users /\ req[w].target \in Users
         /\ FindDirectBetweenUsers(req[w].actor, req[w].target) = {}
<1>0. TypeOK
  BY DEF IInv
<1>1. req'[v] # req[v]
  BY DEF AboutToPair, Serving, At
<1>2. v = w /\ Serve(w)
  <2>1. CASE Receive(w)
    BY <1>0, <1>1, <2>1, Received DEF AboutToPair, Serving, At
  <2>2. CASE Fail(w)
    BY <1>0, <1>1, <2>2, FinishFields DEF Fail, AboutToPair, Serving
  <2>3. CASE Serve(w)
    BY <1>1, <2>3, ServeSame DEF OwnRequest
  <2> QED BY <2>1, <2>2, <2>3
<1>3. SameRequest(w) /\ req[w].op = "create_direct"
  BY <1>2, ServeSame DEF OwnRequest, SameRequest, AboutToPair, Serving
<1>4. CreateDirect(w)
  BY <1>2, <1>3 DEF Serve, CreateRoom, AddRoomParticipant,
     UpdateParticipantRole, RemoveParticipant, LeaveRoom, TransferOwnership,
     UpdateRoomName, DeleteRoom, Serving
<1>5. req[w] \in CreateRequest
  BY <1>0, <1>4, RequestKinds DEF CreateDirect, Serving, CreateOps
<1>6. ~Finish(w)
  BY <1>0, <1>2, FinishFields DEF AboutToPair, Serving
<1>7. FindDirectBetweenUsers(req[w].actor, req[w].target) = {}
  BY <1>4, <1>6 DEF CreateDirect, Check
<1> QED BY <1>2, <1>3, <1>5, <1>7 DEF CreateRequest

(* Nothing gives a pair that has a direct conversation to itself a second. *)
LEMMA AloneStep ==
  ASSUME IInv, Pairs, NEW w \in Workers, Receive(w) \/ Serve(w) \/ Fail(w),
         NEW c \in ConvIDs, Alone(c)
  PROVE  Alone(c)'
<1>1. type'[c] = "direct" /\ Participants(c)' = Participants(c)
  BY DirectsUntouched DEF Alone, Untouched
<1>2. ASSUME NEW d \in ConvIDs, NEW a \in Users, NEW b \in Users, a # b,
             {a, b} \subseteq Participants(c), d \in Directs(a, b)'
      PROVE  d = c
  <2>0. type'[d] = "direct" /\ {a, b} \subseteq Participants(d)'
    BY <1>2 DEF Directs
  <2>1. CASE type[d] = "direct"
    <3>1. Participants(d)' = Participants(d)
      BY <2>1, DirectsUntouched DEF Untouched
    <3>2. d \in Directs(a, b)
      BY <2>0, <2>1, <3>1 DEF Directs
    <3> QED BY <1>2, <3>2 DEF Alone
  <2>2. CASE type[d] # "direct"
    <3>1. AboutToPair(w) /\ {a, b} \subseteq {req[w].actor, req[w].target}
      BY <2>0, <2>2, NewDirect
    <3>2. {req[w].actor, req[w].target} \subseteq {a, b}
      BY <1>2, <3>1
    <3> QED BY <1>2, <3>1, <3>2 DEF Alone
  <2> QED BY <2>1, <2>2
<1>3. ASSUME NEW v \in Workers, AboutToPair(v)'
      PROVE  ~({req'[v].actor, req'[v].target} \subseteq Participants(c))
  <2>1. CASE ~AboutToPair(v)
    <3>1. /\ req'[v].actor = req[w].actor /\ req'[v].target = req[w].target
          /\ FindDirectBetweenUsers(req[w].actor, req[w].target) = {}
      BY <1>3, <2>1, FoundNone DEF SameRequest, AboutToPair, Serving
    <3>2. ~({req[w].actor, req[w].target} \subseteq Participants(c))
      BY <3>1 DEF FindDirectBetweenUsers, Participants, Alone
    <3> QED BY <3>1, <3>2
  <2>2. CASE AboutToPair(v)
    <3>1. req'[v].actor = req[v].actor /\ req'[v].target = req[v].target
      <4>1. CASE req'[v] = req[v]
        BY <4>1
      <4>2. CASE v = w /\ Serve(w)
        BY <1>3, <4>2, ServeSame DEF OwnRequest, SameRequest, AboutToPair, Serving
      <4>3. CASE v = w /\ Fail(w)
        BY <1>3, <4>3, FinishFields DEF Fail, AboutToPair, Serving, IInv
      <4>4. CASE v = w /\ Receive(w)
        BY <2>2, <4>4 DEF Receive, AboutToPair, Serving
      <4>5. v # w => req'[v] = req[v]
        BY ServeSame, Received, FinishFields DEF Fail, OwnRequest, IInv
      <4> QED BY <4>1, <4>2, <4>3, <4>4, <4>5
    <3> QED BY <2>2, <3>1 DEF Alone
  <2> QED BY <2>1, <2>2
<1> QED BY <1>1, <1>2, <1>3 DEF Alone
(* Two users who share two conversations of the same two participants.     *)
LEMMA SamePair ==
  ASSUME NEW r \in LegacyRoles, NEW s \in LegacyRoles,
         NEW a \in Users, NEW b \in Users, a # b,
         r[a] # NoRole, r[b] # NoRole, s[a] # NoRole, s[b] # NoRole
  PROVE  \A u \in Users : r[u] = NoRole <=> s[u] = NoRole
<1>1. ASSUME NEW x \in LegacyRoles, x[a] # NoRole, x[b] # NoRole
      PROVE  \A u \in Users : x[u] = NoRole <=> u \notin {a, b}
  <2>1. PICK y \in Users, z \in Users :
          y # z /\ x = [u \in Users |-> CASE u = y -> "owner"
                                          [] u = z -> "member"
                                          [] OTHER -> NoRole]
    BY DEF LegacyRoles
  <2>2. \A u \in Users : x[u] = NoRole <=> u \notin {y, z}
    BY <2>1, NullAssumption DEF Roles
  <2>3. {a, b} = {y, z}
    BY <1>1, <2>2
  <2> QED BY <2>2, <2>3
<1> QED BY <1>1

(* At the start the only direct conversations are legacy ones, no pair has *)
(* two of them, and nobody is about to create one.                         *)
LEMMA InitAlone == Init => Pairs /\ \A c \in ConvIDs : type[c] = "direct" => Alone(c)
<1> SUFFICES ASSUME Init PROVE Pairs /\ \A c \in ConvIDs : type[c] = "direct" => Alone(c)
  OBVIOUS
<1>1. \A w \in Workers : req[w] = NoRequest
  BY DEF Init
<1>2. PICK f \in [Legacy -> LegacyRoles] :
        /\ \A c, d \in Legacy :
             (\A u \in Users : f[c][u] = NoRole <=> f[d][u] = NoRole) => c = d
        /\ role = [c \in ConvIDs |-> IF c \in Legacy
                                     THEN f[c] ELSE [u \in Users |-> NoRole]]
  BY DEF Init
<1>3. ASSUME NEW c \in ConvIDs, NEW d \in ConvIDs, type[c] = "direct",
             NEW a \in Users, NEW b \in Users, a # b,
             {a, b} \subseteq Participants(c), d \in Directs(a, b)
      PROVE  d = c
  <2>1. c \in Legacy /\ d \in Legacy
    BY <1>3 DEF Init, Directs
  <2>2. role[c] = f[c] /\ role[d] = f[d] /\ f[c] \in LegacyRoles /\ f[d] \in LegacyRoles
    BY <1>2, <2>1
  <2>3. f[c][a] # NoRole /\ f[c][b] # NoRole /\ f[d][a] # NoRole /\ f[d][b] # NoRole
    BY <1>3, <2>2 DEF Participants, Directs
  <2>4. \A u \in Users : f[c][u] = NoRole <=> f[d][u] = NoRole
    BY <1>3, <2>2, <2>3, SamePair
  <2> QED BY <1>2, <2>1, <2>4
<1> QED BY <1>1, <1>3 DEF Pairs, Alone, AboutToPair, Serving

(* The direct conversation a pair had before migration 002 stays its only  *)
(* one, whatever requests overlap.                                         *)
THEOREM LegacyDirectsStayAlone == Spec => []LegacyDirectStaysAlone
<1> DEFINE Inv == Pairs /\ \A c \in Legacy : Alone(c)
<1>1. Init => Inv
  <2> SUFFICES ASSUME Init PROVE Inv
    OBVIOUS
  <2>1. \A c \in Legacy : c \in ConvIDs /\ type[c] = "direct"
    BY LegacyAssumption DEF Init
  <2> QED BY <2>1, InitAlone
<1>2. IInv /\ Inv /\ [Next]_vars => Inv'
  <2> SUFFICES ASSUME IInv, Inv, [Next]_vars PROVE Inv'
    OBVIOUS
  <2>1. CASE UNCHANGED vars
    BY <2>1 DEF vars, Pairs, Alone, AboutToPair, Serving, At, Directs, Participants
  <2>2. ASSUME NEW w \in Workers, Receive(w) \/ Serve(w) \/ Fail(w) PROVE Inv'
    <3>1. Pairs'
      BY <2>2, PairsStep
    <3>2. ASSUME NEW c \in Legacy PROVE Alone(c)'
      BY <2>2, LegacyAssumption, AloneStep
    <3> QED BY <3>1, <3>2
  <2> QED BY <2>1, <2>2 DEF Next
<1>3. IInv /\ Inv => LegacyDirectStaysAlone
  <2> SUFFICES ASSUME Inv, NEW c \in Legacy, NEW a \in Users, NEW b \in Users,
                      a # b, {a, b} \subseteq Participants(c)
               PROVE  Directs(a, b) = {c}
    BY DEF LegacyDirectStaysAlone, Participants
  <2>1. c \in ConvIDs /\ c \in Directs(a, b)
    BY LegacyAssumption DEF Alone, Directs
  <2>2. \A d \in Directs(a, b) : d \in ConvIDs /\ d = c
    BY DEF Alone, Directs
  <2> QED BY <2>1, <2>2
<1> QED BY <1>1, <1>2, <1>3, InitInv, NextInv, PTL DEF Spec

(* Without transfers no overlap of the other requests, however many, costs *)
(* a room its owner or gives it a second one: what a request has read of   *)
(* the owner's role stays true until it writes.                            *)
THEOREM OneOwnerWithoutTransfers ==
  ASSUME "transfer_ownership" \notin Ops
  PROVE  Spec => []OneOwner
<1> DEFINE NoTransfer == \A w \in Workers : ~Serving(w, "transfer_ownership")
<1>1. Init => raced = {} /\ NoTransfer
  BY DEF Init, Serving
<1>2. IInv /\ raced = {} /\ NoTransfer /\ [Next]_vars => (raced = {} /\ NoTransfer)'
  <2> SUFFICES ASSUME IInv, raced = {}, NoTransfer, [Next]_vars
               PROVE  raced' = {} /\ NoTransfer'
    OBVIOUS
  <2>1. raced' = {}
    BY RacedByPromote
  <2>2. CASE UNCHANGED vars
    BY <2>2 DEF vars, Serving
  <2>3. ASSUME NEW w \in Workers, Receive(w) PROVE NoTransfer'
    BY <2>3, Received DEF IInv, Serving
  <2>4. ASSUME NEW w \in Workers, Serve(w), NEW v \in Workers
        PROVE  ~Serving(v, "transfer_ownership")'
    <3>1. OwnRequest(w) /\ ~Serving(v, "transfer_ownership")
      BY <2>4, ServeSame
    <3>2. req[w] # NoRequest
      BY <2>4 DEF Serve, CreateRoom, CreateDirect, AddRoomParticipant,
                  UpdateParticipantRole, RemoveParticipant, LeaveRoom,
                  TransferOwnership, UpdateRoomName, DeleteRoom, Serving
    <3> QED BY <3>1, <3>2 DEF OwnRequest, SameRequest, Serving
  <2>5. ASSUME NEW w \in Workers, Fail(w) PROVE NoTransfer'
    BY <2>5, FinishFields DEF Fail, IInv, Serving
  <2> QED BY <2>1, <2>2, <2>3, <2>4, <2>5 DEF Next
<1>3. IInv /\ raced = {} => OneOwner
  BY DEF IInv, OwnerSecure, OneOwner
<1> QED BY <1>1, <1>2, <1>3, Invariance, PTL DEF Spec

(* Served one at a time, CreateDirect gives no pair a second conversation. *)
THEOREM OneDirectSerially ==
  ASSUME NEW w0, Workers = {w0}
  PROVE  Spec => []OneDirectPerPair
<1> DEFINE Inv == Pairs /\ \A c \in ConvIDs : type[c] = "direct" => Alone(c)
<1>1. IInv /\ Inv /\ [Next]_vars => Inv'
  <2> SUFFICES ASSUME IInv, Inv, [Next]_vars PROVE Inv'
    OBVIOUS
  <2>1. CASE UNCHANGED vars
    BY <2>1 DEF vars, Pairs, Alone, AboutToPair, Serving, At, Directs, Participants
  <2>2. ASSUME NEW w \in Workers, Receive(w) \/ Serve(w) \/ Fail(w) PROVE Inv'
    <3>0. TypeOK
      BY DEF IInv
    <3>1. Pairs'
      BY <2>2, PairsStep
    <3>2. ASSUME NEW c \in ConvIDs, type'[c] = "direct" PROVE Alone(c)'
      <4>1. CASE type[c] = "direct"
        BY <2>2, <4>1, AloneStep
      <4>2. CASE type[c] # "direct"
        <5>1. /\ AboutToPair(w) /\ Finish(w)
              /\ Participants(c)' \subseteq {req[w].actor, req[w].target}
              /\ \A e \in ConvIDs \ {c} : type'[e] = type[e] /\ role'[e] = role[e]
          BY <2>2, <3>2, <4>2, NewDirect
        <5>2. \A v \in Workers : ~AboutToPair(v)'
          BY <2>2, <3>0, <5>1, FinishFields DEF AboutToPair, Serving
        <5>3. ASSUME NEW d \in ConvIDs, NEW a \in Users, NEW b \in Users, a # b,
                     {a, b} \subseteq Participants(c)', d \in Directs(a, b)', d # c
              PROVE  FALSE
          <6>1. type[d] = "direct" /\ {a, b} \subseteq Participants(d)
            BY <5>1, <5>3 DEF Directs, Participants
          <6>2. {req[w].actor, req[w].target} \subseteq {a, b}
            BY <5>1, <5>3
          <6> QED BY <2>2, <5>1, <6>1, <6>2 DEF Alone
        <5> QED BY <3>2, <5>2, <5>3 DEF Alone
      <4> QED BY <4>1, <4>2
    <3> QED BY <3>1, <3>2
  <2> QED BY <2>1, <2>2 DEF Next
<1>2. Inv => OneDirectPerPair
  <2> SUFFICES ASSUME Inv, NEW a \in Users, NEW b \in Users, a # b
               PROVE  Cardinality(Directs(a, b)) <= 1
    BY DEF OneDirectPerPair
  <2>1. CASE Directs(a, b) = {}
    BY <2>1, FS_EmptySet
  <2>2. CASE Directs(a, b) # {}
    <3>1. PICK c : c \in Directs(a, b)
      BY <2>2
    <3>2. \A d \in Directs(a, b) : d = c
      BY <3>1 DEF Directs, Alone
    <3>3. Directs(a, b) = {c}
      BY <3>1, <3>2
    <3>4. Cardinality({c}) = 1
      BY FS_Singleton
    <3> QED BY <3>3, <3>4
  <2> QED BY <2>1, <2>2
<1> QED BY <1>1, <1>2, InitAlone, InitInv, NextInv, PTL DEF Spec
-----------------------------------------------------------------------------
(* A request of one of the stages given.                                   *)
Past(w, op, stages) == Serving(w, op) /\ req[w].stage \in stages

(* The roles its actor and its target have now.                            *)
ActorRole(w)  == role[req[w].conv][req[w].actor]
TargetRole(w) == role[req[w].conv][req[w].target]

(* What a request served alone has read is still so when it writes.        *)
StillSo(w) ==
  /\ \A op \in ManageOps \ {"update_role"} :
       Serving(w, op) /\ ~At(w, "room") => type[req[w].conv] = "room"
  /\ Past(w, "add_participant", {"write"}) => ActorRole(w) \in {"owner", "admin"}
  /\ Past(w, "update_role", {"target", "write"}) => ActorRole(w) = "owner"
  /\ Past(w, "update_role", {"write"}) => TargetRole(w) \in {"admin", "member"}
  /\ Past(w, "remove_participant", {"target", "write"}) =>
       ActorRole(w) \in {"owner", "admin"} /\ req[w].actorRole = ActorRole(w)
  /\ Past(w, "remove_participant", {"write"}) =>
       TargetRole(w) \in Removable(ActorRole(w))
  /\ Past(w, "leave_room", {"write"}) => ActorRole(w) \in {"admin", "member"}
  /\ Past(w, "transfer_ownership", {"target", "demote", "promote"}) =>
       ActorRole(w) = "owner"
  /\ Past(w, "transfer_ownership", {"demote", "promote"}) =>
       TargetRole(w) \in {"admin", "member"}
  /\ Past(w, "transfer_ownership", {"promote"}) => req[w].actor \in req[w].held
  /\ Past(w, "delete_room", {"write", "cascade"}) => ActorRole(w) = "owner"

(* The fields of a management request that goes on.                        *)
LEMMA AdvanceTerms ==
  ASSUME IInv, NEW w \in Workers, NEW op \in ManageOps, Serving(w, op),
         NEW s \in Stages, Advance(w, s)
  PROVE  /\ req'[w] # NoRequest /\ req'[w].op = op /\ req'[w].stage = s
         /\ req'[w].conv = req[w].conv /\ req'[w].actor = req[w].actor
         /\ req'[w].target = req[w].target
         /\ req'[w].actorRole = req[w].actorRole /\ req'[w].held = req[w].held
<1>1. req[w] \in ManageRequest /\ TypeOK /\ req[w].op = op
  BY ManageFacts DEF IInv
<1>2. req'[w] = [req[w] EXCEPT !.stage = s] /\ req'[w] \in ManageRequest
  BY <1>1, AdvanceFields
<1> QED BY <1>1, <1>2, NullAssumption DEF ManageRequest, Request

(* A request that has ended has nothing to keep.                           *)
LEMMA EndedSo ==
  ASSUME IInv, NEW w \in Workers, Finish(w)
  PROVE  StillSo(w)'
<1>1. req'[w] = NoRequest
  BY FinishFields DEF IInv
<1> QED BY <1>1 DEF StillSo, Past, Serving

(* A read that decides, of a request served alone: what a yes has to mean. *)
LEMMA CheckSo ==
  ASSUME IInv, NEW w \in Workers, StillSo(w), NEW op \in ManageOps, Serving(w, op),
         NEW ok, NEW s \in Stages \ {"promote", "cascade"}, Check(w, ok, s),
         ok => /\ op # "update_role" => type[req[w].conv] = "room"
               /\ op = "add_participant" /\ s = "write" => ActorRole(w) \in {"owner", "admin"}
               /\ op = "update_role" /\ s \in {"target", "write"} => ActorRole(w) = "owner"
               /\ op = "update_role" /\ s = "write" => TargetRole(w) \in {"admin", "member"}
               /\ op = "remove_participant" /\ s \in {"target", "write"} =>
                    ActorRole(w) \in {"owner", "admin"} /\ req[w].actorRole = ActorRole(w)
               /\ op = "remove_participant" /\ s = "write" =>
                    TargetRole(w) \in Removable(ActorRole(w))
               /\ op = "leave_room" /\ s = "write" => ActorRole(w) \in {"admin", "member"}
               /\ op = "transfer_ownership" /\ s \in {"target", "demote"} =>
                    ActorRole(w) = "owner"
               /\ op = "transfer_ownership" /\ s = "demote" =>
                    TargetRole(w) \in {"admin", "member"}
               /\ op = "delete_room" /\ s = "write" => ActorRole(w) = "owner"
  PROVE  StillSo(w)'
<1>1. CASE ~ok
  BY <1>1, EndedSo DEF Check
<1>2. CASE ok
  <2>1. Advance(w, s) /\ UNCHANGED <<type, role>>
    BY <1>2 DEF Check
  <2>2. /\ req'[w] # NoRequest /\ req'[w].op = op /\ req'[w].stage = s
        /\ req'[w].conv = req[w].conv /\ req'[w].actor = req[w].actor
        /\ req'[w].target = req[w].target /\ req'[w].actorRole = req[w].actorRole
    BY <2>1, AdvanceTerms
  <2>3. ActorRole(w)' = ActorRole(w) /\ TargetRole(w)' = TargetRole(w)
    BY <2>1, <2>2 DEF ActorRole, TargetRole
  <2> QED BY <1>2, <2>1, <2>2, <2>3 DEF StillSo, Past, Serving
<1> QED BY <1>1, <1>2
(* The type check of a management function, when nobody else interferes.   *)
LEMMA FindRoomSo ==
  ASSUME IInv, NEW w \in Workers, StillSo(w),
         NEW op \in ManageOps \ {"update_role"}, Serving(w, op), FindRoom(w, "actor")
  PROVE  StillSo(w)'
<1>1. Check(w, type[req[w].conv] = "room", "actor")
  BY DEF FindRoom
<1>2. "actor" \in Stages \ {"promote", "cascade"}
  BY DEF Stages
<1> QED BY <1>1, <1>2, CheckSo

(* Its check on the actor's role.                                          *)
LEMMA FindActorSo ==
  ASSUME IInv, NEW w \in Workers, StillSo(w), NEW op \in ManageOps, Serving(w, op),
         NEW A, NEW s \in {"target", "write"}, FindActor(w, A, s),
         op = "add_participant" => A = {"owner", "admin"},
         op = "update_role" => A = {"owner"} /\ s = "target",
         op = "leave_room" => A = {"admin", "member"},
         op = "transfer_ownership" => A = {"owner"} /\ s = "target",
         op = "delete_room" => A = {"owner"},
         op # "remove_participant"
  PROVE  StillSo(w)'
<1> DEFINE ok == role[req[w].conv][req[w].actor] \in A
<1>1. Check(w, ok, s) /\ s \in Stages \ {"promote", "cascade"}
  BY DEF FindActor, Stages
<1>2. op # "update_role" => type[req[w].conv] = "room"
  BY DEF StillSo, FindActor, At
<1>3. ok <=> ActorRole(w) \in A
  BY DEF ActorRole
<1> HIDE DEF ok
<1> QED BY <1>1, <1>2, <1>3, CheckSo

(* Its check on the target's role, which leaves the actor's as it was.     *)
LEMMA FindTargetSo ==
  ASSUME IInv, NEW w \in Workers, StillSo(w), NEW op, Serving(w, op),
         NEW A, NEW s, FindTarget(w, A, s),
         \/ op = "update_role" /\ A = {"admin", "member"} /\ s = "write"
         \/ op = "remove_participant" /\ A = Removable(req[w].actorRole) /\ s = "write"
         \/ op = "transfer_ownership" /\ A = {"admin", "member"} /\ s = "demote"
  PROVE  StillSo(w)'
<1> DEFINE ok == role[req[w].conv][req[w].target] \in A
<1>1. Check(w, ok, s) /\ s \in Stages \ {"promote", "cascade"} /\ op \in ManageOps
  BY DEF FindTarget, Stages, ManageOps
<1>2. /\ op # "update_role" => type[req[w].conv] = "room"
      /\ op # "remove_participant" => ActorRole(w) = "owner"
      /\ op = "remove_participant" =>
           ActorRole(w) \in {"owner", "admin"} /\ req[w].actorRole = ActorRole(w)
  BY <1>1 DEF StillSo, FindTarget, At, Past
<1>3. ok <=> TargetRole(w) \in A
  BY DEF TargetRole
<1> HIDE DEF ok
<1> QED BY <1>1, <1>2, <1>3, CheckSo

(* A request that arrives has read nothing.                                *)
LEMMA ReceiveSo == ASSUME IInv, NEW w \in Workers, Receive(w) PROVE StillSo(w)'
<1>0. TypeOK
  BY DEF IInv
<1>1. CASE ReceiveCreate(w)
  <2>1. PICK op \in Ops \cap CreateOps, a \in Users, t \in Users,
             n \in Names \cup {NoName} :
          /\ IF op = "create_room" THEN t = a /\ n \in Names ELSE t # a /\ n = NoName
          /\ req' = [req EXCEPT ![w] =
               [op |-> op, actor |-> a, target |-> t, name |-> n,
                stage |-> IF op = "create_room" THEN "write" ELSE "find"]]
    BY <1>1, Zenon DEF ReceiveCreate
  <2>2. req'[w].op \in CreateOps
    BY <1>0, <2>1 DEF TypeOK
  <2> QED BY <2>2 DEF StillSo, Past, Serving, CreateOps, ManageOps
<1>2. CASE ReceiveManage(w)
  <2>1. PICK op \in Ops \cap ManageOps, a \in Users, t \in Users,
             c \in ConvIDs, r \in AssignableRoles, n \in Names \cup {NoName} :
          /\ type[c] # "unused"
          /\ (op \in {"leave_room", "update_name", "delete_room"}) <=> (t = a)
          /\ op # "update_role" => r = "member"
          /\ (op = "update_name") <=> (n \in Names)
          /\ req' = [req EXCEPT ![w] =
               [op |-> op, actor |-> a, conv |-> c, target |-> t, newRole |-> r,
                name |-> n, actorRole |-> NoRole, held |-> {},
                stage |-> IF op = "update_role" THEN "actor" ELSE "room"]]
    BY <1>2, Zenon DEF ReceiveManage
  <2>2. req'[w].op = op /\ req'[w].stage = IF op = "update_role" THEN "actor" ELSE "room"
    BY <1>0, <2>1 DEF TypeOK
  <2> QED BY <2>2 DEF StillSo, Past, Serving, At
<1> QED BY <1>1, <1>2 DEF Receive

(* RemoveParticipant keeps the role it has read of the actor.              *)
LEMMA RemoverSo ==
  ASSUME IInv, NEW w \in Workers, StillSo(w), RemoveParticipant(w),
         At(w, "actor"), ActorRole(w) \in {"owner", "admin"}
  PROVE  StillSo(w)'
<1>0. /\ "remove_participant" \in ManageOps \ {"update_role"}
      /\ Serving(w, "remove_participant")
  BY DEF ManageOps, RemoveParticipant
<1>1. TypeOK /\ req[w] \in ManageRequest /\ req[w].op = "remove_participant"
  BY <1>0, ManageFacts DEF IInv
<1>2. PICK r : r = ActorRole(w)
  OBVIOUS
<1>3. /\ req' = [req EXCEPT ![w] = [req[w] EXCEPT !.stage = "target", !.actorRole = r]]
      /\ UNCHANGED <<type, role>>
  BY <1>2 DEF RemoveParticipant, FindRoom, FindTarget, At, ActorRole
<1>4. /\ req'[w].op = "remove_participant" /\ req'[w].stage = "target"
      /\ req'[w].conv = req[w].conv /\ req'[w].actor = req[w].actor
      /\ req'[w].actorRole = r
  <2>1. req'[w] = [req[w] EXCEPT !.stage = "target", !.actorRole = r]
    BY <1>1, <1>3 DEF TypeOK
  <2> QED BY <1>1, <2>1 DEF ManageRequest
<1>5. type[req[w].conv] = "room"
  BY <1>0 DEF StillSo, At
<1>6. ActorRole(w)' = r
  BY <1>2, <1>3, <1>4 DEF ActorRole
<1> QED BY <1>2, <1>3, <1>4, <1>5, <1>6 DEF StillSo, Past, Serving

(* The first UPDATE of a transfer finds the owner's row.                   *)
LEMMA DemoteSo ==
  ASSUME IInv, NEW w \in Workers, StillSo(w), Serving(w, "transfer_ownership"),
         RepoDemote(w)
  PROVE  StillSo(w)'
<1>0. "transfer_ownership" \in ManageOps \ {"update_role"}
  BY DEF ManageOps
<1>1. /\ TypeOK /\ req[w] \in ManageRequest /\ req[w].op = "transfer_ownership"
      /\ req[w].stage = "demote"
  BY <1>0, ManageFacts DEF IInv, RepoDemote, At
<1>2. /\ type[req[w].conv] = "room" /\ ActorRole(w) = "owner"
      /\ TargetRole(w) \in {"admin", "member"}
  BY <1>0, <1>1 DEF StillSo, Past, At
<1> DEFINE taken == {req[w].actor} \cap Participants(req[w].conv)
<1>3. req[w].actor \in taken
  BY <1>1, <1>2, NullAssumption DEF ActorRole, Roles, Participants, ManageRequest
<1>4. /\ req' = [req EXCEPT ![w] = [req[w] EXCEPT !.stage = "promote", !.held = taken]]
      /\ UNCHANGED <<type, role>>
  BY DEF RepoDemote
<1> HIDE DEF taken
<1>5. req'[w] = [req[w] EXCEPT !.stage = "promote", !.held = taken]
  BY <1>1, <1>4 DEF TypeOK
<1>6. /\ req'[w].op = "transfer_ownership" /\ req'[w].stage = "promote"
      /\ req'[w].conv = req[w].conv /\ req'[w].actor = req[w].actor
      /\ req'[w].target = req[w].target /\ req'[w].actor \in req'[w].held
  BY <1>1, <1>3, <1>5 DEF ManageRequest
<1>7. ActorRole(w)' = ActorRole(w) /\ TargetRole(w)' = TargetRole(w)
  BY <1>4, <1>6 DEF ActorRole, TargetRole
<1> QED BY <1>2, <1>4, <1>6, <1>7 DEF StillSo, Past, Serving

(* A deletion goes on as the owner's.                                      *)
LEMMA CascadeSo ==
  ASSUME IInv, NEW w \in Workers, StillSo(w), Serving(w, "delete_room"),
         CascadeMoves(w), At(w, "write") \/ At(w, "cascade")
  PROVE  StillSo(w)'
<1>0. "delete_room" \in ManageOps \ {"update_role"}
  BY DEF ManageOps
<1>1. TypeOK /\ req[w] \in ManageRequest /\ req[w].op = "delete_room"
  BY <1>0, ManageFacts DEF IInv, Serving
<1>2. type[req[w].conv] = "room" /\ ActorRole(w) = "owner"
  BY <1>0, <1>1 DEF StillSo, Past, At
<1>3. PICK u \in Users, gone \in SUBSET Users :
        req' = [req EXCEPT ![w] = [req[w] EXCEPT !.stage = "cascade", !.target = u,
                                                 !.held = gone]]
  BY DEF CascadeMoves
<1>4. UNCHANGED <<type, role>>
  BY DEF CascadeMoves
<1>5. req'[w] = [req[w] EXCEPT !.stage = "cascade", !.target = u, !.held = gone]
  BY <1>1, <1>3 DEF TypeOK
<1>6. /\ req'[w].op = "delete_room" /\ req'[w].stage = "cascade"
      /\ req'[w].conv = req[w].conv /\ req'[w].actor = req[w].actor
  BY <1>1, <1>5 DEF ManageRequest
<1>7. ActorRole(w)' = ActorRole(w)
  BY <1>4, <1>6 DEF ActorRole
<1> QED BY <1>2, <1>4, <1>6, <1>7 DEF StillSo, Past, Serving

(* Served alone, a request never acts on what is no longer so.             *)
LEMMA ServeSo ==
  ASSUME IInv, NEW w \in Workers, StillSo(w), Receive(w) \/ Serve(w) \/ Fail(w)
  PROVE  StillSo(w)'
<1> USE DEF ManageOps
<1>1. CASE Receive(w)
  BY <1>1, ReceiveSo
<1>2. CASE Finish(w)
  BY <1>2, EndedSo
<1>3. CASE CreateRoom(w) \/ Fail(w)
  BY <1>2, <1>3 DEF CreateRoom, Fail
<1>4. CASE CreateDirect(w)
  <2>1. CASE req'[w] = NoRequest
    BY <2>1 DEF StillSo, Past, Serving
  <2>2. CASE req'[w].op = "create_direct"
    BY <2>2 DEF StillSo, Past, Serving
  <2>3. OwnRequest(w)
    BY <1>4, ServeSame DEF Serve
  <2> QED BY <1>4, <2>1, <2>2, <2>3 DEF OwnRequest, SameRequest, CreateDirect, Serving
<1>5. CASE AddRoomParticipant(w)
  BY <1>2, <1>5, FindRoomSo, FindActorSo DEF AddRoomParticipant
<1>6. CASE UpdateParticipantRole(w)
  BY <1>2, <1>6, FindActorSo, FindTargetSo DEF UpdateParticipantRole
<1>7. CASE RemoveParticipant(w)
  <2>1. CASE At(w, "actor") /\ ActorRole(w) \in {"owner", "admin"}
    BY <1>7, <2>1, RemoverSo
  <2>2. CASE ~(At(w, "actor") /\ ActorRole(w) \in {"owner", "admin"})
    BY <1>2, <1>7, <2>2, FindRoomSo, FindTargetSo DEF RemoveParticipant, ActorRole
  <2> QED BY <2>1, <2>2
<1>8. CASE LeaveRoom(w)
  BY <1>2, <1>8, FindRoomSo, FindActorSo DEF LeaveRoom
<1>9. CASE TransferOwnership(w)
  <2>1. RepoPromote(w) => Finish(w)
    BY DEF RepoPromote, Rollback
  <2> QED BY <1>2, <1>9, <2>1, FindRoomSo, FindActorSo, FindTargetSo, DemoteSo
          DEF TransferOwnership
<1>10. CASE UpdateRoomName(w)
  BY <1>2, <1>10, FindRoomSo, FindActorSo DEF UpdateRoomName
<1>11. CASE DeleteRoom(w)
  <2>1. CASE RepoDeleteConversation(w)
    <3>1. TypeOK /\ Serving(w, "delete_room") /\ (At(w, "write") \/ At(w, "cascade"))
      BY <1>11, <2>1 DEF IInv, DeleteRoom, RepoDeleteConversation
    <3> QED BY <1>2, <2>1, <3>1, DeleteMoves, CascadeSo DEF CascadeCommits
  <2> QED BY <1>11, <2>1, FindRoomSo, FindActorSo DEF DeleteRoom
<1> QED BY <1>1, <1>3, <1>4, <1>5, <1>6, <1>7, <1>8, <1>9, <1>10, <1>11 DEF Serve
-----------------------------------------------------------------------------
(* A step of the service as the specification of rooms sees it.            *)
KeepsPromise == [Promise!Next]_(Promise!vars)

(* The people of a room by the roles in its rows.                          *)
LEMMA RoomView ==
  ASSUME OneOwner, NEW c \in ConvIDs, type[c] = "room"
  PROVE  /\ RoomStatus[c] = "open" /\ RoomOwner[c] \in Users
         /\ \A u \in Users : /\ u = RoomOwner[c] <=> role[c][u] = "owner"
                             /\ u \in RoomAdmins[c] <=> role[c][u] = "admin"
                             /\ u \in RoomMembers[c] <=> role[c][u] = "member"
<1>1. PICK o \in Users : Holders(role[c], "owner") = {o}
  BY DEF OneOwner, Owners, Holders
<1>2. OneOf({o}) = o
  BY DEF OneOf
<1>3. RoomOwner[c] = o
  BY <1>1, <1>2 DEF RoomOwner
<1> QED BY <1>1, <1>3 DEF Holders, RoomStatus, RoomAdmins, RoomMembers

(* Who acts, when one worker serves: the user of its request.              *)
LEMMA ActingIs ==
  ASSUME NEW w, Workers = {w}
  PROVE  /\ req[w] = NoRequest => Acting = Nobody
         /\ req[w] # NoRequest => Acting = req[w].actor
         /\ req'[w] = NoRequest => Acting' = Nobody
         /\ req'[w] # NoRequest => Acting' = req'[w].actor
<1>1. ASSUME NEW B \in SUBSET Workers, B # {}
      PROVE  (CHOOSE v \in Workers : v \in B) = w
  BY <1>1
<1>2. Busy \in SUBSET Workers /\ Busy' \in SUBSET Workers
  BY DEF Busy
<1>3. /\ Busy = {} <=> req[w] = NoRequest
      /\ Busy' = {} <=> req'[w] = NoRequest
  BY DEF Busy
<1>4. req[w] # NoRequest => (CHOOSE v \in Workers : v \in Busy) = w
  BY <1>1, <1>2, <1>3
<1>5. req'[w] # NoRequest => (CHOOSE v \in Workers : v \in Busy') = w
  BY <1>1, <1>2, <1>3
<1> QED BY <1>3, <1>4, <1>5 DEF Acting

(* A request under way is somebody's.                                      *)
LEMMA SomebodyActs ==
  ASSUME IInv, NEW w, Workers = {w}, req[w] # NoRequest
  PROVE  Acting = req[w].actor /\ Acting \in Users /\ Acting # Nobody
<1>1. req[w].actor \in Users
  BY DEF IInv, TypeOK, Request, ManageRequest, CreateRequest
<1> QED BY <1>1, ActingIs, NobodyAssumption

(* A step that changes no room is the arrival of a request, its refusal or *)
(* nothing.                                                                *)
LEMMA QuietStep ==
  ASSUME IInv, IInv', NEW w, Workers = {w}, Receive(w) \/ Serve(w) \/ Fail(w),
         UNCHANGED <<RoomStatus, RoomOwner, RoomAdmins, RoomMembers>>
  PROVE  KeepsPromise
<1>0. w \in Workers /\ TypeOK
  BY DEF IInv
<1>1. UNCHANGED Promise!rooms
  BY DEF Promise!rooms
<1>2. CASE Acting' = Acting
  BY <1>1, <1>2 DEF KeepsPromise, Promise!vars
<1>3. CASE Acting # Nobody /\ Acting' = Nobody
  BY <1>1, <1>3 DEF KeepsPromise, Promise!Next, Promise!Refuse
<1>4. CASE Acting = Nobody /\ Acting' \in Users
  BY <1>1, <1>4 DEF KeepsPromise, Promise!Next, Promise!Ask
<1>5. req'[w] # NoRequest => Acting' \in Users
  <2>1. req'[w] # NoRequest => req'[w].actor \in Users
    BY <1>0 DEF IInv, TypeOK, Request, ManageRequest, CreateRequest
  <2> QED BY <2>1, ActingIs
<1>6. CASE req[w] = NoRequest
  BY <1>2, <1>4, <1>5, <1>6, ActingIs
<1>7. CASE req[w] # NoRequest /\ req'[w] = NoRequest
  BY <1>3, <1>7, ActingIs, SomebodyActs
<1>8. CASE req[w] # NoRequest /\ req'[w] # NoRequest
  <2>1. ~Receive(w) /\ ~Fail(w)
    BY <1>0, <1>8, FinishFields DEF Receive, Fail
  <2>2. SameRequest(w)
    BY <1>0, <1>8, <2>1, ServeSame DEF OwnRequest
  <2> QED BY <1>2, <1>8, <2>2, ActingIs DEF SameRequest
<1> QED BY <1>6, <1>7, <1>8

(* Rooms are unchanged when the types and the rows are.                    *)
LEMMA SameRows ==
  ASSUME UNCHANGED <<type, role>>
  PROVE  UNCHANGED <<RoomStatus, RoomOwner, RoomAdmins, RoomMembers>>
BY DEF RoomStatus, RoomOwner, RoomAdmins, RoomMembers

(* A write that ends a request is one atomic operation on a room.          *)
LEMMA Granted ==
  ASSUME IInv, NEW w, Workers = {w}, req[w] # NoRequest, Finish(w), NEW c \in ConvIDs,
         \/ Promise!Found(c) \/ Promise!Disband(c)
         \/ \E u \in Users : \/ Promise!Join(c, u) \/ Promise!Appoint(c, u)
                             \/ Promise!Dismiss(c, u) \/ Promise!Depart(c, u)
                             \/ Promise!HandOver(c, u)
  PROVE  KeepsPromise
<1>1. Acting # Nobody /\ Acting' = Nobody
  BY SomebodyActs, ActingIs, FinishFields DEF IInv
<1> QED BY <1>1 DEF KeepsPromise, Promise!Next, Promise!Grant

(* The row of somebody who is not the owner is written: only the sets of   *)
(* the room's admins and members change.                                   *)
LEMMA RowStep ==
  ASSUME IInv, NEW c \in ConvIDs, NEW u \in Users, NEW r \in {"admin", "member", NoRole},
         type[c] = "room", type' = type, SetRole(c, u, r), role[c][u] # "owner"
  PROVE  /\ UNCHANGED <<RoomStatus, RoomOwner>>
         /\ RoomAdmins' = [RoomAdmins EXCEPT ![c] =
                             IF r = "admin" THEN @ \cup {u} ELSE @ \ {u}]
         /\ RoomMembers' = [RoomMembers EXCEPT ![c] =
                             IF r = "member" THEN @ \cup {u} ELSE @ \ {u}]
<1>0. TypeOK
  BY DEF IInv
<1>1. /\ \A d \in ConvIDs \ {c} : role'[d] = role[d]
      /\ \A x \in Users : role'[c][x] = IF x = u THEN r ELSE role[c][x]
  BY <1>0 DEF SetRole, TypeOK
<1>2. r # "owner" /\ NoRole \notin {"admin", "member"}
  BY NullAssumption DEF Roles
<1>3. Holders(role'[c], "owner") = Holders(role[c], "owner")
  BY <1>1, <1>2 DEF Holders
<1>4. \A d \in ConvIDs : OneOf(Holders(role'[d], "owner")) = OneOf(Holders(role[d], "owner"))
  BY <1>1, <1>3
<1>5. UNCHANGED <<RoomStatus, RoomOwner>>
  BY <1>4 DEF RoomStatus, RoomOwner
<1>6. /\ Holders(role'[c], "admin") =
           IF r = "admin" THEN Holders(role[c], "admin") \cup {u}
           ELSE Holders(role[c], "admin") \ {u}
      /\ Holders(role'[c], "member") =
           IF r = "member" THEN Holders(role[c], "member") \cup {u}
           ELSE Holders(role[c], "member") \ {u}
  BY <1>1, <1>2 DEF Holders
<1>7. RoomAdmins' = [RoomAdmins EXCEPT ![c] =
                       IF r = "admin" THEN @ \cup {u} ELSE @ \ {u}]
  BY <1>1, <1>6 DEF RoomAdmins
<1>8. RoomMembers' = [RoomMembers EXCEPT ![c] =
                        IF r = "member" THEN @ \cup {u} ELSE @ \ {u}]
  BY <1>1, <1>6 DEF RoomMembers
<1> QED BY <1>5, <1>7, <1>8
-----------------------------------------------------------------------------
(* What the steps of one request served alone can rely on.                 *)
ServedAlone(w) == /\ Workers = {w} /\ IInv /\ IInv' /\ OneOwner /\ OneOwner'
                  /\ StillSo(w)

(* AddRoomParticipant lets a new member in, or finds them in the room.     *)
LEMMA AddKeeps ==
  ASSUME NEW w, ServedAlone(w), AddRoomParticipant(w)
  PROVE  KeepsPromise
<1> DEFINE c == req[w].conv
           a == req[w].actor
           u == req[w].target
<1>0. w \in Workers /\ IInv /\ Serving(w, "add_participant") /\ "add_participant" \in ManageOps
  BY DEF ServedAlone, AddRoomParticipant, ManageOps
<1>1. c \in ConvIDs /\ a \in Users /\ u \in Users /\ req[w] # NoRequest
  BY <1>0, ManageFacts
<1>2. CASE UNCHANGED <<type, role>>
  BY <1>0, <1>2, QuietStep, SameRows DEF ServedAlone, Serve
<1>3. CASE /\ At(w, "write") /\ type' = type /\ role[c][u] = NoRole
           /\ SetRole(c, u, "member") /\ Finish(w)
  <2>1. type[c] = "room" /\ role[c][a] \in {"owner", "admin"}
    BY <1>0, <1>3 DEF ServedAlone, StillSo, Past, At, ActorRole
  <2>2. role[c][u] \notin Roles
    BY <1>3, NullAssumption
  <2>3. /\ UNCHANGED <<RoomStatus, RoomOwner>>
        /\ RoomAdmins' = [RoomAdmins EXCEPT ![c] = @ \ {u}]
        /\ RoomMembers' = [RoomMembers EXCEPT ![c] = @ \cup {u}]
    BY <1>0, <1>1, <1>3, <2>1, <2>2, RowStep DEF Roles
  <2>4. u # RoomOwner[c] /\ u \notin RoomAdmins[c] /\ u \notin RoomMembers[c]
    BY <1>1, <2>1, <2>2, RoomView DEF ServedAlone, Roles
  <2>5. RoomAdmins' = RoomAdmins
    <3>1. RoomAdmins[c] \ {u} = RoomAdmins[c]
      BY <2>4
    <3> QED BY <2>3, <3>1 DEF RoomAdmins
  <2>6. a = RoomOwner[c] \/ a \in RoomAdmins[c]
    BY <1>1, <2>1, RoomView DEF ServedAlone
  <2>7. Acting = a
    BY <1>0, <1>1, SomebodyActs DEF ServedAlone
  <2>8. Promise!Join(c, u)
    BY <2>3, <2>4, <2>5, <2>6, <2>7 DEF Promise!Join, Promise!Present
  <2> QED BY <1>0, <1>1, <1>3, <2>8, Granted DEF ServedAlone
<1>4. CASE /\ At(w, "write") /\ RepoAddParticipant(c, u, "member") /\ Finish(w)
  BY <1>2, <1>3, <1>4 DEF RepoAddParticipant
<1> QED BY <1>2, <1>4 DEF AddRoomParticipant, FindRoom, FindActor, Check

(* UpdateParticipantRole: the owner of a room appoints or dismisses an     *)
(* admin; in a direct conversation it changes no room.                     *)
LEMMA UpdateKeeps ==
  ASSUME NEW w, ServedAlone(w), UpdateParticipantRole(w)
  PROVE  KeepsPromise
<1> DEFINE c == req[w].conv
           a == req[w].actor
           u == req[w].target
<1>0. w \in Workers /\ IInv /\ Serving(w, "update_role") /\ "update_role" \in ManageOps
  BY DEF ServedAlone, UpdateParticipantRole, ManageOps
<1>1. /\ c \in ConvIDs /\ a \in Users /\ u \in Users /\ req[w] # NoRequest
      /\ req[w].newRole \in {"admin", "member"}
  BY <1>0, ManageFacts
<1> PICK r \in {"admin", "member"} : r = req[w].newRole
  BY <1>1
<1>2. CASE UNCHANGED <<type, role>>
  BY <1>0, <1>2, QuietStep, SameRows DEF ServedAlone, Serve
<1>3. CASE At(w, "write") /\ type' = type /\ SetRole(c, u, r) /\ Finish(w)
  <2>1. role[c][a] = "owner" /\ role[c][u] \in {"admin", "member"}
    BY <1>0, <1>3 DEF ServedAlone, StillSo, Past, At, ActorRole, TargetRole
  <2>2. CASE type[c] # "room"
    <3>1. /\ UNCHANGED <<RoomStatus, RoomOwner, RoomAdmins, RoomMembers>>
      BY <1>0, <1>1, <1>3, <2>2
         DEF SetRole, IInv, TypeOK, RoomStatus, RoomOwner, RoomAdmins, RoomMembers
    <3> QED BY <1>0, <3>1, QuietStep DEF ServedAlone, Serve
  <2>3. CASE type[c] = "room"
    <3>1. /\ UNCHANGED <<RoomStatus, RoomOwner>>
          /\ RoomAdmins' = [RoomAdmins EXCEPT ![c] =
                              IF r = "admin" THEN @ \cup {u} ELSE @ \ {u}]
          /\ RoomMembers' = [RoomMembers EXCEPT ![c] =
                              IF r = "member" THEN @ \cup {u} ELSE @ \ {u}]
      <4>1. r \in {"admin", "member", NoRole} /\ role[c][u] # "owner"
        BY <2>1
      <4>2. c \in ConvIDs /\ u \in Users /\ type' = type /\ SetRole(c, u, r)
        BY <1>1, <1>3
      <4> HIDE DEF c, u
      <4> QED BY <1>0, <2>3, <4>1, <4>2, RowStep
    <3>2. /\ a = RoomOwner[c]
          /\ u \in RoomAdmins[c] <=> role[c][u] = "admin"
          /\ u \in RoomMembers[c] <=> role[c][u] = "member"
      BY <1>1, <2>1, <2>3, RoomView DEF ServedAlone
    <3>3. Acting = a
      BY <1>0, <1>1, SomebodyActs DEF ServedAlone
    <3>4. CASE role[c][u] = r
      <4>1. role' = role
        BY <1>0, <1>1, <1>3, <3>4 DEF SetRole, IInv, TypeOK
      <4> QED BY <1>2, <1>3, <4>1
    <3>5. CASE role[c][u] = "member" /\ r = "admin"
      <4>1. Promise!Appoint(c, u)
        BY <3>1, <3>2, <3>3, <3>5 DEF Promise!Appoint
      <4> QED BY <1>0, <1>1, <1>3, <4>1, Granted DEF ServedAlone
    <3>6. CASE role[c][u] = "admin" /\ r = "member"
      <4>1. Promise!Dismiss(c, u)
        BY <3>1, <3>2, <3>3, <3>6 DEF Promise!Dismiss
      <4> QED BY <1>0, <1>1, <1>3, <4>1, Granted DEF ServedAlone
    <3> QED BY <1>1, <2>1, <3>4, <3>5, <3>6
  <2> QED BY <2>2, <2>3
<1>4. CASE At(w, "write") /\ RepoUpdateParticipantRole(c, u, r) /\ Finish(w)
  BY <1>2, <1>3, <1>4 DEF RepoUpdateParticipantRole
<1> QED BY <1>2, <1>4 DEF UpdateParticipantRole, FindActor, FindTarget, Check

(* Who is below the owner goes: expelled by one who may, or by themselves. *)
LEMMA DepartStep ==
  ASSUME NEW w, ServedAlone(w), req[w] # NoRequest, Finish(w),
         NEW c \in ConvIDs, NEW u \in Users, type[c] = "room",
         RepoRemoveParticipant(c, u), role[c][u] \in {"admin", "member"},
         NEW a \in Users, a = req[w].actor,
         \/ role[c][a] = "owner"
         \/ role[c][a] = "admin" /\ role[c][u] = "member"
         \/ a = u
  PROVE  KeepsPromise
<1>0. IInv /\ role[c][u] # "owner" /\ type' = type /\ SetRole(c, u, NoRole)
  BY DEF ServedAlone, RepoRemoveParticipant
<1>1. NoRole \notin {"admin", "member"}
  BY NullAssumption DEF Roles
<1>2. /\ UNCHANGED <<RoomStatus, RoomOwner>>
      /\ RoomAdmins' = [RoomAdmins EXCEPT ![c] = @ \ {u}]
      /\ RoomMembers' = [RoomMembers EXCEPT ![c] = @ \ {u}]
  BY <1>0, <1>1, RowStep
<1>3. /\ u \in RoomAdmins[c] <=> role[c][u] = "admin"
      /\ u \in RoomMembers[c] <=> role[c][u] = "member"
      /\ a = RoomOwner[c] <=> role[c][a] = "owner"
      /\ a \in RoomAdmins[c] <=> role[c][a] = "admin"
  BY RoomView DEF ServedAlone
<1>4. Acting = a
  BY <1>0, SomebodyActs DEF ServedAlone
<1>5. Promise!Depart(c, u)
  BY <1>2, <1>3, <1>4 DEF Promise!Depart
<1> QED BY <1>0, <1>5, Granted DEF ServedAlone

(* RemoveParticipant expels whom the remover's role lets them expel.       *)
LEMMA RemoveKeeps ==
  ASSUME NEW w, ServedAlone(w), RemoveParticipant(w)
  PROVE  KeepsPromise
<1> DEFINE c == req[w].conv
           a == req[w].actor
           u == req[w].target
<1>0. /\ w \in Workers /\ IInv /\ Serving(w, "remove_participant")
      /\ "remove_participant" \in ManageOps \ {"update_role"}
  BY DEF ServedAlone, RemoveParticipant, ManageOps
<1>1. c \in ConvIDs /\ a \in Users /\ u \in Users /\ req[w] # NoRequest
  BY <1>0, ManageFacts
<1>2. CASE UNCHANGED <<type, role>>
  BY <1>0, <1>2, QuietStep, SameRows DEF ServedAlone, Serve
<1>3. CASE At(w, "write") /\ RepoRemoveParticipant(c, u) /\ Finish(w)
  <2>1. /\ type[c] = "room" /\ role[c][a] \in {"owner", "admin"}
        /\ role[c][u] \in Removable(role[c][a])
    BY <1>0, <1>3 DEF ServedAlone, StillSo, Past, At, ActorRole, TargetRole
  <2> QED BY <1>0, <1>1, <1>3, <2>1, DepartStep DEF Removable
<1> QED BY <1>2, <1>3 DEF RemoveParticipant, FindRoom, FindTarget, Check

(* LeaveRoom: everybody but the owner may go.                              *)
LEMMA LeaveKeeps ==
  ASSUME NEW w, ServedAlone(w), LeaveRoom(w)
  PROVE  KeepsPromise
<1> DEFINE c == req[w].conv
           a == req[w].actor
           u == req[w].target
<1>0. /\ w \in Workers /\ IInv /\ Serving(w, "leave_room")
      /\ "leave_room" \in ManageOps \ {"update_role"}
  BY DEF ServedAlone, LeaveRoom, ManageOps
<1>1. c \in ConvIDs /\ a \in Users /\ u = a /\ req[w] # NoRequest
  BY <1>0, ManageFacts DEF IInv, Established
<1>2. CASE UNCHANGED <<type, role>>
  BY <1>0, <1>2, QuietStep, SameRows DEF ServedAlone, Serve
<1>3. CASE At(w, "write") /\ RepoRemoveParticipant(c, u) /\ Finish(w)
  <2>1. type[c] = "room" /\ role[c][a] \in {"admin", "member"}
    BY <1>0, <1>3 DEF ServedAlone, StillSo, Past, At, ActorRole
  <2> QED BY <1>0, <1>1, <1>3, <2>1, DepartStep
<1> QED BY <1>2, <1>3 DEF LeaveRoom, FindRoom, FindActor, Check
(* CreateRoom: a user founds a room and owns it.                           *)
LEMMA FoundKeeps ==
  ASSUME NEW w, ServedAlone(w), CreateRoom(w)
  PROVE  KeepsPromise
<1>0. w \in Workers /\ IInv /\ TypeOK /\ Serving(w, "create_room") /\ Finish(w)
  BY DEF ServedAlone, CreateRoom, IInv
<1>1. req[w] # NoRequest /\ req[w].actor \in Users
  BY <1>0, RequestKinds DEF CreateRequest, CreateOps, Serving
<1> PICK a \in Users : a = req[w].actor
  BY <1>1
<1> DEFINE roles == [u \in Users |-> IF u = a THEN "owner" ELSE NoRole]
<1>2. PICK c \in ConvIDs :
        /\ type[c] = "unused" /\ type' = [type EXCEPT ![c] = "room"]
        /\ role' = [role EXCEPT ![c] = roles]
  BY DEF CreateRoom, RepoCreate
<1>3. /\ Holders(roles, "owner") = {a} /\ Holders(roles, "admin") = {}
      /\ Holders(roles, "member") = {}
  BY NullAssumption DEF Holders, Roles
<1>4. OneOf({a}) = a
  BY DEF OneOf
<1> HIDE DEF roles
<1>5. /\ type'[c] = "room" /\ role'[c] = roles
      /\ \A d \in ConvIDs \ {c} : type'[d] = type[d] /\ role'[d] = role[d]
  BY <1>0, <1>2 DEF TypeOK
<1>6. RoomStatus[c] = "none" /\ RoomStatus' = [RoomStatus EXCEPT ![c] = "open"]
  BY <1>2, <1>5 DEF RoomStatus
<1>7. RoomOwner' = [RoomOwner EXCEPT ![c] = a]
  BY <1>3, <1>4, <1>5 DEF RoomOwner
<1>8. RoomAdmins' = RoomAdmins /\ RoomMembers' = RoomMembers
  BY <1>2, <1>3, <1>5 DEF RoomAdmins, RoomMembers
<1>9. Acting = a
  BY <1>0, <1>1, SomebodyActs DEF ServedAlone
<1>10. Promise!Found(c)
  BY <1>6, <1>7, <1>8, <1>9 DEF Promise!Found
<1> QED BY <1>0, <1>1, <1>10, Granted DEF ServedAlone

(* CreateDirect changes no room.                                           *)
LEMMA DirectKeeps ==
  ASSUME NEW w, ServedAlone(w), CreateDirect(w)
  PROVE  KeepsPromise
<1>0. w \in Workers /\ IInv /\ TypeOK
  BY DEF ServedAlone, IInv
<1>1. CASE UNCHANGED <<type, role>>
  BY <1>0, <1>1, QuietStep, SameRows DEF ServedAlone, Serve
<1>2. ASSUME NEW c \in ConvIDs, NEW n, NEW roles, RepoCreate(c, "direct", n, roles)
      PROVE  KeepsPromise
  <2>1. /\ type[c] = "unused" /\ type'[c] = "direct"
        /\ \A d \in ConvIDs \ {c} : type'[d] = type[d] /\ role'[d] = role[d]
    BY <1>0, <1>2 DEF RepoCreate, TypeOK
  <2>2. UNCHANGED RoomStatus
    BY <2>1 DEF RoomStatus
  <2>3. UNCHANGED <<RoomOwner, RoomAdmins, RoomMembers>>
    BY <2>1 DEF RoomOwner, RoomAdmins, RoomMembers
  <2> QED BY <1>0, <2>2, <2>3, QuietStep DEF ServedAlone, Serve
<1> QED BY <1>1, <1>2 DEF CreateDirect, Check

(* DeleteRoom: the owner disbands the room.                                *)
LEMMA DeleteKeeps ==
  ASSUME NEW w, ServedAlone(w), DeleteRoom(w)
  PROVE  KeepsPromise
<1>0. /\ w \in Workers /\ IInv /\ TypeOK /\ Serving(w, "delete_room")
      /\ "delete_room" \in ManageOps \ {"update_role"}
  BY DEF ServedAlone, DeleteRoom, ManageOps, IInv
<1>1. req[w].conv \in ConvIDs /\ req[w].actor \in Users /\ req[w] # NoRequest
  BY <1>0, ManageFacts
<1>2. CASE UNCHANGED <<type, role>>
  BY <1>0, <1>2, QuietStep, SameRows DEF ServedAlone, Serve
<1>3. CASE CascadeCommits(w)
  <2> PICK c \in ConvIDs, a \in Users : c = req[w].conv /\ a = req[w].actor
    BY <1>1
  <2>1. type[c] = "room" /\ role[c][a] = "owner"
    BY <1>0, <1>3 DEF ServedAlone, StillSo, Past, At, ActorRole, CascadeCommits
  <2>2. /\ type'[c] = "deleted"
        /\ \A d \in ConvIDs \ {c} : type'[d] = type[d] /\ role'[d] = role[d]
    BY <1>0, <1>3 DEF CascadeCommits, Removed, TypeOK
  <2>3. RoomStatus' = [RoomStatus EXCEPT ![c] = "disbanded"]
    BY <2>2 DEF RoomStatus
  <2>4. /\ RoomOwner' = [RoomOwner EXCEPT ![c] = Nobody]
        /\ RoomAdmins' = [RoomAdmins EXCEPT ![c] = {}]
        /\ RoomMembers' = [RoomMembers EXCEPT ![c] = {}]
    BY <2>2 DEF RoomOwner, RoomAdmins, RoomMembers
  <2>5. Acting = a /\ a = RoomOwner[c]
    BY <1>0, <1>1, <2>1, SomebodyActs, RoomView DEF ServedAlone
  <2>6. Promise!Disband(c)
    BY <2>3, <2>4, <2>5 DEF Promise!Disband
  <2> QED BY <1>0, <1>1, <1>3, <2>6, Granted DEF ServedAlone, CascadeCommits
<1>4. CASE RepoDeleteConversation(w)
  BY <1>0, <1>2, <1>3, <1>4, DeleteMoves DEF CascadeMoves
<1> QED BY <1>2, <1>4 DEF DeleteRoom, FindRoom, FindActor, Check

(* TransferOwnership: the owner hands the room over to somebody in it, and *)
(* stays as an admin.                                                      *)
LEMMA TransferKeeps ==
  ASSUME NEW w, ServedAlone(w), TransferOwnership(w)
  PROVE  KeepsPromise
<1>0. /\ w \in Workers /\ IInv /\ TypeOK /\ Serving(w, "transfer_ownership")
      /\ "transfer_ownership" \in ManageOps \ {"update_role"}
  BY DEF ServedAlone, TransferOwnership, ManageOps, IInv
<1>1. /\ req[w].conv \in ConvIDs /\ req[w].actor \in Users /\ req[w].target \in Users
      /\ req[w] # NoRequest
  BY <1>0, ManageFacts
<1>2. CASE UNCHANGED <<type, role>>
  BY <1>0, <1>2, QuietStep, SameRows DEF ServedAlone, Serve
<1>3. CASE RepoPromote(w)
  <2> PICK c \in ConvIDs, a \in Users, u \in Users :
        c = req[w].conv /\ a = req[w].actor /\ u = req[w].target
    BY <1>1
  <2>1. /\ type[c] = "room" /\ role[c][a] = "owner"
        /\ role[c][u] \in {"admin", "member"} /\ a \in req[w].held
    BY <1>0, <1>3
       DEF ServedAlone, StillSo, Past, RepoPromote, At, ActorRole, TargetRole
  <2>2. role[c][u] # NoRole
    BY <2>1, NullAssumption DEF Roles
  <2>3. /\ role' = [role EXCEPT ![c] = [role[c] EXCEPT ![a] = "admin", ![u] = "owner"]]
        /\ Finish(w) /\ type' = type
    BY <1>3, <2>1, <2>2 DEF RepoPromote
  <2>4. /\ \A d \in ConvIDs \ {c} : role'[d] = role[d]
        /\ \A x \in Users : role'[c][x] = IF x = u THEN "owner"
                                          ELSE IF x = a THEN "admin" ELSE role[c][x]
    BY <1>0, <2>3 DEF TypeOK
  <2>5. /\ a = RoomOwner[c] /\ u # a
        /\ \A x \in Users : x = a <=> role[c][x] = "owner"
        /\ u \in RoomAdmins[c] \cup RoomMembers[c]
    BY <2>1, RoomView DEF ServedAlone
  <2>6. /\ Holders(role'[c], "owner") = {u}
        /\ Holders(role'[c], "admin") = (Holders(role[c], "admin") \ {u}) \cup {a}
        /\ Holders(role'[c], "member") = Holders(role[c], "member") \ {u}
    BY <2>4, <2>5 DEF Holders
  <2>7. OneOf({u}) = u /\ type' = type /\ type[c] = "room"
    BY <2>1, <2>3 DEF OneOf
  <2>8. \A d \in ConvIDs \ {c} : role'[d] = role[d]
    BY <2>4
  <2>9. RoomStatus' = RoomStatus
    BY <2>7 DEF RoomStatus
  <2>10. RoomOwner' = [RoomOwner EXCEPT ![c] = u]
    BY <2>6, <2>7, <2>8 DEF RoomOwner
  <2>11. RoomAdmins' = [RoomAdmins EXCEPT ![c] = (@ \ {u}) \cup {a}]
    BY <2>6, <2>7, <2>8 DEF RoomAdmins
  <2>12. RoomMembers' = [RoomMembers EXCEPT ![c] = @ \ {u}]
    BY <2>6, <2>7, <2>8 DEF RoomMembers
  <2>13. Acting = a
    BY <1>0, <1>1, SomebodyActs DEF ServedAlone
  <2>14. Promise!HandOver(c, u)
    BY <2>5, <2>9, <2>10, <2>11, <2>12, <2>13 DEF Promise!HandOver
  <2> QED BY <1>0, <1>1, <2>3, <2>14, Granted DEF ServedAlone
<1> QED BY <1>2, <1>3
        DEF TransferOwnership, FindRoom, FindActor, FindTarget, Check, RepoDemote

(* Every step of the service, one request at a time, is one of the         *)
(* specification of rooms, or invisible to it.                             *)
LEMMA StepKeeps ==
  ASSUME NEW w, ServedAlone(w), [Next]_vars
  PROVE  KeepsPromise
<1>0. Workers = {w} /\ IInv /\ IInv'
  BY DEF ServedAlone
<1>1. CASE UNCHANGED <<type, role>> /\ (Receive(w) \/ Serve(w) \/ Fail(w))
  BY <1>0, <1>1, QuietStep, SameRows
<1>2. CASE Receive(w) \/ Fail(w)
  BY <1>1, <1>2 DEF Receive, Fail
<1>3. CASE UpdateRoomName(w)
  <2>1. UNCHANGED <<type, role>>
    BY <1>3 DEF UpdateRoomName, FindRoom, FindActor, Check, RepoUpdateRoomName
  <2> QED BY <1>1, <1>3, <2>1 DEF Serve
<1>4. CASE Serve(w)
  BY <1>3, <1>4, FoundKeeps, DirectKeeps, AddKeeps, UpdateKeeps, RemoveKeeps,
     LeaveKeeps, TransferKeeps, DeleteKeeps DEF Serve
<1>5. CASE UNCHANGED vars
  <2>1. UNCHANGED <<type, role, req>>
    BY <1>5 DEF vars
  <2>2. UNCHANGED <<RoomStatus, RoomOwner, RoomAdmins, RoomMembers>>
    BY <2>1, SameRows
  <2>3. UNCHANGED Acting
    BY <1>0, <2>1, ActingIs
  <2> QED BY <2>2, <2>3 DEF KeepsPromise, Promise!vars, Promise!rooms
<1> QED BY <1>0, <1>2, <1>4, <1>5 DEF Next

(* The service starts as the specification does: nobody asks, no rooms.    *)
LEMMA InitKeeps ==
  ASSUME NEW w, Workers = {w}, Init
  PROVE  Promise!Init
<1>1. Acting = Nobody
  BY ActingIs DEF Init
<1>2. RoomStatus = [c \in ConvIDs |-> "none"]
  BY DEF Init, RoomStatus
<1>3. /\ RoomOwner = [c \in ConvIDs |-> Nobody]
      /\ RoomAdmins = [c \in ConvIDs |-> {}]
      /\ RoomMembers = [c \in ConvIDs |-> {}]
  BY DEF Init, RoomOwner, RoomAdmins, RoomMembers
<1> QED BY <1>1, <1>2, <1>3 DEF Promise!Init

(* Served one at a time, requests do to rooms exactly what the README      *)
(* promises: the service implements RoomRoles.                             *)
THEOREM ServiceImplementsRoomRoles ==
  ASSUME NEW w0, Workers = {w0}
  PROVE  Spec => RoomsKeepTheirPromise
<1>1. Init => StillSo(w0) /\ Promise!Init
  BY InitKeeps DEF Init, StillSo, Past, Serving
<1>2. IInv /\ StillSo(w0) /\ [Next]_vars => StillSo(w0)'
  <2> SUFFICES ASSUME IInv, StillSo(w0), [Next]_vars PROVE StillSo(w0)'
    OBVIOUS
  <2>1. CASE UNCHANGED vars
    BY <2>1 DEF vars, StillSo, Past, Serving, At, ActorRole, TargetRole
  <2> QED BY <2>1, ServeSo DEF Next
<1>3. IInv /\ IInv' /\ OneOwner /\ OneOwner' /\ StillSo(w0) /\ [Next]_vars
        => [Promise!Next]_(Promise!vars)
  BY StepKeeps DEF ServedAlone, KeepsPromise
<1>4. Spec => []OneOwner
  BY OneOwnerSerially
<1> QED BY <1>1, <1>2, <1>3, <1>4, InitInv, NextInv, PTL
        DEF Spec, RoomsKeepTheirPromise, Promise!Spec

-----------------------------------------------------------------------------
(* Waiting.  R is a relation in which every member of a finite set T has a *)
(* successor in T: then some of them form a ring.  The smallest set closed *)
(* under successors is one, for without a member that nobody in it leads   *)
(* to it would be closed still.                                            *)
LEMMA RingAmong ==
  ASSUME NEW T, IsFiniteSet(T), T # {}, NEW R,
         \A x \in T : \E y \in T : <<x, y>> \in R
  PROVE  \E C \in SUBSET T :
           C # {} /\ \A v \in C : \E x, y \in C : <<x, v>> \in R /\ <<v, y>> \in R
<1> DEFINE Closed == {C \in SUBSET T : C # {} /\ \A x \in C : \E y \in C : <<x, y>> \in R}
           Less   == StrictSubsetOrdering(T)
<1>1. IsWellFoundedOn(Less, SUBSET T)
  BY FS_StrictSubsetOrderingWellFounded, FS_FiniteSubsetsOfFinite
<1>2. Closed \subseteq SUBSET T /\ T \in Closed
  OBVIOUS
<1>3. PICK C \in Closed : \A D \in Closed : ~(<<D, C>> \in Less)
  <2> HIDE DEF Closed, Less
  <2> QED BY <1>1, <1>2, WFMin
<1>4. ASSUME NEW D \in Closed, D \subseteq C PROVE D = C
  <2>1. D \in SUBSET T /\ C \in SUBSET T
    OBVIOUS
  <2> QED BY <1>3, <1>4, <2>1 DEF StrictSubsetOrdering
<1>5. ASSUME NEW v \in C PROVE \E x \in C : <<x, v>> \in R
  <2> SUFFICES ASSUME \A x \in C : <<x, v>> \notin R PROVE FALSE
    OBVIOUS
  <2>1. PICK y \in C : <<v, y>> \in R
    OBVIOUS
  <2>2. C \ {v} \in Closed
    BY <2>1
  <2> QED BY <1>4, <2>2
<1> QED BY <1>5

(* What a request holds it does not have to write any more: a transfer the  *)
(* row of its actor, a deletion those its cascade has passed.              *)
HoldsOwn(w) ==
  req[w] # NoRequest /\ req[w].op \in ManageOps =>
    /\ req[w].held # {} =>
         \/ /\ req[w].op = "transfer_ownership" /\ req[w].stage = "promote"
            /\ req[w].held = {req[w].actor}
         \/ req[w].op = "delete_room" /\ req[w].stage = "cascade"
    /\ req[w].stage = "cascade" => req[w].target \notin req[w].held

(* Only conversations that are there have rows; a row that is held is      *)
(* there, since whoever else would remove it waits, and is held by one     *)
(* request; one deletion at a time holds a conversation.                   *)
RowsHeld ==
  /\ \A c \in ConvIDs, u \in Users : role[c][u] # NoRole => type[c] \in {"room", "direct"}
  /\ \A w \in Workers : HoldsOwn(w)
  /\ \A c \in ConvIDs, u \in Users, v, x \in Workers :
       Holds(v, c, u) => role[c][u] # NoRole /\ (Holds(x, c, u) => x = v)
  /\ \A c \in ConvIDs, v, x \in Workers : Deletes(v, c) /\ Deletes(x, c) => x = v

(* The steps that leave a request with rows it holds.                      *)
Demoting(w) ==
  /\ req[w].op = "transfer_ownership" /\ req'[w].op = "transfer_ownership"
  /\ req'[w].stage = "promote" /\ req'[w].actor = req[w].actor
  /\ req'[w].held \subseteq {req[w].actor} \cap Participants(req[w].conv)
  /\ ~Locked(req[w].conv, req[w].actor)

Cascading(w) ==
  /\ req[w].op = "delete_room" /\ req'[w].op = "delete_room"
  /\ req'[w].stage = "cascade" /\ req'[w].target \notin req'[w].held
  /\ \A u \in req'[w].held : FreeFor(w, u)
  /\ ~Deleting(req[w].conv) \/ Deletes(w, req[w].conv)

(* A request comes to hold rows by demoting its actor or by a cascade.     *)
LEMMA HeldComesFrom ==
  ASSUME IInv, RowsHeld, NEW w \in Workers, Receive(w) \/ Serve(w) \/ Fail(w),
         req'[w] # NoRequest, req'[w].op \in ManageOps,
         req'[w].held # {} \/ req'[w].stage = "cascade"
  PROVE  /\ UNCHANGED <<type, role>> /\ req'[w].conv = req[w].conv
         /\ req[w] # NoRequest /\ req[w].op \in ManageOps
         /\ Demoting(w) \/ Cascading(w)
<1>0. TypeOK /\ {"actor", "target", "demote", "write"} \subseteq Stages /\ HoldsOwn(w)
  BY DEF IInv, Stages, RowsHeld
<1>1. ~Finish(w)
  BY <1>0, FinishFields
<1>2. ~Receive(w)
  <2>1. ASSUME ReceiveCreate(w) PROVE FALSE
    <3> PICK op \in Ops \cap CreateOps, a \in Users, t \in Users,
             n \in Names \cup {NoName} :
          req' = [req EXCEPT ![w] =
            [op |-> op, actor |-> a, target |-> t, name |-> n,
             stage |-> IF op = "create_room" THEN "write" ELSE "find"]]
      BY <2>1 DEF ReceiveCreate
    <3>1. req'[w].op = op
      BY <1>0 DEF TypeOK
    <3> QED BY <3>1 DEF CreateOps, ManageOps
  <2>2. ASSUME ReceiveManage(w) PROVE FALSE
    <3> PICK op \in Ops \cap ManageOps, a \in Users, t \in Users,
             c \in ConvIDs, r \in AssignableRoles, n \in Names \cup {NoName} :
          /\ type[c] # "unused"
          /\ (op \in {"leave_room", "update_name", "delete_room"}) <=> (t = a)
          /\ op # "update_role" => r = "member"
          /\ (op = "update_name") <=> (n \in Names)
          /\ req' = [req EXCEPT ![w] =
               [op |-> op, actor |-> a, conv |-> c, target |-> t, newRole |-> r,
                name |-> n, actorRole |-> NoRole, held |-> {},
                stage |-> IF op = "update_role" THEN "actor" ELSE "room"]]
      BY <2>2, Zenon DEF ReceiveManage
    <3> QED BY <1>0 DEF TypeOK
  <2> QED BY <2>1, <2>2 DEF Receive
<1>3. Serve(w) /\ req[w].op = req'[w].op
  <2>1. Serve(w)
    BY <1>1, <1>2 DEF Fail
  <2> QED BY <2>1, ServeSame DEF OwnRequest, SameRequest
<1>4. req[w] # NoRequest
  BY <1>3 DEF Serve, CreateRoom, CreateDirect, AddRoomParticipant, UpdateParticipantRole,
     RemoveParticipant, LeaveRoom, TransferOwnership, UpdateRoomName, DeleteRoom, Serving
<1>5. req[w] \in ManageRequest /\ req[w].op \in ManageOps
  BY <1>0, <1>3, <1>4, RequestKinds
<1>6. ASSUME req[w].stage \in {"room", "actor", "target"},
             req'[w].stage # "cascade", req'[w].held = req[w].held
      PROVE  FALSE
  <2>1. req[w].held = {}
    BY <1>0, <1>4, <1>5, <1>6 DEF HoldsOwn
  <2> QED BY <1>6, <2>1
<1>7. ASSUME NEW ok, NEW s \in {"actor", "target", "demote", "write"}, Check(w, ok, s),
             req[w].stage \in {"room", "actor", "target"}
      PROVE  FALSE
  <2>1. Advance(w, s) /\ s \in Stages
    BY <1>0, <1>1, <1>7 DEF Check
  <2>2. req'[w] = [req[w] EXCEPT !.stage = s]
    BY <1>0, <1>5, <2>1, AdvanceFields
  <2>3. req'[w].held = req[w].held /\ req'[w].stage = s
    BY <1>5, <2>2 DEF ManageRequest
  <2> QED BY <1>6, <1>7, <2>3
<1>8. ASSUME NEW A, NEW s \in {"actor", "target", "demote", "write"},
             FindRoom(w, s) \/ FindActor(w, A, s) \/ FindTarget(w, A, s)
      PROVE  FALSE
  BY <1>7, <1>8 DEF FindRoom, FindActor, FindTarget, At
<1>9. ~RemoveParticipant(w)
  <2>1. ASSUME NEW r, At(w, "actor"),
               req' = [req EXCEPT ![w].stage = "target", ![w].actorRole = r]
        PROVE  FALSE
    <3>1. req'[w] = [req[w] EXCEPT !.stage = "target", !.actorRole = r]
      BY <1>0, <2>1 DEF TypeOK
    <3>2. req'[w].held = req[w].held /\ req'[w].stage = "target"
      BY <1>5, <3>1 DEF ManageRequest
    <3> QED BY <1>6, <2>1, <3>2 DEF At
  <2> QED BY <1>1, <1>8, <2>1 DEF RemoveParticipant
<1>10. /\ ~CreateRoom(w) /\ ~CreateDirect(w) /\ ~AddRoomParticipant(w)
       /\ ~UpdateParticipantRole(w) /\ ~LeaveRoom(w) /\ ~UpdateRoomName(w)
  <2>1. ~CreateRoom(w) /\ ~CreateDirect(w)
    BY <1>5 DEF CreateRoom, CreateDirect, Serving, ManageOps
  <2>2. ~AddRoomParticipant(w)
    BY <1>1, <1>8 DEF AddRoomParticipant
  <2>3. ~UpdateParticipantRole(w)
    BY <1>1, <1>8 DEF UpdateParticipantRole
  <2>4. ~LeaveRoom(w)
    BY <1>1, <1>8 DEF LeaveRoom
  <2>5. ~UpdateRoomName(w)
    BY <1>1, <1>8 DEF UpdateRoomName
  <2> QED BY <2>1, <2>2, <2>3, <2>4, <2>5
<1>11. CASE TransferOwnership(w)
  <2>1. ~RepoPromote(w)
    BY <1>1 DEF RepoPromote, Rollback
  <2>2. RepoDemote(w)
    BY <1>8, <1>11, <2>1 DEF TransferOwnership
  <2> DEFINE taken == {req[w].actor} \cap Participants(req[w].conv)
  <2>3. /\ UNCHANGED <<type, role>> /\ ~Locked(req[w].conv, req[w].actor)
        /\ req' = [req EXCEPT ![w] = [req[w] EXCEPT !.stage = "promote", !.held = taken]]
    BY <2>2 DEF RepoDemote
  <2> HIDE DEF taken
  <2>4. req'[w] = [req[w] EXCEPT !.stage = "promote", !.held = taken]
    BY <1>0, <2>3 DEF TypeOK
  <2>5. /\ req'[w].conv = req[w].conv /\ req'[w].actor = req[w].actor
        /\ req'[w].stage = "promote" /\ req'[w].held = taken
    BY <1>5, <2>4 DEF ManageRequest
  <2>6. req[w].op = "transfer_ownership"
    BY <1>11 DEF TransferOwnership, Serving
  <2>7. Demoting(w)
    BY <1>3, <2>3, <2>5, <2>6 DEF Demoting, taken
  <2> QED BY <1>4, <1>5, <2>3, <2>5, <2>7
<1>12. CASE DeleteRoom(w)
  <2>1. Serving(w, "delete_room") /\ RepoDeleteConversation(w)
    BY <1>8, <1>12 DEF DeleteRoom
  <2>2. CascadeMoves(w)
    BY <1>0, <1>1, <2>1, DeleteMoves DEF CascadeCommits
  <2>3. PICK u \in Users, gone \in SUBSET Users :
          /\ u \notin gone /\ \A x \in gone : FreeFor(w, x)
          /\ req' = [req EXCEPT ![w] = [req[w] EXCEPT !.stage = "cascade", !.target = u,
                                                      !.held = gone]]
    BY <2>2 DEF CascadeMoves
  <2>4. /\ UNCHANGED <<type, role>> /\ (~Deleting(req[w].conv) \/ At(w, "cascade"))
    BY <2>2 DEF CascadeMoves
  <2>5. req'[w] = [req[w] EXCEPT !.stage = "cascade", !.target = u, !.held = gone]
    BY <1>0, <2>3 DEF TypeOK
  <2>6. /\ req'[w].conv = req[w].conv /\ req'[w].target = u
        /\ req'[w].stage = "cascade" /\ req'[w].held = gone
    BY <1>5, <2>5 DEF ManageRequest
  <2>7. Cascading(w)
    BY <1>3, <2>1, <2>3, <2>4, <2>6 DEF Cascading, Deletes, Serving
  <2> QED BY <1>4, <1>5, <2>4, <2>6, <2>7
<1> QED BY <1>3, <1>9, <1>10, <1>11, <1>12 DEF Serve

(* A row held by another request stays, and none comes without its         *)
(* conversation.                                                           *)
LEMMA RowsStay ==
  ASSUME IInv, RowsHeld, NEW w \in Workers, Receive(w) \/ Serve(w) \/ Fail(w),
         NEW c \in ConvIDs, NEW u \in Users
  PROVE  /\ role'[c][u] # NoRole => type'[c] \in {"room", "direct"}
         /\ \A v \in Workers \ {w} : Holds(v, c, u) => role'[c][u] # NoRole
<1>0. /\ TypeOK /\ (role[c][u] # NoRole => type[c] \in {"room", "direct"})
      /\ \A v \in Workers : Holds(v, c, u) => role[c][u] # NoRole /\ Locked(c, u)
  BY DEF IInv, RowsHeld, Locked
<1>1. CASE UNCHANGED <<type, role>>
  BY <1>0, <1>1
<1>2. CASE RowWritten
  <2>1. PICK d \in ConvIDs, x \in Users, r \in {"admin", "member", NoRole} :
          /\ ~Locked(d, x)
          /\ role' = [role EXCEPT ![d] = [role[d] EXCEPT ![x] = r]]
          /\ r = NoRole \/ role[d][x] # NoRole \/ type[d] \in {"room", "direct"}
    BY <1>2 DEF RowWritten, SetRole
  <2>2. type' = type
    BY <1>2 DEF RowWritten
  <2>3. role'[c][u] = IF c = d /\ u = x THEN r ELSE role[c][u]
    BY <1>0, <2>1 DEF TypeOK
  <2> QED BY <1>0, <2>1, <2>2, <2>3
<1>3. ASSUME NEW d \in ConvIDs, NEW t \in {"room", "direct"}, NEW n, NEW rs,
             RepoCreate(d, t, n, rs)
      PROVE  /\ role'[c][u] # NoRole => type'[c] \in {"room", "direct"}
             /\ role[c][u] # NoRole => role'[c][u] # NoRole
  <2>1. CASE c = d
    BY <1>0, <1>3, <2>1 DEF RepoCreate, TypeOK
  <2>2. CASE c # d
    BY <1>0, <1>3, <2>2 DEF RepoCreate, TypeOK
  <2> QED BY <2>1, <2>2
<1>4. CASE CreateRoom(w)
  BY <1>0, <1>3, <1>4 DEF CreateRoom
<1>5. CASE CreateDirect(w) /\ At(w, "write")
  BY <1>0, <1>3, <1>5 DEF CreateDirect, At
<1>6. CASE CascadeCommits(w)
  <2>1. CASE c = req[w].conv
    <3>1. role'[c][u] = NoRole
      BY <1>0, <1>6, <2>1 DEF CascadeCommits, Removed, TypeOK
    <3>2. ASSUME NEW v \in Workers \ {w}, Holds(v, c, u) PROVE FALSE
      <4>1. u \in Participants(c) /\ Locked(c, u)
        BY <1>0, <3>2 DEF Participants
      <4>2. Holds(w, c, u)
        BY <1>6, <2>1, <4>1 DEF CascadeCommits, FreeFor
      <4> QED BY <3>2, <4>2 DEF RowsHeld
    <3> QED BY <3>1, <3>2
  <2>2. CASE c # req[w].conv
    BY <1>0, <1>6, <2>2 DEF CascadeCommits, Removed, TypeOK
  <2> QED BY <2>1, <2>2
<1>7. CASE Serving(w, "transfer_ownership") /\ RepoPromote(w)
  <2>1. type' = type
    BY <1>7 DEF RepoPromote
  <2>2. CASE role' = role
    BY <1>0, <2>1, <2>2
  <2>3. CASE role' # role
    <3> SUFFICES ASSUME NEW d, d = req[w].conv, NEW a, a = req[w].actor,
                        NEW x, x = req[w].target
                 PROVE  /\ role'[c][u] # NoRole => type[c] \in {"room", "direct"}
                        /\ role[c][u] # NoRole => role'[c][u] # NoRole
      BY <1>0, <2>1
    <3>1. /\ role[d][x] # NoRole
          /\ role' = [role EXCEPT ![d][a] = IF a \in req[w].held THEN "admin" ELSE @,
                                  ![d][x] = "owner"]
      BY <1>7, <2>3 DEF RepoPromote
    <3>2. d \in ConvIDs /\ a \in Users /\ x \in Users /\ a # x
      BY <1>7, ManageFacts DEF ManageOps, IInv, Established, Serving
    <3>3. type[d] \in {"room", "direct"}
      BY <3>1, <3>2 DEF RowsHeld
    <3>4. role'[c][u] # role[c][u] => c = d /\ role'[c][u] \in {"admin", "owner"}
      BY <1>0, <3>1, <3>2 DEF TypeOK
    <3>5. NoRole \notin {"admin", "owner"}
      BY NullAssumption DEF Roles
    <3> QED BY <1>0, <3>3, <3>4, <3>5
  <2> QED BY <2>2, <2>3
<1> QED BY <1>1, <1>2, <1>4, <1>5, <1>6, <1>7, Effects

LEMMA RowsHeldStep == IInv /\ RowsHeld /\ [Next]_vars => RowsHeld'
<1> SUFFICES ASSUME IInv, RowsHeld, [Next]_vars PROVE RowsHeld'
  OBVIOUS
<1>1. CASE UNCHANGED vars
  BY <1>1 DEF vars, RowsHeld, HoldsOwn, Holds, Deletes, Serving, At
<1>2. ASSUME NEW w \in Workers, Receive(w) \/ Serve(w) \/ Fail(w) PROVE RowsHeld'
  <2>0. \A v \in Workers \ {w} : req'[v] = req[v]
    <3>1. Receive(w) \/ Fail(w) => \A v \in Workers \ {w} : req'[v] = req[v]
      BY DEF Receive, ReceiveCreate, ReceiveManage, Fail, Finish, IInv, TypeOK
    <3>2. Serve(w) => \A v \in Workers \ {w} : req'[v] = req[v]
      BY ServeSame DEF OwnRequest
    <3> QED BY <1>2, <3>1, <3>2
  <2>1. \A c \in ConvIDs, u \in Users :
          role'[c][u] # NoRole => type'[c] \in {"room", "direct"}
    BY <1>2, RowsStay
  <2>2. HoldsOwn(w)'
    <3> SUFFICES ASSUME req'[w] # NoRequest, req'[w].op \in ManageOps,
                        req'[w].held # {} \/ req'[w].stage = "cascade"
                 PROVE  HoldsOwn(w)'
      BY DEF HoldsOwn
    <3>1. Demoting(w) \/ Cascading(w)
      BY <1>2, HeldComesFrom
    <3> QED BY <3>1 DEF HoldsOwn, Demoting, Cascading
  <2>3. \A v \in Workers : HoldsOwn(v)'
    BY <2>0, <2>2 DEF HoldsOwn, RowsHeld
  <2>4. ASSUME NEW c \in ConvIDs, NEW u \in Users, Holds(w, c, u)'
        PROVE  role'[c][u] # NoRole /\ \A x \in Workers \ {w} : ~Holds(x, c, u)
    <3>1. /\ UNCHANGED <<type, role>> /\ req[w].conv = c /\ u \in req'[w].held
          /\ Demoting(w) \/ Cascading(w)
      BY <1>2, <2>4, HeldComesFrom DEF Holds
    <3>2. CASE Demoting(w)
      BY <3>1, <3>2 DEF Demoting, Participants, Locked
    <3>3. CASE Cascading(w)
      <4>1. Holds(w, c, u) \/ (u \in Participants(c) /\ ~Locked(c, u))
        BY <3>1, <3>3 DEF Cascading, FreeFor
      <4> QED BY <3>1, <4>1 DEF Participants, Locked, RowsHeld
    <3> QED BY <3>1, <3>2, <3>3
  <2>5. ASSUME NEW c \in ConvIDs, NEW u \in Users, NEW v \in Workers, NEW x \in Workers,
               Holds(v, c, u)'
        PROVE  role'[c][u] # NoRole /\ (Holds(x, c, u)' => x = v)
    <3>1. \A y \in Workers \ {w} : Holds(y, c, u)' <=> Holds(y, c, u)
      BY <2>0 DEF Holds
    <3>2. role'[c][u] # NoRole
      BY <1>2, <2>4, <2>5, <3>1, RowsStay
    <3>3. Holds(v, c, u) /\ Holds(x, c, u) => x = v
      BY DEF RowsHeld
    <3> QED BY <2>4, <2>5, <3>1, <3>2, <3>3
  <2>6. ASSUME NEW c \in ConvIDs, NEW v \in Workers, NEW x \in Workers,
               Deletes(v, c)', Deletes(x, c)'
        PROVE  x = v
    <3>1. \A y \in Workers \ {w} : Deletes(y, c)' <=> Deletes(y, c)
      BY <2>0 DEF Deletes, Serving, At
    <3>2. ASSUME Deletes(w, c)' PROVE \A y \in Workers \ {w} : ~Deletes(y, c)
      <4>1. req'[w] # NoRequest /\ req'[w].op = "delete_room" /\ req'[w].stage = "cascade"
            /\ req'[w].conv = c
        BY <3>2 DEF Deletes, Serving, At
      <4>2. req[w].conv = c /\ (Demoting(w) \/ Cascading(w))
        BY <1>2, <4>1, HeldComesFrom DEF ManageOps
      <4>3. ~Deleting(c) \/ Deletes(w, c)
        BY <4>1, <4>2 DEF Demoting, Cascading
      <4> QED BY <4>3 DEF Deleting, RowsHeld
    <3>3. Deletes(v, c) /\ Deletes(x, c) => x = v
      BY DEF RowsHeld
    <3> QED BY <2>6, <3>1, <3>2, <3>3
  <2> QED BY <2>1, <2>3, <2>5, <2>6 DEF RowsHeld
<1> QED BY <1>1, <1>2 DEF Next

(* The rows of every reachable state are as RowsHeld says.                 *)
LEMMA RowsHeldAlways == Spec => [](IInv /\ RowsHeld)
<1>1. Init => RowsHeld
  <2> SUFFICES ASSUME Init PROVE RowsHeld
    OBVIOUS
  <2>1. \A w \in Workers : req[w] = NoRequest
    BY DEF Init
  <2>2. \A c \in ConvIDs, u \in Users : role[c][u] # NoRole => type[c] = "direct"
    BY DEF Init
  <2> QED BY <2>1, <2>2 DEF RowsHeld, HoldsOwn, Holds, Deletes, Serving
<1> QED BY <1>1, InitInv, NextInv, RowsHeldStep, PTL DEF Spec

(* An open transfer or deletion, which is all that can be waited for.      *)
Transferring(w) == /\ req[w] # NoRequest /\ req[w].op = "transfer_ownership"
                   /\ req[w].stage = "promote" /\ req[w].held = {req[w].actor}
Disbanding(w)   == /\ req[w] # NoRequest /\ req[w].op = "delete_room"
                   /\ req[w].stage = "cascade"

(* Whom somebody waits for, and for which row if he is open himself.       *)
LEMMA WaitsForOpen ==
  ASSUME IInv, RowsHeld, NEW w \in Workers, NEW v \in Workers, WaitsFor(w, v)
  PROVE  /\ Transferring(v) \/ Disbanding(v)
         /\ req[v].conv = req[w].conv /\ req[v].conv \in ConvIDs /\ v # w
         /\ Transferring(w) \/ Disbanding(w) => Holds(v, req[w].conv, req[w].target)
<1>1. /\ req[w] # NoRequest /\ req[w].op \in ManageOps /\ Established(w)
      /\ req[w] \in ManageRequest /\ HoldsOwn(v) /\ HoldsOwn(w)
  BY RequestKinds DEF WaitsFor, IInv, RowsHeld
<1>2. CASE WritesConversation(w) /\ Deletes(v, req[w].conv)
  <2>1. Disbanding(v) /\ req[w].stage = "write" /\ req[v].conv = req[w].conv
    BY <1>2 DEF WritesConversation, Deletes, Serving, At, Disbanding
  <2> QED BY <1>1, <2>1 DEF Transferring, Disbanding, ManageRequest
<1>3. CASE \E u \in Writes(w) : Holds(v, req[w].conv, u)
  <2>1. PICK u \in Writes(w) : Holds(v, req[w].conv, u)
    BY <1>3
  <2>2. Transferring(v) \/ Disbanding(v)
    BY <1>1, <2>1 DEF Holds, HoldsOwn, Transferring, Disbanding
  <2>3. req[v].conv = req[w].conv /\ req[v].conv \in ConvIDs
    BY <1>1, <2>1 DEF Holds, ManageRequest
  <2>4. Transferring(w) \/ Disbanding(w) => u = req[w].target
    BY <2>1 DEF Writes, Transferring, Disbanding
  <2>5. v # w
    <3> SUFFICES ASSUME v = w PROVE FALSE
      OBVIOUS
    <3>1. req[w].target \in req[w].held
      BY <2>1, <2>2, <2>4 DEF Holds
    <3>2. ~Disbanding(w)
      BY <1>1, <3>1 DEF HoldsOwn, Disbanding
    <3>3. ~Transferring(w)
      BY <1>1, <3>1 DEF Established, Transferring
    <3> QED BY <2>2, <3>2, <3>3
  <2> QED BY <2>1, <2>2, <2>3, <2>4, <2>5
<1> QED BY <1>2, <1>3 DEF WaitsFor

(* What WaitsEnd says of those who wait.                                   *)
WaitersAreServed == \A w \in Workers : Waits(w) => Served(w)
RingsAreKnown    == \A w \in Workers : RingIsKnown(w)

(* Of those that are waited for, one goes on or is in a ring: if all of    *)
(* them wait, they wait for each other.                                    *)
LEMMA WaitersServed ==
  ASSUME IInv, RowsHeld, IsFiniteSet(Workers)
  PROVE  WaitersAreServed
<1> SUFFICES ASSUME NEW w \in Workers, Waits(w), NEW S \in SUBSET Workers,
                    \A v \in S \cup {w}, x \in Workers : WaitsFor(v, x) => x \in S
             PROVE  \E v \in S \ {w} : /\ \E x \in S \cup {w} : WaitsFor(x, v)
                                       /\ ~Waits(v) \/ InRing(v)
  BY DEF WaitersAreServed, Served
<1> DEFINE T == {v \in S : \E x \in S \cup {w} : WaitsFor(x, v)}
           R == {p \in Workers \X Workers : WaitsFor(p[1], p[2])}
<1> SUFFICES ASSUME \A v \in T \ {w} : Waits(v) /\ ~InRing(v) PROVE FALSE
  OBVIOUS
<1>1. IsFiniteSet(T)
  BY FS_Subset
<1>2. \A x \in T \cup {w} : \E y \in T : WaitsFor(x, y)
  BY DEF Waits
<1>3. \A x, y \in Workers : <<x, y>> \in R <=> WaitsFor(x, y)
  OBVIOUS
<1>4. PICK C \in SUBSET T :
        C # {} /\ \A v \in C : \E x, y \in C : <<x, v>> \in R /\ <<v, y>> \in R
  <2>1. T # {} /\ \A x \in T : \E y \in T : <<x, y>> \in R
    BY <1>2
  <2> HIDE DEF T, R
  <2> QED BY <1>1, <2>1, RingAmong
<1>5. C \in SUBSET Workers /\ \A v \in C : \E x, y \in C : WaitsFor(x, v) /\ WaitsFor(v, y)
  BY <1>4
<1>6. ASSUME NEW v \in C PROVE InRing(v)
  BY <1>5, Zenon DEF InRing
<1>7. PICK v \in C : v # w
  BY <1>4, <1>5, WaitsForOpen
<1> QED BY <1>6, <1>7

(* In a room never raced all that are open are the owner's transfers, of   *)
(* which one holds his row, and one deletion: they can only wait for each  *)
(* other.                                                                  *)
LEMMA RingsKnown ==
  ASSUME IInv, RowsHeld
  PROVE  RingsAreKnown
<1> SUFFICES ASSUME NEW w \in Workers, NEW c, c = req[w].conv, c \notin raced, InRing(w)
             PROVE  \E t, d \in Workers :
                      /\ Serving(t, "transfer_ownership") /\ Serving(d, "delete_room")
                      /\ WaitsFor(t, d) /\ WaitsFor(d, t) /\ w \in {t, d}
  BY DEF RingsAreKnown, RingIsKnown
<1>1. PICK x \in Workers, y \in Workers, z \in Workers :
        WaitsFor(x, w) /\ WaitsFor(w, y) /\ WaitsFor(y, z)
  BY DEF InRing
<1>2. /\ Transferring(w) \/ Disbanding(w)
      /\ Transferring(y) \/ Disbanding(y)
      /\ Transferring(z) \/ Disbanding(z)
      /\ req[y].conv = c /\ req[z].conv = c /\ c \in ConvIDs /\ y # w /\ z # y
      /\ Holds(y, c, req[w].target) /\ Holds(z, c, req[y].target)
  BY <1>1, WaitsForOpen
<1>3. PICK o \in Users : \A v \in Workers : Harmless(v, c, o)
  <2>1. /\ req[w] \in ManageRequest /\ req[w].op \in ManageOps /\ Established(w)
        /\ req[w].target \in Users
    BY <1>2, RequestKinds DEF IInv, Transferring, Disbanding, ManageOps, ManageRequest
  <2>2. type[c] \in {"room", "direct"}
    BY <1>2, <2>1 DEF RowsHeld
  <2>3. type[c] = "room"
    BY <1>2, <2>1, <2>2 DEF Established, Transferring, Disbanding
  <2> QED BY <1>2, <2>3 DEF IInv, OwnerSecure
<1>4. ASSUME NEW v \in Workers, Transferring(v), req[v].conv = c
      PROVE  /\ \A u : Holds(v, c, u) => u = o
             /\ Holds(v, c, o) /\ req[v].target # o
  <2>1. req[v].actor = o /\ Established(v) /\ req[v].op \in ManageOps
    BY <1>3, <1>4 DEF IInv, Harmless, Managing, Transferring, ManageOps
  <2>2. req[v].target # o
    BY <1>4, <2>1 DEF Established, Transferring
  <2> QED BY <1>4, <2>1, <2>2 DEF Transferring, Holds
<1>5. ASSUME NEW v \in Workers, NEW q \in Workers, Transferring(v), Transferring(q),
             req[v].conv = c, req[q].conv = c
      PROVE  q = v
  BY <1>2, <1>4, <1>5 DEF RowsHeld
<1>6. ASSUME NEW v \in Workers, NEW q \in Workers, Disbanding(v), Disbanding(q),
             req[v].conv = c, req[q].conv = c
      PROVE  q = v
  BY <1>2, <1>6 DEF RowsHeld, Deletes, Serving, At, Disbanding
<1>7. z = w
  BY <1>2, <1>5, <1>6
<1> QED BY <1>1, <1>2, <1>5, <1>6, <1>7 DEF Transferring, Disbanding, Serving

(* However many requests overlap, if their number is finite, none waits    *)
(* for ever for a row: going from it to whom it waits for, and on, there   *)
(* is a transfer or a deletion that goes on, or some in a ring, of which   *)
(* the database aborts one (conversation_repository.go:125-133, 331-365).  *)
THEOREM EveryWaitEnds ==
  ASSUME IsFiniteSet(Workers)
  PROVE  Spec => []WaitersAreServed
BY RowsHeldAlways, WaitersServed, PTL

(* A deadlock, which the database has to break, is of a room that had been *)
(* handed over while another transfer rested on the old roles, or of the   *)
(* owner's transfer with his own deletion of the room: the one waits for a *)
(* row the cascade has taken, the cascade for the row the other has        *)
(* demoted (conversation_service.go:325-343, conversation_repository.go:   *)
(* 125-133, 331-365).                                                      *)
THEOREM DeadlocksAreKnown == Spec => []RingsAreKnown
BY RowsHeldAlways, RingsKnown, PTL
=============================================================================
