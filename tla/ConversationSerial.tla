------------------------- MODULE ConversationSerial -------------------------
(***************************************************************************)
(* ConversationService serving one request at a time implements RoomRoles: *)
(* its arrival is Ask, its reads are stutters, its write is one atomic     *)
(* operation of the specification, and any other end of it a refusal.      *)
(***************************************************************************)
EXTENDS ConversationService

CONSTANT Nobody

ASSUME NobodyAssumption == Nobody \notin Users

(* The refinement mapping: what the rows of a room say of its people.      *)
Holders(roles, r) == {u \in Users : roles[u] = r}

OneOf(people) == IF people = {} THEN Nobody ELSE CHOOSE u \in people : TRUE

RoomStatus  == [c \in ConvIDs |-> CASE type[c] = "room"    -> "open"
                                    [] type[c] = "deleted" -> "disbanded"
                                    [] OTHER               -> "none"]
RoomOwner   == [c \in ConvIDs |-> IF type[c] = "room"
                                  THEN OneOf(Holders(role[c], "owner")) ELSE Nobody]
RoomAdmins  == [c \in ConvIDs |-> IF type[c] = "room"
                                  THEN Holders(role[c], "admin") ELSE {}]
RoomMembers == [c \in ConvIDs |-> IF type[c] = "room"
                                  THEN Holders(role[c], "member") ELSE {}]

Busy   == {w \in Workers : req[w] # NoRequest}
Acting == IF Busy = {} THEN Nobody ELSE req[CHOOSE w \in Workers : w \in Busy].actor

Promise == INSTANCE RoomRoles WITH
  Rooms <- ConvIDs, acting <- Acting, status <- RoomStatus,
  owner <- RoomOwner, admins <- RoomAdmins, members <- RoomMembers

(* README.md:327-330: taken one after the other, the service's operations  *)
(* change rooms only as the role of the user who asks allows; in particular *)
(* an admin removes only members, nobody but the owner appoints, and the   *)
(* owner leaves only after a transfer.                                     *)
RoomsKeepTheirPromise == Promise!Spec
=============================================================================
