----------------------------- MODULE RoomRoles -----------------------------
(***************************************************************************)
(* What conversation management promises about rooms: users ask, one after *)
(* the other, and what they ask for is done in one atomic step or refused. *)
(* A room has one owner, who appoints and dismisses admins and alone hands *)
(* the room over or disbands it; owner and admins let people in; an admin  *)
(* expels members only; everybody but the owner may leave.  This is        *)
(* README.md:44-51 and 327-330 read as a state machine, with the right to  *)
(* rename left out: names are not part of it.                              *)
(***************************************************************************)
CONSTANTS Users, Rooms, Nobody

VARIABLES
  acting,  \* the user whose request is served, or Nobody
  status,  \* room -> "none", "open" or "disbanded"
  owner,   \* room -> its owner, Nobody when it is not open
  admins,  \* room -> set of users
  members  \* room -> set of users

rooms == <<status, owner, admins, members>>
vars  == <<acting, rooms>>

Present(r) == {owner[r]} \cup admins[r] \cup members[r]

Init == /\ acting  = Nobody
        /\ status  = [r \in Rooms |-> "none"]
        /\ owner   = [r \in Rooms |-> Nobody]
        /\ admins  = [r \in Rooms |-> {}]
        /\ members = [r \in Rooms |-> {}]

Ask(u) == /\ acting = Nobody
          /\ acting' = u
          /\ UNCHANGED rooms

Refuse == /\ acting # Nobody
          /\ acting' = Nobody
          /\ UNCHANGED rooms

Found(r) == /\ status[r] = "none"
            /\ status' = [status EXCEPT ![r] = "open"]
            /\ owner' = [owner EXCEPT ![r] = acting]
            /\ UNCHANGED <<admins, members>>

Join(r, u) == /\ acting \in {owner[r]} \cup admins[r]
              /\ u \notin Present(r)
              /\ members' = [members EXCEPT ![r] = @ \cup {u}]
              /\ UNCHANGED <<status, owner, admins>>

Appoint(r, u) == /\ acting = owner[r] /\ u \in members[r]
                 /\ members' = [members EXCEPT ![r] = @ \ {u}]
                 /\ admins' = [admins EXCEPT ![r] = @ \cup {u}]
                 /\ UNCHANGED <<status, owner>>

Dismiss(r, u) == /\ acting = owner[r] /\ u \in admins[r]
                 /\ admins' = [admins EXCEPT ![r] = @ \ {u}]
                 /\ members' = [members EXCEPT ![r] = @ \cup {u}]
                 /\ UNCHANGED <<status, owner>>

(* Expelled by the owner or an admin, or gone of one's own accord.         *)
Depart(r, u) == /\ \/ acting = owner[r] /\ u \in admins[r] \cup members[r]
                   \/ acting \in admins[r] /\ u \in members[r]
                   \/ acting = u /\ u \in admins[r] \cup members[r]
                /\ admins' = [admins EXCEPT ![r] = @ \ {u}]
                /\ members' = [members EXCEPT ![r] = @ \ {u}]
                /\ UNCHANGED <<status, owner>>

HandOver(r, u) == /\ acting = owner[r] /\ u \in admins[r] \cup members[r]
                  /\ owner' = [owner EXCEPT ![r] = u]
                  /\ admins' = [admins EXCEPT ![r] = (@ \ {u}) \cup {owner[r]}]
                  /\ members' = [members EXCEPT ![r] = @ \ {u}]
                  /\ UNCHANGED status

Disband(r) == /\ acting = owner[r]
              /\ status' = [status EXCEPT ![r] = "disbanded"]
              /\ owner' = [owner EXCEPT ![r] = Nobody]
              /\ admins' = [admins EXCEPT ![r] = {}]
              /\ members' = [members EXCEPT ![r] = {}]

Grant == /\ acting # Nobody
         /\ acting' = Nobody
         /\ \E r \in Rooms :
              \/ Found(r) \/ Disband(r)
              \/ \E u \in Users : Join(r, u) \/ Appoint(r, u) \/ Dismiss(r, u)
                                \/ Depart(r, u) \/ HandOver(r, u)

Next == (\E u \in Users : Ask(u)) \/ Refuse \/ Grant

Spec == Init /\ [][Next]_vars
=============================================================================
