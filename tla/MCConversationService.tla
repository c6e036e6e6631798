----------------------- MODULE MCConversationService -----------------------
(* Small instances of ConversationService for TLC.                         *)
EXTENDS ConversationService, TLC

CONSTANTS u1, u2, u3, c1, c2, n1, w1, w2

AllOps  == CreateOps \cup ManageOps
RoomOps == AllOps \ {"create_direct"}
OverlappingOps == AllOps \ {"update_name", "remove_participant"}

Symmetry == Permutations(Users) \cup Permutations(Workers)
=============================================================================
