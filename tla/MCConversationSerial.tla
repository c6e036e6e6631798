----------------------- MODULE MCConversationSerial ------------------------
(* One request at a time: a small instance of ConversationSerial for TLC.  *)
EXTENDS MCConversationService, ConversationSerial
=============================================================================
