SPECIFICATION FairSpec
CONSTANTS a = a  b = b
  Clients = {a, b}
  BufferSize = 1
  MaxEvents = 2
  MaxSubs = 2
INVARIANTS SubscribedIffClients ClosedIffRemoved OnceAndInOrder
PROPERTIES ForwarderMovesOn ForwarderEnds TornDown
CHECK_DEADLOCK FALSE
