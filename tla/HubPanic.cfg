SPECIFICATION Spec
CONSTANTS a = a  b = b
  Clients = {a, b}
  BufferSize = 1
  MaxEvents = 2
  MaxSubs = 2
INVARIANTS NoPanic
CHECK_DEADLOCK FALSE
