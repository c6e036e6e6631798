SPECIFICATION Spec
CONSTANTS
  u1 = u1  u2 = u2  m1 = m1  m2 = m2  x = x  y = y  w1 = w1  w2 = w2
  None = None  NoRequest = NoRequest
  Users = {u1, u2}
  MsgIDs = {m1, m2}
  Contents = {x, y}
  Workers = {w1, w2}
  Ops <- WriterAndReader
  Carries <- FirstAndSecond
  Movers = {u2}
  MaxTime = 2
SYMMETRY Symmetric
INVARIANTS LastEventIsTrue UnreadExact ListedByNewest
