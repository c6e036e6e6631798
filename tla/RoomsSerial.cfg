SPECIFICATION Spec
CONSTANTS
  u1 = u1  u2 = u2  u3 = u3
  c1 = c1  c2 = c2
  n1 = n1  w1 = w1  w2 = w2
  NoRole = NoRole  NoName = NoName  NoRequest = NoRequest
  Nobody = Nobody
  Users = {u1, u2, u3}
  ConvIDs = {c1, c2}
  Names = {n1}
  Workers = {w1}
  Legacy = {}
  Ops <- AllOps
INVARIANTS OneDirectPerPair
PROPERTIES RoomsKeepTheirPromise
