SPECIFICATION FairSpec
CONSTANTS w1 = w1  w2 = w2  w3 = w3
  Workers = {w1, w2, w3}
  Limit = 2
  MaxCount = 4
  Faulty = TRUE
INVARIANTS AtMostLimitPerWindow LastsOnlyIfOrphaned
PROPERTIES WindowEnds
