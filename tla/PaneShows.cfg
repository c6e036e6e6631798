SPECIFICATION PaneSpec
CONSTANTS
  c1 = c1  c2 = c2
  Convs = {c1, c2}
  PageSize = 1
  MaxMessages <- OneBusy
INVARIANTS NothingTwice  PaneIsTrue MissingIsOlder
