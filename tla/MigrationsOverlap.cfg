SPECIFICATION FairSpec
CONSTANTS r1 = r1  r2 = r2  r3 = r3
  Runners = {r1, r2, r3}
  Dirs <- Images
  Repeatable = {2}
INVARIANTS ChangedOnceIffRecorded InOrder DoneIsComplete OneSucceeds
PROPERTIES RunnersEnd
