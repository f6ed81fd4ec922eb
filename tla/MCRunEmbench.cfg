SPECIFICATION Spec
CONSTANTS
  Bench = {b1, b2}
  BspFiles = {f1, f2}
  Args <- CommandLines
  Scores = {1, 2}
  MAX_INVOCATIONS = 3
CHECK_DEADLOCK FALSE
INVARIANTS TypeOK StatusIsEarned OnlyPassedBuildsPublished PublishedIsFresh
