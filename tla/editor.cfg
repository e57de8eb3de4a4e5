\* A script with conditions, one that may be added, and bags of one kind.
SPECIFICATION Spec
CONSTANTS
  c = c
  b = b
  Ids = {1, 2}
  NoId = 0
  Criteria = {c}
  Bags = {b}
  Matches <- NoMatch
  Initially <- Picky
  NoScript = NoScript
  Asked = Asked
  Failed = Failed
  MaxWindows = 1
  MaxSaves = 1
INVARIANT TypeOK
INVARIANT AutoRunsMatch
PROPERTY RemovedForGood
CHECK_DEADLOCK FALSE
