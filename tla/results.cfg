\* Two runs, one click on Refresh.
SPECIFICATION FairSpec
CONSTANTS
  r1 = r1
  r2 = r2
  finished = finished
  Runs = {r1, r2}
  News = {r1, r2}
  Topics = {finished}
  Finished = finished
  MaxRefreshes = 1
INVARIANT TypeOK
INVARIANT SubscribedOnce
INVARIANT OnlyStoredShown
PROPERTY AwaitedResultShown
CHECK_DEADLOCK FALSE
