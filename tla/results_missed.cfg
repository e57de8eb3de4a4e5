\* One run: the message comes before the answer to the request.
SPECIFICATION FairSpec
CONSTANTS
  r1 = r1
  r2 = r2
  finished = finished
  Runs = {r1}
  News = {r1}
  Topics = {finished}
  Finished = finished
  MaxRefreshes = 0
PROPERTY FinishedResultShown
CHECK_DEADLOCK FALSE
