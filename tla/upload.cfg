\* Two files of two names, two targets, one of them sent twice or each sent once.
SPECIFICATION FairSpec
CONSTANTS
  a = a
  b = b
  n1 = n1
  n2 = n2
  t1 = t1
  t2 = t2
  Root = t1
  Items = {a, b}
  Names = {n1, n2}
  NameOf <- TwoNames
  Targets = {t1, t2}
  MaxPosts = 2
  MaxRequests = 2
INVARIANT TypeOK
INVARIANT UploadedIsStored
PROPERTY OlderFilesKept
PROPERTY ClearTakesFinished
PROPERTY UploadEnds
CHECK_DEADLOCK FALSE
