\* One storage: what the index is worth once things calm down.
SPECIFICATION FairSpec
CONSTANTS
  sa = sa
  sb = sb
  p1 = p1
  p2 = p2
  x = x
  y = y
  z = z
  NoFile = NoFile
  Garbled = Garbled
  NoRow = NoRow
  NoScan = NoScan
  NoEdit = NoEdit
  NoKeys = NoKeys
  Storages = {sa}
  S3Storages = {}
  StorageOrder <- OneStorage
  Paths = {p1, p2}
  Contents = {x, y}
  Ids = {1, 2, 3, 4, 5, 6, 7}
  FileChanges = {"add", "replace", "delete"}
  RemovePolicies = {TRUE, FALSE}
  Bound <- FilesBound
PROPERTY PurgeTakesOnlyGone
PROPERTY EventuallyMirrors
CHECK_DEADLOCK FALSE
