\* Two storages, with edits and removals racing the scans.
SPECIFICATION Spec
CONSTANTS
  sa = sa
  sb = sb
  p1 = p1
  p2 = p2
  x = x
  y = y
  z = z
  NoFile = NoFile
  Garbled = Garbled
  NoRow = NoRow
  NoScan = NoScan
  NoEdit = NoEdit
  NoKeys = NoKeys
  Storages = {sa, sb}
  S3Storages = {sb}
  StorageOrder <- TwoStorages
  Paths = {p1, p2}
  Contents = {x, y}
  Ids = {1, 2, 3, 4}
  FileChanges = {"add", "replace", "delete"}
  RemovePolicies = {TRUE, FALSE}
  Bound <- MixedBound
SYMMETRY Symmetric
INVARIANT TypeOK
INVARIANT UniqueMd5
INVARIANT SessionSound
PROPERTY RowIdentityKept
CHECK_DEADLOCK FALSE
