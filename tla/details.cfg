\* Two windows on one bag, its coordinate and a tag; two edits, changes of
\* tags or changes by a scan or a script, in any mixture.
SPECIFICATION FairSpec
CONSTANTS
  w1 = w1
  w2 = w2
  latitude = latitude
  longitude = longitude
  t1 = t1
  null = null
  zero = zero
  v1 = v1
  x = x
  none = none
  Windows = {w1, w2}
  Fields = {latitude, longitude}
  Coordinates = {latitude, longitude}
  Values = {null, zero, v1}
  Null = null
  Falsy = {null, zero}
  Tags = {t1}
  Texts = {x}
  First <- Tagged
  NoTag = none
  MaxChanges = 2
INVARIANT TypeOK
INVARIANT LastSaveShown
PROPERTY TagsSettle
CHECK_DEADLOCK FALSE
