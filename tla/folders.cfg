\* Two folders, one in the other, with a bag each; one text; three clicks.
SPECIFICATION FairTreeSpec
CONSTANTS
  root = root
  f = f
  g = g
  b = b
  c = c
  none = none
  t = t
  Root = root
  Folders = {f, g}
  Bags = {b, c}
  Parent <- Tree
  Texts = {none, t}
  NoText = none
  Shown <- ShownBags
  Counted <- CountedBags
  MaxClicks = 3
  MaxChanges = 1
INVARIANT TreeTypeOK
INVARIANT FilterShowsMatches
PROPERTY CountsSettle
CHECK_DEADLOCK FALSE
