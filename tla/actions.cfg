\* Two bags and a folder, one search, one piece of work, two tags set or
\* taken off by others.
SPECIFICATION FairSpec
CONSTANTS
  a = a
  b = b
  f = f
  all = all
  some = some
  none = none
  Bags = {a, b}
  Folders = {f}
  Terms = {all, some}
  NoTerm = all
  Found <- Search
  NoBag = none
  Kinds = {"details", "tag", "map", "download", "link"}
  MaxJobs = 1
  MaxSearches = 1
  MaxRetags = 2
INVARIANT TypeOK
INVARIANT TaggedAsTold
PROPERTY TagsComeToShow
PROPERTY DownloadsGoOn
CHECK_DEADLOCK FALSE
