\* Three nested directories that come and go.
SPECIFICATION FairSpec
CONSTANTS
  root = root
  sub = sub
  leaf = leaf
  t1 = t1
  t2 = t2
  Main = Main
  Nobody = Nobody
  Dirs = {root, sub, leaf}
  Root = root
  Parent <- Chain
  Tasks = {t1, t2}
  RegisterFails = TRUE
  DirsVanish = TRUE
  ChangeLimit = 3
INVARIANT TypeOK
INVARIANT NothingForgotten
INVARIANT TreeCovered
PROPERTY ChangesReported
PROPERTY StopsForGood
CHECK_DEADLOCK FALSE
