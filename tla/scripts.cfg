\* Two runs for one thread, of which one has a timeout.
SPECIFICATION FairSpec
CONSTANTS
  web = web
  scanner = scanner
  r1 = r1
  r2 = r2
  Runs = {r1, r2}
  Callers = {web, scanner}
  Caller <- CallerOf
  Scanner = scanner
  Timed = {r1}
  Null = Null
  PoolSize = 1
INVARIANT TypeOK
INVARIANT ListSound
INVARIANT AnnouncedIsOver
PROPERTY TimedRunsAnnounced
PROPERTY RunsLive
CHECK_DEADLOCK FALSE
