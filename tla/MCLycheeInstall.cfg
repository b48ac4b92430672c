SPECIFICATION FairSpec
CONSTANTS
  Procs = {p1, p2, p3}
  Nobody = nobody
  Attempts = 3
  Timeout = 1
  Delay = 1
  Grace = 1
INVARIANTS
  RunsOnlyVerified
  GivesUpOnlyInQueue
PROPERTIES
  EveryProcessEnds
