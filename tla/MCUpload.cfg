SPECIFICATION FairSpec
CONSTANTS
  MaxFiles = 3
  Concurrency = 2
  Parts = 2
  Keys = {k1, k2, k3}
INVARIANTS
  TypeOK
  InFlightBound
  ResolvedMeansAllStored
  SettledIsQuiet
  OneFilePerKey
  NoIdleWorker
PROPERTIES
  NoStartAfterStop
  Settles
  ImplementsMap
