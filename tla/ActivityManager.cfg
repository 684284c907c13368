SPECIFICATION FairSpec
CONSTANTS
  Acts = {a, b, c, u, z}
  Sleep = z
  Exclusive = {u}
  None = None
  Lost = Lost
  MaxDepth = 2
INVARIANTS ActivityTypeOK DrawsCurrent WaiterServed Launchable SleepShown
PROPERTIES ResultsNotCrossed WaitShows ScreenCatchesUp
