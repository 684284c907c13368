SPECIFICATION FairSpec
CONSTANTS
  Msgs = {1, 2, 3, 4, 5, 6}
  Capacity = 3
  MaxId = 6
  RxSlots = 2
  Risks = {}
INVARIANTS
  StatusTrue
  ViewCurrent
PROPERTIES
  KeepsLog
  ViewFollows
