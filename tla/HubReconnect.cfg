SPECIFICATION FairSpec
CONSTANTS
  Peers = {p1, p2}
  Nobody = nobody
INVARIANTS Forgotten AskedFor NoOrphanLink
PROPERTIES NoReturn Returns Reconnects
