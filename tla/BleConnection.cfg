SPECIFICATION BleSpec
CONSTANTS
  Peers = {p1, p2}
  Nobody = nobody
INVARIANTS BleTypeOK ClientHeld ConnectedIsWhole NoPhantom
