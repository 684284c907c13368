SPECIFICATION LiveSpec
CONSTANTS
  CMD_QUEUE_SIZE = 2
  Arg <- MCArg
  Epoch <- MCEpoch
  Issue = {"GET_CONTACTS"}
  Pushes = {"MSGS_WAITING"}
  MaxRequests = 2
  MaxEpoch = 2
  MaxRx = 1
  MaxWire = 1
INVARIANTS
  RingSound
PROPERTIES
  FifoSpec
  NothingWedged
