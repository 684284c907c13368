SPECIFICATION Spec
CONSTANTS
  CMD_QUEUE_SIZE = 3
  Arg <- MCArg
  Epoch <- MCEpoch
  Issue = {"SEND_DM", "REMOVE_CONTACT"}
  Pushes = {"MSGS_WAITING"}
  MaxRequests = 2
  MaxEpoch = 2
  MaxRx = 1
  MaxWire = 1
INVARIANTS
  TypeOK
PROPERTIES
  SkewOnlyByLoss
  TypedCommandKept
