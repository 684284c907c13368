SPECIFICATION DmSpec
CONSTANTS
  CMD_QUEUE_SIZE = 2
  DM_STAGE_COUNT = 2
  FirstFlood = 1
  NumMsgs = 2
  Msgs <- MCMsgs
  Arg <- MCArg
  Epoch <- MCEpoch
  Issue = {"SEND_CHAN_MSG"}
  Pushes = {}
  MaxRequests = 0
  MaxEpoch = 1
  MaxRx = 1
  MaxWire = 1
INVARIANTS
  AckIsTrue
