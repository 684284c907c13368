SPECIFICATION DmSpec
CONSTANTS
  CMD_QUEUE_SIZE = 1
  DM_STAGE_COUNT = 2
  FirstFlood = 1
  NumMsgs = 2
  Msgs <- MCMsgs
  Arg <- MCArg
  Epoch <- MCEpoch
  Issue = {"SEND_CHAN_MSG"}
  Pushes = {"MSGS_WAITING"}
  MaxRequests = 0
  MaxEpoch = 2
  MaxRx = 1
  MaxWire = 1
INVARIANTS
  DmTypeOK
  SentIsTracked
PROPERTIES
  LedgerSpec
