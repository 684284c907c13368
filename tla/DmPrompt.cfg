SPECIFICATION PromptSpec
CONSTANTS
  CMD_QUEUE_SIZE = 3
  DM_STAGE_COUNT = 2
  FirstFlood = 1
  NumMsgs = 1
  Msgs <- MCMsgs
  Arg <- MCArg
  Epoch <- MCEpoch
  Issue = {"SEND_CHAN_MSG"}
  Pushes = {}
  MaxRequests = 1
  MaxEpoch = 1
  MaxRx = 1
  MaxWire = 1
PROPERTIES
  SentSettles
