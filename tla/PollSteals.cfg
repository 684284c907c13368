SPECIFICATION Spec
CONSTANTS
  CMD_QUEUE_SIZE = 3
  CHANNEL_SYNC_QUEUE_RESERVE = 1
  RX_QUEUE_SIZE = 3
  MAX_CONTACT_RETRIES = 1
  MAX_CONTACT_SYNC_RETRIES = 1
  Channels = 2
  Contacts = 1
  MaxWire = 2
  MaxExtras = 2
  Risks = {}
PROPERTY HandshakeHeard
