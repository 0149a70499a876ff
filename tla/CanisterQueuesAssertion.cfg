CONSTANTS
  DEFAULT_QUEUE_CAPACITY = 2
  None = None
  Own = own
  Peers = {subnet, ic00}
  Locals = {}
  OwnSubnet = subnet
  IC_00 = ic00
  Callees = {subnet}
  Payloads <- OnePayload
  Unstable = FALSE
  MAX_RESPONSE_COUNT_BYTES = 2
  REJECT_BYTES = 1
  EMPTY_QUEUE_BYTES = 1
  REQUEST_LIFETIME = 1
  MaxTime = 2
  MaxIndex = 3
  MaxIngress = 1
SPECIFICATION Spec
PROPERTY TimeOutAssertion
