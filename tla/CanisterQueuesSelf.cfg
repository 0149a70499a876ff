CONSTANTS
  DEFAULT_QUEUE_CAPACITY = 3
  None = None
  Own = own
  Peers = {}
  Locals = {}
  OwnSubnet = subnet
  IC_00 = ic00
  Callees = {own}
  Payloads <- TwoPayloads
  Unstable = TRUE
  MAX_RESPONSE_COUNT_BYTES = 2
  REJECT_BYTES = 1
  EMPTY_QUEUE_BYTES = 1
  REQUEST_LIFETIME = 1
  MaxTime = 2
  MaxIndex = 4
  MaxIngress = 1
SPECIFICATION Spec
INVARIANTS TypeOK StatsOk CallsBalance QueuesDecodable
PROPERTY CyclesConserved
