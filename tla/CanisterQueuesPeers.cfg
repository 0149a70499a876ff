CONSTANTS
  DEFAULT_QUEUE_CAPACITY = 2
  None = None
  Own = own
  Peers = {loc, rem, ic00}
  Locals = {loc}
  OwnSubnet = subnet
  IC_00 = ic00
  Callees = {loc}
  Payloads <- OnePayload
  Unstable = TRUE
  MAX_RESPONSE_COUNT_BYTES = 2
  REJECT_BYTES = 1
  EMPTY_QUEUE_BYTES = 1
  REQUEST_LIFETIME = 1
  MaxTime = 1
  MaxIndex = 1
  MaxIngress = 1
SPECIFICATION FairSpec
INVARIANTS CallsBalance ScheduledOnce CollectsToDefault SkipsEverySender
PROPERTIES ServedInTurn InputServed
