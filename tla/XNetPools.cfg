CONSTANTS
  A = A
  B = B
  c = c
  d = d
  Subnets = {A, B}
  Nodes = {1, 2}
  System = {}
  NNS = A
  Canisters = {c, d}
  Home <- Homes
  Calls <- OneCall
  Caller <- OneCaller
  Callee <- OneCallee
  Mover = c
  Target = B
  Unstable = {}
  None = None
  MAX_STREAM_MESSAGES = 2
  SYSTEM_SUBNET_STREAM_MSG_LIMIT = 1
  MaxPayloads = 3
  MaxIndex = 3
SPECIFICATION Spec
INVARIANTS TypeOK BlocksApplicable ExpectedSignalsInStream
