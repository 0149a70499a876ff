CONSTANTS
  A = A
  B = B
  c = c
  d = d
  Subnets = {A, B}
  Nodes = {1}
  System = {}
  NNS = A
  Canisters = {c, d}
  Home <- Homes
  Calls <- TwoCalls
  Caller <- SameCallers
  Callee <- SameCallees
  Mover = d
  Target = A
  Unstable = {c}
  None = None
  MAX_STREAM_MESSAGES = 2
  SYSTEM_SUBNET_STREAM_MSG_LIMIT = 1
  MaxPayloads = 1
  MaxIndex = 4
SPECIFICATION Spec
INVARIANTS CallsConserved OnlyOrphansLost
PROPERTY RequestsInOrder
