CONSTANTS
  A = A
  B = B
  c = c
  d = d
  Subnets = {A, B}
  Nodes = {1}
  System = {A, B}
  NNS = A
  Canisters = {c, d}
  Home <- Homes
  Calls <- TwoCalls
  Caller <- SameCallers
  Callee <- SameCallees
  Mover = c
  Target = B
  Unstable = {}
  None = None
  MAX_STREAM_MESSAGES = 1
  SYSTEM_SUBNET_STREAM_MSG_LIMIT = 1
  MaxPayloads = 1
  MaxIndex = 4
SPECIFICATION FairSpec
INVARIANTS CallsConserved
PROPERTY CallsAnswered
