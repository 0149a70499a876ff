CONSTANTS
  Ingress = {i1}
  Requests = {r1}
  Peers = {p}
  Stops = {s1, s2}
  None = None
  MaxContexts = 2
  MaxCalls = 2
  MaxParallel = 2
SPECIFICATION FairSpec
INVARIANTS TypeOK RequestsSettled ContextsConsistent ResponsesFindTheirCall
PROPERTY StopsAnswered
