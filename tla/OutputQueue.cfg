CONSTANTS
  DEFAULT_QUEUE_CAPACITY = 4
  None = None
  REQUEST_LIFETIME = 2
  MaxTime = 5
  MaxIndex = 7
SPECIFICATION Spec
INVARIANTS TypeOK QueueInvariants RangesMatchDeadlines NoOverdueRequest
PROPERTY DropsOnlyDueRequests
