SPECIFICATION LiveSpec
CONSTANTS
  Node = {n1, n2}
  NoNode = NoNode
  PollInterval = 0
  DefaultPoll = 2
  ReconcileTime = 1
  Backoff <- BackoffTicks
  MaxChanges = 2
INVARIANTS TypeOK NoNodeForgotten ChangeNeverLost ReadInTime
PROPERTIES NeverSpins ImplementsNodePolling
