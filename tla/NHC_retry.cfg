SPECIFICATION LiveSpec
CONSTANTS
  RecoveryWindow = 2
  Confirmation = {}
  Node = {n1}
  NoNode = NoNode
  Controller = {c1}
  Pod = {p1}
  OptedIn = {p1}
  Source = "dcgm"
  AdminUntaints = {}
PROPERTIES EvictionRetried
