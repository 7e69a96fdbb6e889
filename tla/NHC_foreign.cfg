SPECIFICATION Spec
CONSTANTS
  RecoveryWindow = 2
  Confirmation = {}
  Node = {n1}
  NoNode = NoNode
  Controller = {c1}
  Pod = {}
  OptedIn = {}
  Source = "dcgm"
  AdminUntaints = {"controller"}
PROPERTIES ForeignTaintNeverRemoved
