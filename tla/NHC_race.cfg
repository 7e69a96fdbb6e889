SPECIFICATION Spec
CONSTANTS
  RecoveryWindow = 2
  Confirmation = {t1, t2}
  Node = {n1}
  NoNode = NoNode
  Controller = {c1, c2}
  Pod = {}
  OptedIn = {}
  Source = "annotation"
  AdminUntaints = {"controller", "other"}
SYMMETRY ControllersAlike
INVARIANTS TypeOK IsolatedAfterDegradedEvidence ManagedTaintIsOwn RecoveryIsContinuous
PROPERTIES EventsTellChanges ReleasedOnlyAfterQuietWindow ForeignTaintKept ImplementsNodeIsolation ReleasedOnlyWhileConfirmed
VIEW LatestView
