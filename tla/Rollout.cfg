SPECIFICATION Spec
CONSTANTS
  Pod = {p1, p2, p3}
  Args <- Revisions
  GrantsLeases = TRUE
  RenewDeadline = 1
  LeaseDuration = 2
  MaxRollouts = 1
  MaxFaults = 2
INVARIANTS TypeOK OverlapOnlyAfterStall
PROPERTIES LatestTakesOver RemediationSurvives
CHECK_DEADLOCK FALSE
