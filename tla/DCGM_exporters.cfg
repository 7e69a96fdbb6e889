SPECIFICATION ScrapesSpec
CONSTANTS
  Node = {n1, n2}
  Exporter = {1, 2, 3}
  XID = {0, 79, 1000}
  MaxSamples = 4
  Family <- SomeFamilies
INVARIANTS TypeOK EvaluatesLikeTheLoop
PROPERTIES HealthyOnlyAfterExplicitClear
