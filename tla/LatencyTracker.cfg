SPECIFICATION Spec
CONSTANTS
  TIER_START_NS <- MCStart
  TIER_STEP_NS <- MCStep
  TIER_FIRST_IDX <- MCFirst
  NUM_BUCKETS = 3
  UINT64_MAX = 99
  Recorders = {r1, r2}
  Samples = {2, 9}
  MaxRecords = 2
  MaxResets = 1
SYMMETRY Symmetry
INVARIANTS TypeOK StatsExact DriftBounded PercentilesNotOverstated
CHECK_DEADLOCK FALSE
