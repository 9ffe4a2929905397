SPECIFICATION Spec
CONSTANTS
  Approvals = {a1, a2}
  Sessions = {s1, s2, s3}
  Getters = {}
  Nothing = Nothing
SYMMETRY RunSymmetry
INVARIANTS
  TypeOK
  CompletedMeansDecided
  ResolvedMeansDecided
  SerialRunsAgree
CHECK_DEADLOCK FALSE
