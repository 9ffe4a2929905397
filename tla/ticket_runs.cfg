SPECIFICATION Spec
CONSTANTS
  Posts = {p1, p2, p3}
  NoRun = NoRun
SYMMETRY PostSymmetry
INVARIANTS
  TypeOK
  OneLiveRunWhenPrompt
CHECK_DEADLOCK FALSE
