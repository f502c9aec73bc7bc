CONSTANTS
  Users = {u1}
  Tasks = {t1}
  MaxSong = 4
  Roots = 1
  NULL = NULL
  Ops = {"edit", "publish", "delete"}
  Overlap = FALSE
  AncestorTargetsOnly = TRUE
SPECIFICATION Spec
CHECK_DEADLOCK FALSE
SYMMETRY UserTaskSymmetry
INVARIANT LineageAcyclic
