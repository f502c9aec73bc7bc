CONSTANTS
  Users = {u1}
  Tasks = {t1, t2}
  MaxSong = 4
  Roots = 1
  NULL = NULL
  Ops = {"edit", "library", "deleteUser", "crash", "outage"}
  Overlap = TRUE
  AncestorTargetsOnly = FALSE
SPECIFICATION Spec
CHECK_DEADLOCK FALSE
SYMMETRY UserTaskSymmetry
INVARIANTS LineageSound OnlyFailedEditsLackFiles
PROPERTIES CleanupSparesOriginals ImplementsLifecycle
