CONSTANTS
  Users = {u1}
  Tasks = {t1}
  MaxSong = 5
  Roots = 2
  NULL = NULL
  Ops = {"edit", "restore", "delete", "library"}
  Overlap = FALSE
  AncestorTargetsOnly = FALSE
SPECIFICATION FairSpec
CHECK_DEADLOCK FALSE
INVARIANTS SongHasFile LineageReachesRoot
PROPERTIES TwoEditCap WorkIsListed EverythingEnds
