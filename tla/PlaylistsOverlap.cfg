CONSTANTS
    s1 = s1
    s2 = s2
    c1 = c1
    c2 = c2
    NULL = NULL
    Songs = {s1, s2}
    Calls = {c1, c2}
    MaxList = 2
    MaxPosition = 3
    Overlap = TRUE
SPECIFICATION Spec
SYMMETRY SongCallSymmetry
INVARIANT TypeOK
PROPERTIES AddedInOrder Reordered
\* The playlist, and every song, may be deleted: nothing is left to do then.
CHECK_DEADLOCK FALSE
