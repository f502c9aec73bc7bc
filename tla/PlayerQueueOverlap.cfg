CONSTANTS
    s1 = s1
    s2 = s2
    c1 = c1
    c2 = c2
    NULL = NULL
    Songs = {s1, s2}
    Calls = {c1, c2}
    MaxQueue = 1
    Overlap = TRUE
SPECIFICATION Spec
SYMMETRY SongCallSymmetry
CONSTRAINT Bounded
INVARIANT ColumnsSound
