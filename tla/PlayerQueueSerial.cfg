CONSTANTS
    s1 = s1
    s2 = s2
    s3 = s3
    c1 = c1
    NULL = NULL
    Songs = {s1, s2, s3}
    Calls = {c1}
    MaxQueue = 3
    Overlap = FALSE
SPECIFICATION Spec
SYMMETRY SongCallSymmetry
INVARIANT QueueConsistent
PROPERTIES CurrentKept OneSongMoves
