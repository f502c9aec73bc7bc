CONSTANTS
    t1 = t1
    t2 = t2
    u1 = u1
    u2 = u2
    NULL = NULL
    Tasks = {t1, t2}
    Users = {u1, u2}
    Admins = {u1}
    Kinds = {"overwrite", "put", "upload", "delete"}
    MayCrash = TRUE
SPECIFICATION Spec
SYMMETRY TaskSymmetry
INVARIANTS DiskInOrder TagsAgree ArtworkAgrees
PROPERTIES DoneMeansApplied PublishedByRight
\* Every slot is used once: in the end nothing is left to do.
CHECK_DEADLOCK FALSE
