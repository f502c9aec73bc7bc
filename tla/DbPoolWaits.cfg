CONSTANTS
    c1 = c1
    c2 = c2
    t1 = t1
    t2 = t2
    t3 = t3
    None = None
    Connections = {c1, c2}
    Tasks = {t1, t2, t3}
    ImportSlots = 1
SPECIFICATION PoolSpec
INVARIANT EveryConnectionHasOnePlace
PROPERTIES RequestsEnd
\* Every task is used once: in the end nothing is left to do.
CHECK_DEADLOCK FALSE
