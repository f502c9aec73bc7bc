CONSTANTS
    j1 = j1
    j2 = j2
    j3 = j3
    r1 = r1
    NULL = NULL
    Jobs = {j1, j2, j3}
    Recordings = {r1}
    Slots = 2
    Ops = {"library", "delete", "deleteUser"}
SPECIFICATION FairSpec
INVARIANTS SlotsKept NothingLeftOver
PROPERTIES ImportsEnd ImplementsLifecycle
\* Every job may be over and every song deleted: nothing is left to do then.
CHECK_DEADLOCK FALSE
