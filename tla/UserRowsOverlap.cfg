CONSTANTS
    s1 = s1
    s2 = s2
    r1 = r1
    r2 = r2
    d1 = d1
    d2 = d2
    mp3 = mp3
    m4a = m4a
    NULL = NULL
    Songs = {s1, s2}
    Requests = {r1, r2}
    Window = 2
    ShareLife = 2
    Params = {d1, d2}
    Formats = {mp3, m4a}
    Default = mp3
    Positions = {0, 1}
    Workloads <- WorkloadsHere
    MaxCount = 3
SPECIFICATION Spec
INVARIANTS RowsConsistent DownloadsAccounted
PROPERTIES PlaysRecover NothingUndone
