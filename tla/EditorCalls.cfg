CONSTANTS
    NULL = NULL
    Sentinel = 9
    Length = 4
    Jobs <- MCJobs
SPECIFICATION Spec
INVARIANTS SegmentsCorrect PlaysWhatIsKept FadesFollowTheMusic FadesMeetTheirCut NothingAskedIsLost TempIsRemoved
\* The call ends.
CHECK_DEADLOCK FALSE
