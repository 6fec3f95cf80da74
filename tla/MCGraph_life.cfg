CONSTANTS
    Nobody = Nobody
    Names <- Three
    Crashing <- Two
    Downstream <- Ring3
    MaxStarts = 2
SPECIFICATION FairSpec
CHECK_DEADLOCK FALSE
INVARIANTS GraphInv NothingRunsAfterStop ProcessSurvives CrashInv
PROPERTIES StartsAtRest StopReturns
