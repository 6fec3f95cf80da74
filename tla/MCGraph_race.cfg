CONSTANTS
    Nobody = Nobody
    Names <- Two
    Crashing <- Two
    Downstream <- Ring2
    MaxStarts = 1
SPECIFICATION Spec
CHECK_DEADLOCK FALSE
INVARIANTS CaughtCrashIsReported
