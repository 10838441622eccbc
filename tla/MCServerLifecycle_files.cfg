SPECIFICATION FairSpec
CONSTANTS
    Updates = {u1, u2}
    Unsaveable = {u2}
    MaxStarts = 3
\* The last process ends.
CHECK_DEADLOCK FALSE
INVARIANTS TypeOK CleanExitSaves OnlyUnsavedLost FileIsLastSave
PROPERTIES ShutdownEnds
