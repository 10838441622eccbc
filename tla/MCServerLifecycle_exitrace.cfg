SPECIFICATION Spec
CONSTANTS
    Updates = {u1, u2}
    Unsaveable = {}
    MaxStarts = 1
\* The last process ends.
CHECK_DEADLOCK FALSE
INVARIANTS FinalSaveStays
