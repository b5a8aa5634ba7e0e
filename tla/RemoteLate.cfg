SPECIFICATION Spec
CONSTANTS
    Parts = {"remote_late"}
    w1 = w1
    w2 = w2
INVARIANTS DeliveredIsRequested
\* Everything has been fetched in the end.
CHECK_DEADLOCK FALSE
