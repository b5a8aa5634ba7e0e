SPECIFICATION FairSpec
CONSTANTS
    Parts = {"store", "archiver_live", "source", "remote_live"}
    w1 = w1
    w2 = w2
PROPERTIES SourcesGetOn
\* Callers make finitely many requests, runs and exports end, and everything
\* has been fetched in the end.
CHECK_DEADLOCK FALSE
