SPECIFICATION Spec
CONSTANTS
    Parts = {"store", "archiver_s3", "archiver_fs", "format", "source", "source_fs", "server", "remote"}
    w1 = w1
    w2 = w2
INVARIANTS
    StoreSound  DamageDetected ExportIsArchive
     DeliveredOnceFromExpected
\* Callers make finitely many requests; runs, exports and the shell end.
CHECK_DEADLOCK FALSE
