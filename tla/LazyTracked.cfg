\* copy_on_read off, track_written, a stripe without a source, a power loss, a shutdown.
SPECIFICATION LSpec
CONSTANTS
    StripeCount = 2
    HeadersPerSector = 1
    SourceStripes = {0}
    SourceStripeCount = 1
    MaxConcurrentChanges = 2
    MaxQueue = 4
    MaxConcurrentFetches = 1
    MaxFetchRetries = 0
    Autofetch = FALSE
    Channels = {c1}
    Requests = {r1, r2}
    HasImage = TRUE
    TrackWritten = TRUE
    MaxSpan = 2
    MaxFaults = 0
    MetaMayFail = TRUE
    MaxPowerLosses = 1
    MayShutdown = TRUE
SYMMETRY RequestSymmetry
INVARIANTS
    CopiedSafely
    OnePlace
    TrackedWritesAreMarked
PROPERTIES
    ImplementsGuestDisk
\* The guest issues finitely many requests and then everything rests.
CHECK_DEADLOCK FALSE
