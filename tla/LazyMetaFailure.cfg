\* One fault, on the metadata device too: a read may wait for ever.
SPECIFICATION LFairSpec
CONSTANTS
    StripeCount = 2
    HeadersPerSector = 2
    SourceStripes = {0, 1}
    SourceStripeCount = 2
    MaxConcurrentChanges = 1
    MaxQueue = 4
    MaxConcurrentFetches = 1
    MaxFetchRetries = 0
    Autofetch = FALSE
    Channels = {c1}
    Requests = {r1}
    HasImage = FALSE
    TrackWritten = FALSE
    MaxSpan = 2
    MaxFaults = 1
    MetaMayFail = TRUE
    MaxPowerLosses = 0
    MayShutdown = FALSE
PROPERTIES
    CopiedReadsComplete
\* The guest issues finitely many requests and then everything rests.
CHECK_DEADLOCK FALSE
