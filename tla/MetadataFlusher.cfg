\* Stripes 0 and 1 share a sector, stripe 2 has its own; stripe 2 has no source.
SPECIFICATION MFSpec
CONSTANTS
    StripeCount = 3
    HeadersPerSector = 2
    SourceStripes = {0, 1}
    MaxConcurrentChanges = 1
    MaxQueue = 2
INVARIANTS
    
    BuffersConserved
    CountersExact
    
