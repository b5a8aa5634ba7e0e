SPECIFICATION FSpec
CONSTANTS
    StripeCount = 3
    HeadersPerSector = 2
    SourceStripes = {0, 1, 2}
    SourceStripeCount = 3
    MaxConcurrentFetches = 2
    MaxFetchRetries = 1
    Autofetch = TRUE
INVARIANTS
    
    
    
    DisconnectedMeansFetched
 
