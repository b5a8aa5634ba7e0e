SPECIFICATION FairSpec
CONSTANT Parts = {"includes", "secrets", "load", "keys", "metadata", "xts", "retry"}
INVARIANTS
    IncludesMerged SafeByDefault  OpensOwnKeys
    SavedIsDurable RoundTrip
PROPERTIES SecretsWellDefined ThrottlingObeyed
\* Loading, resolving, opening and the tools end.
CHECK_DEADLOCK FALSE
