SPECIFICATION FairSpec
CONSTANTS
    Key = {k1, k2}
    Text = {t1}
    Modulus = 2
    Ticks = 2
    MaxSeconds = 1
    None = None
    CleanTicks = 1
    ExpireOnlyLive = TRUE
INVARIANT TypeOK
PROPERTIES
    ImplementsAbstractCache
    ExpiredIsReclaimed
