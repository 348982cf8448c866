SPECIFICATION Spec
CONSTANTS
    VisFresh = 1
    BackoffMin = 1
    BackoffMax = 2
    MaxTick = 2
INVARIANTS
    ForwardedSampleIsFresh
