SPECIFICATION FairSpec
CONSTANTS
    VisFresh = 1
    BackoffMin = 1
    BackoffMax = 2
    MaxTick = 2
INVARIANTS
    TypeOK
    TrackingNeedsLiveVis
    LinkStatusIsTruthful
    StopLeavesNothing
PROPERTIES
    Reconnects
    StopIsFinal
