SPECIFICATION FairSpec
CONSTANTS
    ThrMin = 1
    ThrSpool = 2
    ThrLandMin = 3
    ThrTakeoffTarget = 4
    ThrAltHoldMax = 6
    ThrMax = 7
    LandRate = 1
    DisarmTime = 3
    SpoolTime = 1
    RampTime = 1
    HoldTime = 1
    TrackTimeout = 1
    MaxControlDt = 1
    SeqMod = 2
    Hover = 5
    CmdTimeout = 2
    MaxLoop = 1
    Payloads <- FlyPayloads
    FollowThr <- MCFollowThr
PROPERTIES
    LinkLossDisarms
