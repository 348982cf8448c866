SPECIFICATION IoSpec
CONSTANTS
    MaxSockets = 5
    MaxStarts = 2
    Numbers = {1, 2, 3}
    FrameLen = 4
    MaxNoProgress = 2
    MaxTotal = 5
    PollEvery = 2
    Stale = 3
INVARIANTS
    DescriptorsAreOurs
    NoFrameInAnother
    ArmSwitchIsRecent
    LossIsLocal
PROPERTIES
    StopReturns
\* A line ends, and a server that was stopped for good does nothing more.
CHECK_DEADLOCK FALSE
