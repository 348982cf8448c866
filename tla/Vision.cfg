SPECIFICATION ProcessSpec
CONSTANTS
    detect_hold_n = 3
    search_n = 2
    Paces = {1, 3}
    target_detected_grace_frames = 1
    Decay = 70
    Floor = 50
    Places = {1, 2, 3}
    Confs = {100, 60, 40}
    Misses = TRUE
    TrackerKind = "wanders"
    ImgW = 2
    ImgH = 1
    Coords <- MCCoords
    Sizes = {0, 1, 2, 3}
    black_frames_after_open = 1
    BackoffInitial = 1
    BackoffMax = 3
    VisInterval = 1
    FrameInterval = 6
    PushMax = 2
    WarnAfter = 2
    AgeCap = 8
INVARIANTS
    PipelineIsSound
    ConfidenceIsEarned
    GeometryIsSound
    LoopIsSound
    VisKeepsComing
PROPERTIES
    TargetSettles
    CameraRecovers
\* A look at a box is one step, and the loop ends when its source does.
CHECK_DEADLOCK FALSE
