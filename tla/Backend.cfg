SPECIFICATION BackendSpec
CONSTANTS
    Viewers = {1, 2}
    Ingests = {"tel"}
    Causes = {}
    QueueMax = 2
    KeepsUp = FALSE
    MaxSeq = 4
    Endless = FALSE
    Addresses = {"a", "b"}
    Rates <- MCRates
    RawTokens = {"unset", "blank", "plain", "padded", "unsafe"}
    MaxTime = 6
    Datagrams <- MCDatagrams
    MaxCycles = 2
    MaxSent = 2
    MaxFlight = 2
    Streams = {1}
    Requests = {1, 2}
    Kinds = {"good", "headers", "garbage"}
    Fresh = 1
    Period = 1
    Lag = 1
    MaxPosts = 2
    Steps = 3
    MaxCrashes = 2
INVARIANTS
    GateIsSound
    LiveViewIsRecent
    BackOnlyByGivenUp
    IngestIsSound
    RowsAreTrue
PROPERTIES
    FeedsEachViewer
\* Threads, posts and time stop at the bounds, and a script ends.
CHECK_DEADLOCK FALSE
