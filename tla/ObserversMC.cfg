SPECIFICATION Spec
CONSTANTS
    NoLine = NoLine
    Lines <- MCLines
    Resumed = FALSE
    Faults = TRUE
    MaxLines = 3
    MaxSpanEvents = 2
    Nodes = {"a", "b", "x"}
    Root = "root"
    Parent <- MCParent
    Contents = {"f0", "f1"}
    NameOrder <- MCNameOrder
    MaxStateChanges = 2
    IgnoredDirs = {"x"}
    StartTrees <- MCStartTrees
    QueueSize = 2
    MaxChanges = 3
    WatchesFail = TRUE
    RecordingFails = TRUE
INVARIANTS
    TranscriptIsAPrefix
    LossIsExplained
    SpansTellTheCalls
    RoundTrip
    NoUnreportedBlindSpot
    ArtifactsTellTheFiles
    DiffTellsTheChange
PROPERTIES
    StreamEnds
    CheckpointsCatchUp
CHECK_DEADLOCK FALSE
