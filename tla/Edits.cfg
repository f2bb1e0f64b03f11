SPECIFICATION Spec
CONSTANTS
    Editors = {e1, e2}
    Promoters = {p1}
    Messages = {m1}
    Bodies = {b1, b2}
    Histories = {1, 2}
    Windows <- AllWindows
    Unset = Unset
    NoMessage = NoMessage
    NoBody = NoBody
    NoHistory = NoHistory
    InverseEdges = TRUE
    JsonNumbers = TRUE
    MaxTime = 2
    MaxFaults = 1
CHECK_DEADLOCK FALSE
SYMMETRY Ids
CONSTRAINT HandedOutInOrder
INVARIANTS
    TypeOK
    EditCountRecorded
    SpareSnapshotsExplained
    EventsFollowWrites
PROPERTIES
    EditTrailComplete
    EditCountIncremented
    EditsRespectWindow
    PromotionSticks
    ImplementsPromise
