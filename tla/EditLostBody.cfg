SPECIFICATION Spec
CONSTANTS
    Editors = {e1, e2}
    Promoters = {p1}
    Messages = {m1}
    Bodies = {b1, b2}
    Histories = {1, 2, 3, 4}
    Windows <- AllWindows
    Unset = Unset
    NoMessage = NoMessage
    NoBody = NoBody
    NoHistory = NoHistory
    InverseEdges = TRUE
    JsonNumbers = TRUE
    MaxTime = 2
    MaxFaults = 0
SYMMETRY Ids
CONSTRAINT HandedOutInOrder
PROPERTY
    FullEditTrail
