SPECIFICATION Spec
CONSTANTS
    Callers = {c1, c2}
    Senders = {s1}
    Channels = {ch1, ch2}
    Runs = {r1}
    Messages = {1, 2, 3, 4, 5, 6}
    NoRun = NoRun
    NoChannel = NoChannel
    NoMessage = NoMessage
    Serial = TRUE
    ReliableBus = TRUE
    MaxSends = 2
    MaxFaults = 1
SYMMETRY Ids
CONSTRAINT HandedOutInOrder
INVARIANT
    NotifiedChannelsAnnounced
