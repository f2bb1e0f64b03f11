SPECIFICATION Spec
CONSTANTS
    Callers = {c1, c2}
    Senders = {s1}
    Channels = {ch1}
    Runs = {r1, r2}
    Messages = {1, 2, 3, 4, 5}
    NoRun = NoRun
    NoChannel = NoChannel
    NoMessage = NoMessage
    Serial = TRUE
    ReliableBus = TRUE
    MaxSends = 2
    MaxFaults = 1
SYMMETRY Ids
CONSTRAINT HandedOutInOrder
INVARIANTS
    TypeOK
    AtMostOneNotification
    AnswerMatchesStore
    ClosureAccountedFor
    OnlyClosureNotified
    EventsFollowLinks
    NamedNotificationsAnnounced
PROPERTY
    ImplementsPromise
