SPECIFICATION FairSpec
CONSTANTS
    Callers = {c1}
    Senders = {s1}
    Channels = {ch1, ch2}
    Runs = {r1}
    Messages = {1, 2, 3, 4, 5, 6}
    NoRun = NoRun
    NoChannel = NoChannel
    NoMessage = NoMessage
    Serial = TRUE
    ReliableBus = FALSE
    MaxSends = 2
    MaxFaults = 2
CONSTRAINT HandedOutInOrder
INVARIANTS
    AtMostOneNotification
    AnswerMatchesStore
    ClosureAccountedFor
    EventsFollowLinks
PROPERTIES
    CallsEnd
    ClosureEventuallyNotified
