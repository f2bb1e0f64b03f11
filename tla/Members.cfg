SPECIFICATION FairSpec
CONSTANTS
    Clients = {1, 2}
    Participants = {11, 12}
    Channels = {1, 2, 3}
    Messages = {m1}
    Users = {u1}
    Emojis = {1, 2}
    Unknown = Unknown
    NoUser = NoUser
    NoChannel = NoChannel
    NoEmoji = NoEmoji
    MaxRequests = 2
    MaxFaults = 1
CHECK_DEADLOCK FALSE
CONSTRAINTS HandedOutInOrder OneTrouble SmallStart
INVARIANTS
    TypeOK
    AnsweredDMComplete
    EventsFollowMembers
    SuccessIsTrue
PROPERTIES
    ReadsSucceed
    RetriesTakeEffect
    ImplementsPromise
