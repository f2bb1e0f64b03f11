SPECIFICATION FairSpec
CONSTANTS
    HttpClients = {h1}
    RpcClients = {g1}
    Agencies <- AnyName
    EntityIds <- StoreIds
    MaxStarts = 2
INVARIANTS
    TypeOK
    ServedAsAsked
    NothingCutOff
    NotFoundMeansUnseeded
PROPERTIES
    ImplementsPromise
    SignalStops
    RetriesAnswered
