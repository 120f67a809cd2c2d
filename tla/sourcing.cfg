SPECIFICATION Spec
CONSTANTS
    NoId <- MCNoId
    NoOne = "nobody"
    Clients = {"server1", "server2", "cli"}
    ProcessOf <- MCProcessOf
    Refs <- MCRefs
    Requests <- MCRequests
    MayAsk <- MCMayAsk
    Backend <- MCBackend
    Streams <- MCStreams
    Servers = {"server"}
    TokensCap = 8
    AllowedModels = {"m"}
    PayloadCap = 10
INVARIANTS NoDanglingMedia ReportIsTruthful KeyedAsMarked LimitsHold GeneratedHasOneAnswer
PROPERTIES IdNamesContent BlobsKeepTheirPromise
CHECK_DEADLOCK FALSE
