SPECIFICATION Spec
CONSTANTS
    NoId = 0
    Openers = {o1, o2}
    ItemIds = {1, 2, 3}
    TestIds = {"t"}
    Composers = {r1}
    ItemSpecs <- MCItemSpecs
    ComposeSpecs <- MCComposeSpecs
    Filters <- MCFilters
    Limits = {0, 1, 9}
    Offsets <- MCOffsets
    DefaultPageLimit = 2
    MaxPageLimit = 3
    MaxInt = 7
INVARIANTS StoresAgree StoredTestIsAPlan PagesCover OpenIsUpToDate
PROPERTIES TakesTheEasiest MigrationsKeepData
CHECK_DEADLOCK FALSE
