\* Two tabs of one taker, no faults, a clock that only advances, memory store.
CONSTANTS
    Items = {"a", "b"}
    Answers = {k1, nan}
    NonFinite = {nan}
    NoItem = NoItem
    NoAnswer = NoAnswer
    Absent = Absent
    Gone = Gone
    Handlers = {h1, h2}
    Sections <- MCSections
    Band <- MCBand
    Time = {1, 2, 3}
    Adaptive = FALSE
    Budget = 0
    Backend = "memory"
    Hazards = {}
SPECIFICATION FairSpec
PROPERTY TakerGetsThrough
CHECK_DEADLOCK FALSE
