\* The operator deletes items under a running attempt.
CONSTANTS
    Items = {"a", "b"}
    Answers = {k1}
    NonFinite = {}
    NoItem = NoItem
    NoAnswer = NoAnswer
    Absent = Absent
    Gone = Gone
    Handlers = {h1}
    Sections <- MCSections
    Band <- MCBand
    Time = {1, 3}
    Adaptive = FALSE
    Budget = 1
    Backend = "sqlite"
    Hazards = {"edit"}
SPECIFICATION Spec
PROPERTY CommitPresentsFetchable
CHECK_DEADLOCK FALSE
