\* Requests lost, late and repeated, countdowns and a running budget.
CONSTANTS
    Items = {"a", "b"}
    Answers = {k1, blank}
    NonFinite = {}
    Blank = blank
    NoItem = NoItem
    Absent = Absent
    Sections <- MCSections
    Band <- MCBand
    Adaptive = FALSE
    PerItem = TRUE
    Attended = TRUE
    MaxFaults = 2
    Budget = 1
    Time = {1, 3}
SPECIFICATION FairSpec
INVARIANTS GradedAsChosen CompletedIsExhausted AckMeansRecorded
PROPERTY UndisturbedTakerFinishes
CHECK_DEADLOCK FALSE
