\* The budget runs out before an answer.
CONSTANTS
    Items = {"a", "b"}
    Answers = {k1, blank}
    NonFinite = {}
    Blank = blank
    NoItem = NoItem
    Absent = Absent
    Sections <- MCSections
    Band <- MCBand
    Adaptive = FALSE
    PerItem = FALSE
    Attended = TRUE
    MaxFaults = 0
    Budget = 1
    Time = {1, 3}
SPECIFICATION FairSpec
PROPERTY TakerFinishes
CHECK_DEADLOCK FALSE
