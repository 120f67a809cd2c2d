\* Racing requests under bank edits, dying requests and a clock set back.
CONSTANTS
    Items = {"a", "b"}
    Answers = {k1}
    NonFinite = {}
    NoItem = NoItem
    NoAnswer = NoAnswer
    Absent = Absent
    Gone = Gone
    Handlers = {h1, h2}
    Sections <- MCSections
    Band <- MCBand
    Time = {1, 2, 3}
    Adaptive = FALSE
    Budget = 1
    Backend = "sqlite"
    Hazards = {"edit", "drop", "stepback"}
SYMMETRY HandlerSymmetry
SPECIFICATION Spec
PROPERTIES ImplementsAttempt LoserWasOvertaken
CHECK_DEADLOCK FALSE
