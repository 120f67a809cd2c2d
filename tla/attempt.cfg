\* Every sequence of answers under the staircase, with instants before, at
\* and after the deadline and a clock that may step back, and the score of
\* each asked for while the bank is edited.
CONSTANTS
    Items = {"a", "b", "c", "d", "e"}
    Answers <- MCAnswers
    NonFinite = {}
    NoItem = NoItem
    Absent = Absent
    Sections <- MCSections
    Band <- MCBand
    Time = {1, 3, 4}
    Adaptive = TRUE
    Budget = 2
    Norm <- MCNorm
    Contents <- MCContents
    EditsBound = 1
SPECIFICATION ScoringSpec
INVARIANTS NoItemTwice WithinBudget RightNeverEasier TimeAccounted FeedbackIsHonest AbilityWithinDelivered
PROPERTIES NeverRewritten ScoreIsFrozen
CHECK_DEADLOCK FALSE
