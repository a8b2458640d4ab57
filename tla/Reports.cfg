CONSTANTS
    Cases = {1, 2}
    TopKs <- MCTopKs
    Yardsticks <- MCYardsticks
    Outcomes <- MCOutcomes
    Category <- MCCategory
    Annotated = {1}
    Targets = {"open", "fixed"}
    MaxOverlap = 1
    MaxCompareCases = 2
    Scale = 1000
    NoiseFloor = 2
    NoValue = NoValue
    NoMetric = NoMetric
    NoJudge = NoJudge
    NoRubric = NoRubric
    NoResult = NoResult
    NoNote = NoNote
SPECIFICATION Spec
INVARIANTS
    TypeOK
    FixedIsRepaired
    ClosedIsRepaired
    FixedWasJudged
    OneAnswer
    UnjudgedNotCompared
    StrataAgree
