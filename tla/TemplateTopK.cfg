CONSTANTS
    c1 = c1
    c2 = c2
    Clients = {c1, c2}
    MaxId = 3
    Absent = Absent
    NoUser = NoUser
    ListLimit = 1
    MaxAnnotations = 2
    Editors = {c1, c2}
    RunCases = {"k1"}
    Reasons <- MCReasons
    NoAnnotation = NoAnnotation
    NoGold = NoGold
    NoScore = NoScore
    MaxDisagreements = 1
    Cases = {1, 2}
    GoldAnnotators = {1, 2}
    GoldScores = {4}
    NoResult = NoResult
    Scale = 1
    NoiseFloor = 0
    ReadLimits = {1, 500}
    NoValue = NoValue
    NoMetric = NoMetric
    NoJudge = NoJudge
    NoRubric = NoRubric
    Rejected = Rejected
    Empty = Empty
    Blank = ""
    MaxTopK = 6
    MaxTemperature = 2
    CaseResults <- MCCaseResults
    Category <- MCCategory
    Servers <- MCServers
    Bodies <- MCBodies
    Forms <- MCForms
    DefaultChunking <- MCChunking
    EmptyForm <- MCEmptyForm
    Corpora = {1}
    Differences <- MCDifferences
    MaxPairs = 6
SPECIFICATION PeopleSpec
SYMMETRY RequestSymmetry
CHECK_DEADLOCK FALSE
INVARIANTS
    TemplateKeepsTopK
