CONSTANTS
    w1 = w1
    w2 = w2
    Threads = {w1, w2}
    Payloads = {p1, p2}
    Claims = {good, bad1, bad2}
    Unfounded = {bad1, bad2}
    Scores = {1}
    Retries = 1
    Damaged = {p2}
    DamagedRubrics = {p1}
    Broken = Broken
    None = None
    Null = Null
    Missing = Missing
    Clients = {w1, w2}
    Workers = {w1, w2}
    Processes = {w1, w2}
    Projects = {1, 2}
    Names = {"n1", "n2"}
    Docs = {"a", "b", "c"}
    Qids = {"q1", "q2"}
    CaseFiles <- MCCaseFiles
    DocLists <- MCDocLists
    IndexedDocs = {1}
    Texts = {1, 2}
    Cuttings = {1, 2}
    ChunkCount <- MCChunkCount
    Builds <- MCBuilds
    Corpus = 1
    Items = {1, 2}
    MaxEdits = 2
    MaxUploads = 1
    TopK = 2
    UpsertBatch = 1
SPECIFICATION StoresSpec
SYMMETRY Symmetry
INVARIANTS
    StoresTypeOK
    VerdictsBounded
    RubricFitsClaims
    AnsweredAsStored
    RunOfOneProject
    BuildComplete
    ContextHonest
    ProgressDriftsOnlyShared
    OnlyReclaimDeadlocks
