SPECIFICATION Spec
CONSTANTS
    r1 = r1
    r2 = r2
    Recalls <- MCRecalls
    Size = 2
    Bm25TopK = 2
    RecallTopK = 2
    RrfTopK = 2
    FinalTopK = 2
    RerankBatch = 1
    MaxRecalls = 2
    MaxChanges = 1
    MaxFailures <- MCMaxFailures
INVARIANTS
    KeywordsFresh
    AgreedFirst
    ShownOnce
    DegradationReported
SYMMETRY Symmetry
CHECK_DEADLOCK FALSE
