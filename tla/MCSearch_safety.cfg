CONSTANTS
    w1 = w1
    w2 = w2
    N = 4
    Limit = 2
    JobsPerWorker = 1
    ResultsPerWorker = 1
    Workers <- TwoWorkers
    Trees <- EveryTree
    Rank <- LastFirst
SPECIFICATION Spec
SYMMETRY Symmetry
INVARIANTS
    TypeOK
    ErrorRoom
    BudgetExact
    NoSilentFailure
    NothingRunsOn
    ShortPageComplete
    FetchBound
CHECK_DEADLOCK FALSE
