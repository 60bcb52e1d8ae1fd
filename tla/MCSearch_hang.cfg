CONSTANTS
    w1 = w1
    w2 = w2
    N = 5
    Limit = 2
    JobsPerWorker = 1
    ResultsPerWorker = 1
    Workers <- TwoWorkers
    Trees <- LongTrees
    Rank <- LastFirst
SPECIFICATION Spec
PROPERTIES
    SearchReturns
CHECK_DEADLOCK FALSE
