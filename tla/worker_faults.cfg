SPECIFICATION Spec
CONSTANTS
    Jobs = {j1}
    Workers = {w1, w2}
    Types = {"video_process"}
    HandledTypes = {"video_process"}
    RequestedRetries = {2}
    ScanLimit = 1
    FaultBudget <- WorkerFaults
SYMMETRY WorkerSymmetry
INVARIANTS TypeOK NeverGivesUpEarly NothingLost OneWorkerPerJob RetryLimit RetryingHasRetriesLeft EntriesHaveRows FailuresAreCounted
PROPERTIES OutcomesAreFinal
