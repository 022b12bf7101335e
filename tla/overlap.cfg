SPECIFICATION Spec
CONSTANTS
    Jobs = {j1}
    Workers = {w1, w2}
    Types = {"video_process"}
    HandledTypes = {"video_process"}
    RequestedRetries = {2}
    ScanLimit = 1
    FaultBudget <- LateFault
PROPERTIES FinishedJobsNotOverwritten
