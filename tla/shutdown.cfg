SPECIFICATION Spec
CONSTANTS
    Jobs = {j1}
    Workers = {w1}
    Types = {"video_process"}
    HandledTypes = {"video_process"}
    RequestedRetries = {2}
    ScanLimit = 1
    FaultBudget <- SigtermFault
PROPERTIES FinishedHandlerIsRecorded
