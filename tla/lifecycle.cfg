SPECIFICATION FairSpec
CONSTANTS
    Jobs = {j1, j2}
    Workers = {w1, w2}
    Types = {"video_process", "video_compression"}
    HandledTypes = {"video_process"}
    RequestedRetries = {2}
    ScanLimit = 1
    FaultBudget <- LifeFaults
CONSTRAINT FewEvents
PROPERTIES ImplementsLifecycle AcceptedJobsFinish AnnouncedJobsAreServed
