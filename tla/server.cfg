SPECIFICATION FairSpec
CONSTANTS
    Jobs = {j1}
    Replicas = {p1, p2}
    Reads = {r1}
    Users = {u1, u2}
    Types = {"video_process"}
    HandledTypes = {"video_process"}
    RequestedRetries = {0}
    ScanLimit = 1
    MishapBudget <- Once
    MaxKinds = 2
INVARIANTS TypeOK NoUseAfterClose GracefulStopStrandsNoJob ReadsShowWhatWasAccepted
PROPERTIES ImplementsSubmission ReplicasServeAgain
\* Replicas that serve may wait for requests for ever.
CHECK_DEADLOCK FALSE
