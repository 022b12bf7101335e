SPECIFICATION SystemSpec
CONSTANTS
    Jobs = {j1}
    Replicas = {p1}
    Reads = {}
    Users = {u1}
    Workers = {w1}
    Types = {"video_process"}
    HandledTypes = {"video_process"}
    RequestedRetries = {0}
    ScanLimit = 1
    MishapBudget <- Once
    MaxKinds = 1
    WorkBudget <- CrewFaults
INVARIANTS AnsweredJobsAreQueued
PROPERTIES ImplementsQueue
