SPECIFICATION FairSpec
CONSTANTS
    Users = {u1, u2}
    Jobs = {j1, j2, j3}
    CheckErrors = 1
INVARIANTS TypeOK NoSendOnClosedChannel SendNeverBlocks AllJobsProcessed Tally
PROPERTIES GeneratorEnds
\* The program ends.
CHECK_DEADLOCK FALSE
