SPECIFICATION FairSpec
CONSTANTS
    Gets = {g1, g2, g3}
    Posts = {s1}
    MaxVersion = 3
    MaxMounts = 2
    MaxFailures = 1
INVARIANTS TypeOK NothingFromBeforeMount FollowUpHasTheJob
PROPERTIES ListCatchesUp PollingStops
\* The dashboard may have been closed for the last time.
CHECK_DEADLOCK FALSE
