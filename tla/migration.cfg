SPECIFICATION Spec
CONSTANTS
    Latest = 2
    MaxAttempts = 3
    Keeps <- EitherWay
    MaxKills = 2
    MaxRestarts = 2
INVARIANTS TypeOK SuccessMeansMigrated EachMigrationOnce NoGaps
\* The job ends, one way or the other.
CHECK_DEADLOCK FALSE
