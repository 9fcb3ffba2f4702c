SPECIFICATION FairSpec
CONSTANTS
    INTERVAL = 1
    POLL = 6
    SYNC = 3
    LOGS = 2
    RESTART = 1
    CAP = 5
    MAX_EXP = 2
    MIN_AFTER = 2
    RETRY_AFTER <- RetryAfters
    CALL = 1
    READ = 1
    MaxAge = 13
INVARIANTS KeepsPace PolicyIsFresh StopsInTime
PROPERTIES BacksOff UploadsResume
