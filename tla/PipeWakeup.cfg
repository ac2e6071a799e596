CONSTANTS
    r1 = r1
    r2 = r2
    w1 = w1
    Nobody = Nobody
    Readers = {r1}
    Writers = {w1}
    Threads = {r1, w1}
    Fast = {r1, w1}
    Semaphores <- MCSemaphores
    SEM_MAX_WAITERS = 2
    PIPE_BUF_SIZE = 1
    MaxLen = 1
    MaxBytes = 1
SPECIFICATION FairSpec
PROPERTY RacingReaderSeesPermit
CHECK_DEADLOCK FALSE
