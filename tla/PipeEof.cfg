CONSTANTS
    r1 = r1
    r2 = r2
    w1 = w1
    Nobody = Nobody
    Readers = {r1, r2}
    Writers = {w1}
    Threads = {r1, r2, w1}
    Fast = {}
    Semaphores <- MCSemaphores
    SEM_MAX_WAITERS = 3
    PIPE_BUF_SIZE = 2
    MaxLen = 2
    MaxBytes = 3
SPECIFICATION FairSpec
PROPERTY EofReachesReaders
CHECK_DEADLOCK FALSE
