CONSTANTS
    t1 = t1
    dt = dt
    dw = dw
    do = do
    None = None
    Unread = Unread
    Isr = Isr
    Endless = Endless
    MAX_CPUS = 2
    KDPC = {dt, dw, do}
    Threaded = {dw, do}
    HighImportance = {dw}
    DPC_BATCH_LIMIT = 1
    DPC_THREADED_BATCH_LIMIT = 1
    Home = 1
    Timer = {t1}
    TimerDpc <- MCTimerDpc
    Mine = {dt, dw}
    Irq <- MCIrq
    DueIn <- MCDueIn
    Period <- MCPeriod
SPECIFICATION Spec
INVARIANTS
    DpcInv
    FlushIsBarrier
    NoUseAfterFree
PROPERTIES
    QueuedRuns

