CONSTANTS
    TASK_MAX = 4
    Priority <- MCPriority
    Groups <- MCGroups
    JobMembers = {2, 3}
    JobHolders = {1, 2}
SPECIFICATION FairSpec
INVARIANTS
    TasksConsistent
PROPERTIES
    DeadStaysDead
    ReadyRuns
    ExitWakesWaiter
CHECK_DEADLOCK FALSE
