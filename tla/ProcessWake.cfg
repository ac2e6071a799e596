CONSTANTS
    TASK_MAX = 4
    Priority <- MCPriority
    Groups <- MCNoGroups
    JobMembers = {2, 3}
    JobHolders = {1, 2}
SPECIFICATION FairSpec
INVARIANT WokenMeansExited
CHECK_DEADLOCK FALSE
