\* Two producer threads, two window-table entries, one of them may be killed.
CONSTANTS
    Thr = {t1, t2}
    NWin = 2
    R = 4
    Sizes = {1, 2}
    MaxCrashes = 1
SPECIFICATION Spec
INVARIANT TypeOK
INVARIANT GoalLockAccounted
PROPERTY OperationsComplete
\* A thread killed inside a critical section leaves goal_lock set and every
\* other spinner, hrm_show included, waits on it forever: the system really
\* stops there (MC_HrmGoal_show.cfg reports it as ShowCompletes).
CHECK_DEADLOCK FALSE
