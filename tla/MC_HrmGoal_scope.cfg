\* Producer threads racing on the goal, nobody killed.
CONSTANTS
    Thr = {t1, t2}
    NWin = 2
    R = 4
    Sizes = {1, 2}
    MaxCrashes = 0
SPECIFICATION Spec
INVARIANT ScopeWindowConfigured
