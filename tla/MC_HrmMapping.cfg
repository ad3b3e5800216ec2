\* Three threads, two of them in one process, attaching in either role,
\* with failing mmaps.
CONSTANTS
    t1 = t1
    t2 = t2
    t3 = t3
    p1 = p1
    p2 = p2
    NoMap = NoMap
    Thr <- MCThr
    Procs <- MCProcs
    Tgid <- MCTgid
SPECIFICATION Spec
INVARIANT TypeOK
INVARIANT RefsBoundedByHolders
