\* A consumer and a producer thread of one process, and a thread of another.
CONSTANTS
    t1 = t1
    t2 = t2
    t3 = t3
    p1 = p1
    p2 = p2
    Thr <- MCThr
    Procs <- MCProcs
    Tgid <- MCTgid
    NoMap = NoMap
SPECIFICATION Spec
INVARIANT ProducerCounterWritable
