\* Main's goal calls reach the page of a live group.
CONSTANTS
    Main = Main
    w1 = w1
    w2 = w2
    Workers <- MCWorkers
    HoistedLoads = FALSE
SPECIFICATION Spec
INVARIANT MainGoalPageLive
\* The program ends: main and the workers return.
CHECK_DEADLOCK FALSE
