\* Main must get past "while (!running);" even in a build that reloads the
\* flags on every iteration of its spins.
CONSTANTS
    Main = Main
    w1 = w1
    w2 = w2
    Workers <- MCWorkers
    HoistedLoads = FALSE
SPECIFICATION Spec
PROPERTY MainTerminates
\* The program ends: main and the workers return.
CHECK_DEADLOCK FALSE
