\* Distinct counter slots for listed producers.
CONSTANTS
    t1 = t1
    t2 = t2
    Tasks <- MCTasks
    Gids = {1}
    NSlots = 2
    MaxBeats = 1
    MaxTicks = 2
    MaxHistory = 2
    NoTask = NoTask
    NoSlot = NoSlot
SPECIFICATION Spec
CONSTRAINT HistoryBound
INVARIANT UniqueCounterSlots
