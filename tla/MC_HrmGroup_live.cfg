\* Safety of membership, registry and group lifetime; every started
\* operation completes.
CONSTANTS
    t1 = t1
    t2 = t2
    Tasks <- MCTasks
    Gids = {1}
    NSlots = 2
    MaxBeats = 1
    MaxTicks = 1
    MaxHistory = 1
    NoTask = NoTask
    NoSlot = NoSlot
SPECIFICATION Spec
CONSTRAINT HistoryBound
INVARIANT TypeOK
INVARIANT MembersOnLiveGroups
INVARIANT RegistryIffMembers
INVARIANT ProducerGroupsTick
PROPERTY OperationsComplete
\* A task may stop making calls for good, and the run then ends.
CHECK_DEADLOCK FALSE
