------------------------------ MODULE HrmGroup ------------------------------
(***************************************************************************)
(* Group lifecycle, membership and counter slots of the Heart Rate Monitor *)
(* (kernel/hrm.c).  Threads (Tasks) attach to and detach from groups as    *)
(* producers or consumers, producers emit heartbeats into their own        *)
(* counter slot, and every started group runs a periodic tick that sums    *)
(* history + all listed producers' counters into measures->global.count.   *)
(*                                                                         *)
(* Locks: hrm_groups_lock is the variable regLock.  Every section the code *)
(* runs under the group's members_lock (write side) is one atomic step, so *)
(* the tick (which holds the read side for its whole body) never overlaps  *)
(* one.  Code that runs under no lock at all -- the prefix of              *)
(* hrm_delete_producer_task_from_group, and the bitmap read-modify-write   *)
(* of bitmap_find_free_region/bitmap_release_region -- is split into one   *)
(* step per shared-memory load or store, because that is where the code   *)
(* races with the tick and with other threads.                             *)
(***************************************************************************)
EXTENDS Integers, FiniteSets, FiniteSetsExt

CONSTANTS
    Tasks,      \* threads (task_struct) that use the monitor
    Gids,       \* group ids that may be used
    NSlots,     \* HRM_GROUP_SIZE: counter slots per group
    MaxBeats,   \* bound on a slot's heartbeat counter
    MaxTicks,   \* bound on the ticks of one group instance
    MaxHistory, \* bound on history.history (state constraint)
    NoTask,     \* model value: lock free / slot without owner
    NoSlot      \* model value: task is not a producer of the group

ASSUME NSlots \in Nat \ {0} /\ MaxBeats \in Nat /\ MaxTicks \in Nat /\ MaxHistory \in Nat
ASSUME NoTask \notin Tasks /\ NoSlot \notin Nat /\ Gids \subseteq Nat \ {0}

Slots == 0 .. NSlots - 1

VARIABLES
    regLock,    \* hrm_groups_lock: holder or NoTask
    registry,   \* gids of the groups linked in hrm_groups
    grp,        \* grp[g]: the struct hrm_group of gid g (alive = allocated)
    prod,       \* prod[t][g]: counter_index of t's hrm_producer for g, or NoSlot
    cons,       \* cons[t]: gids t has an hrm_consumer for
    pc,         \* where each task is in its current operation
    lg,         \* local: the group the in-flight operation works on
    lval,       \* local: history value loaded for "history += counter"
    lbm,        \* local: bitmap word loaded for the allocate/release RMW
    left        \* local: groups hrm_delete_producer_task_from_all_groups still has to visit

vars == <<regLock, registry, grp, prod, cons, pc, lg, lval, lbm, left>>

PCs == {"idle", "pa_store", "hist_store", "rel_load", "rel_store", "unlink",
        "all_load", "cx", "exited"}

(* A group as __hrm_create_group leaves it: zeroed pages, empty bitmap,    *)
(* timestamp 0 (timer not started).                                        *)
NewGroup ==
    [alive |-> TRUE, history |-> 0, bitmap |-> {},
     counter |-> [i \in Slots |-> 0], used |-> [i \in Slots |-> FALSE],
     owner |-> [i \in Slots |-> NoTask],
     started |-> FALSE, ticks |-> 0, gcount |-> 0]

(* The storage of a group after __hrm_destroy_group: nobody may read it.   *)
FreeGroup == [NewGroup EXCEPT !.alive = FALSE]

Producers(g) == {t \in Tasks : prod[t][g] # NoSlot}
Members(g) == Producers(g) \cup {t \in Tasks : g \in cons[t]}

(* Removing consumer t leaves g without members (the list_empty tests). *)
LastMember(t, g) == Producers(g) = {} /\ \A u \in Tasks \ {t} : g \notin cons[u]

(* bitmap_find_free_region(..., 0): the lowest clear bit. *)
FirstFree(bm) == Min(Slots \ bm)

(* The sum the tick forms: history + the counter of every producer on the *)
(* group's list (a slot listed twice is summed twice, as the loop does).  *)
ListedSum(g) ==
    grp[g].history + MapThenSumSet(LAMBDA t : grp[g].counter[prod[t][g]], Producers(g))

Init ==
    /\ regLock = NoTask
    /\ registry = {}
    /\ grp = [g \in Gids |-> FreeGroup]
    /\ prod = [t \in Tasks |-> [g \in Gids |-> NoSlot]]
    /\ cons = [t \in Tasks |-> {}]
    /\ pc = [t \in Tasks |-> "idle"]
    /\ lg = [t \in Tasks |-> CHOOSE g \in Gids : TRUE]
    /\ lval = [t \in Tasks |-> 0]
    /\ lbm = [t \in Tasks |-> {}]
    /\ left = [t \in Tasks |-> {}]

-----------------------------------------------------------------------------
(* hrm_add_producer_task_to_group, up to the scan of the counter bitmap:   *)
(* take hrm_groups_lock, find or create the group, load the bitmap word    *)
(* and pick its first clear bit.  The CapacityExhausted path (no clear     *)
(* bit) unwinds to the state it started from and is not a step.           *)
AttachProducer(t, g) ==
    /\ pc[t] = "idle"
    /\ prod[t][g] = NoSlot
    /\ regLock = NoTask
    /\ LET G == IF g \in registry THEN grp[g] ELSE NewGroup
       IN  /\ Slots \ G.bitmap # {}
           /\ grp' = [grp EXCEPT ![g] = G]
           /\ lbm' = [lbm EXCEPT ![t] = G.bitmap]
    /\ regLock' = t
    /\ lg' = [lg EXCEPT ![t] = g]
    /\ pc' = [pc EXCEPT ![t] = "pa_store"]
    /\ UNCHANGED <<registry, prod, cons, lval, left>>

(* Mutant: the timer is started only when this call created the group    *)
(* (test group_exists instead of the timestamp).                          *)
AttachProducerStoreExistsTest(t) ==
    LET g == lg[t]
        idx == FirstFree(lbm[t])
        G == grp[g]
        created == g \notin registry
    IN
    /\ pc[t] = "pa_store"
    /\ grp' = [grp EXCEPT ![g] = [G EXCEPT !.bitmap = lbm[t] \cup {idx},
                                           !.used[idx] = TRUE,
                                           !.owner[idx] = t,
                                           !.started = G.started \/ created]]
    /\ registry' = registry \cup {g}
    /\ prod' = [prod EXCEPT ![t][g] = idx]
    /\ regLock' = NoTask
    /\ lbm' = [lbm EXCEPT ![t] = {}]
    /\ pc' = [pc EXCEPT ![t] = "idle"]
    /\ UNCHANGED <<cons, lg, lval, left>>

(* Mutant: the producer records the slot one past the one allocated. *)
AttachProducerStoreOffByOne(t) ==
    LET g == lg[t]
        idx == FirstFree(lbm[t])
        G == grp[g]
    IN
    /\ pc[t] = "pa_store"
    /\ grp' = [grp EXCEPT ![g] = [G EXCEPT !.bitmap = lbm[t] \cup {idx},
                                           !.used[idx] = TRUE,
                                           !.owner[idx] = t,
                                           !.started = TRUE]]
    /\ registry' = IF G.started THEN registry ELSE registry \cup {g}
    /\ prod' = [prod EXCEPT ![t][g] = idx + 1]
    /\ regLock' = NoTask
    /\ lbm' = [lbm EXCEPT ![t] = {}]
    /\ pc' = [pc EXCEPT ![t] = "idle"]
    /\ UNCHANGED <<cons, lg, lval, left>>

(* The rest of hrm_add_producer_task_to_group: store the bitmap word with  *)
(* the chosen bit set, fill in tid and used (the counter is NOT reset),    *)
(* link the producer under the write lock, and on the group's first        *)
(* producer register it (if this call created it), set the timestamp and  *)
(* start the timer; then drop hrm_groups_lock.                            *)
AttachProducerStore(t) ==
    LET g == lg[t]
        idx == FirstFree(lbm[t])
        G == grp[g]
    IN
    /\ pc[t] = "pa_store"
    /\ grp' = [grp EXCEPT ![g] = [G EXCEPT !.bitmap = lbm[t] \cup {idx},
                                           !.used[idx] = TRUE,
                                           !.owner[idx] = t,
                                           !.started = TRUE]]
    /\ registry' = IF G.started THEN registry ELSE registry \cup {g}
    /\ prod' = [prod EXCEPT ![t][g] = idx]
    /\ regLock' = NoTask
    /\ lbm' = [lbm EXCEPT ![t] = {}]
    /\ pc' = [pc EXCEPT ![t] = "idle"]
    /\ UNCHANGED <<cons, lg, lval, left>>

(* heartbeat(): __sync_add_and_fetch on the caller's own counter slot. *)
Heartbeat(t, g) ==
    LET idx == prod[t][g] IN
    /\ pc[t] = "idle"
    /\ idx # NoSlot
    /\ grp[g].counter[idx] < MaxBeats
    /\ grp' = [grp EXCEPT ![g].counter[idx] = @ + 1]
    /\ UNCHANGED <<regLock, registry, prod, cons, pc, lg, lval, lbm, left>>

(* hrm_delete_producer_task_from_group, lock-free prefix: clear used and  *)
(* load history + counter for "group->history.history += counter".        *)
DetachProducer(t, g) ==
    LET idx == prod[t][g] IN
    /\ pc[t] = "idle"
    /\ idx # NoSlot
    /\ grp' = [grp EXCEPT ![g].used[idx] = FALSE]
    /\ lval' = [lval EXCEPT ![t] = grp[g].history + grp[g].counter[idx]]
    /\ lg' = [lg EXCEPT ![t] = g]
    /\ pc' = [pc EXCEPT ![t] = "hist_store"]
    /\ UNCHANGED <<regLock, registry, prod, cons, lbm, left>>

(* Store half of "history += counter" (plain, non-atomic store). *)
HistoryStore(t) ==
    /\ pc[t] = "hist_store"
    /\ grp' = [grp EXCEPT ![lg[t]].history = lval[t]]
    /\ lval' = [lval EXCEPT ![t] = 0]
    /\ pc' = [pc EXCEPT ![t] = "rel_load"]
    /\ UNCHANGED <<regLock, registry, prod, cons, lg, lbm, left>>

(* __hrm_release_group_counter: bitmap_release_region clears the bit with *)
(* a non-atomic read-modify-write of the bitmap word: load ...            *)
ReleaseLoad(t) ==
    /\ pc[t] = "rel_load"
    /\ lbm' = [lbm EXCEPT ![t] = grp[lg[t]].bitmap]
    /\ pc' = [pc EXCEPT ![t] = "rel_store"]
    /\ UNCHANGED <<regLock, registry, grp, prod, cons, lg, lval, left>>

(* ... and store. *)
ReleaseStore(t) ==
    /\ pc[t] = "rel_store"
    /\ grp' = [grp EXCEPT ![lg[t]].bitmap = lbm[t] \ {prod[t][lg[t]]}]
    /\ lbm' = [lbm EXCEPT ![t] = {}]
    /\ pc' = [pc EXCEPT ![t] = "unlink"]
    /\ UNCHANGED <<regLock, registry, prod, cons, lg, lval, left>>

(* Mutant: delete_all returns without dropping hrm_groups_lock. *)
UnlinkKeepsLock(t) ==
    LET g == lg[t]
        prod1 == [prod EXCEPT ![t][g] = NoSlot]
        empty == \A u \in Tasks : prod1[u][g] = NoSlot /\ g \notin cons[u]
        rest == left[t] \ {g}
    IN
    /\ pc[t] = "unlink"
    /\ regLock \in {NoTask, t}
    /\ prod' = prod1
    /\ registry' = IF empty THEN registry \ {g} ELSE registry
    /\ grp' = IF empty THEN [grp EXCEPT ![g] = FreeGroup] ELSE grp
    /\ left' = [left EXCEPT ![t] = rest]
    /\ regLock' = IF left[t] = {} THEN NoTask ELSE t
    /\ pc' = [pc EXCEPT ![t] = IF left[t] = {} THEN "idle"
                                ELSE IF rest = {} THEN "cx" ELSE "all_load"]
    /\ UNCHANGED <<cons, lg, lval, lbm>>

(* The locked tail of a producer detach: under hrm_groups_lock (already   *)
(* held inside delete_all) and the write lock, unlink the producer, drop  *)
(* its memory-map references, and if the group has no member left         *)
(* deregister and destroy it (hrtimer_cancel, free pages).  A single      *)
(* detach then drops the lock; delete_all goes on with its next group or  *)
(* drops the lock when none is left.                                      *)
Unlink(t) ==
    LET g == lg[t]
        prod1 == [prod EXCEPT ![t][g] = NoSlot]
        empty == \A u \in Tasks : prod1[u][g] = NoSlot /\ g \notin cons[u]
        rest == left[t] \ {g}
    IN
    /\ pc[t] = "unlink"
    /\ regLock \in {NoTask, t}
    /\ prod' = prod1
    /\ registry' = IF empty THEN registry \ {g} ELSE registry
    /\ grp' = IF empty THEN [grp EXCEPT ![g] = FreeGroup] ELSE grp
    /\ left' = [left EXCEPT ![t] = rest]
    /\ regLock' = IF rest = {} THEN NoTask ELSE t
    /\ pc' = [pc EXCEPT ![t] = IF left[t] = {} THEN "idle"
                                ELSE IF rest = {} THEN "cx" ELSE "all_load"]
    /\ UNCHANGED <<cons, lg, lval, lbm>>

(* Task exit: hrm_delete_producer_task_from_all_groups takes             *)
(* hrm_groups_lock for the whole walk over the task's producers.  A task  *)
(* without producers gets -EINVAL and goes on to the consumer cleanup.   *)
ExitTask(t) ==
    LET mine == {g \in Gids : prod[t][g] # NoSlot} IN
    /\ pc[t] = "idle"
    /\ \/ /\ mine # {}
          /\ regLock = NoTask
          /\ regLock' = t
          /\ left' = [left EXCEPT ![t] = mine]
          /\ pc' = [pc EXCEPT ![t] = "all_load"]
       \/ /\ mine = {}
          /\ pc' = [pc EXCEPT ![t] = "cx"]
          /\ UNCHANGED <<regLock, left>>
    /\ UNCHANGED <<registry, grp, prod, cons, lg, lval, lbm>>

(* One iteration of the delete_all walk: load history + counter (the     *)
(* used flag is left as it is).  The walk's order is the task's list     *)
(* order, abstracted to any remaining group.                             *)
DeleteAllLoad(t) ==
    /\ pc[t] = "all_load"
    /\ \E g \in left[t] :
          /\ lg' = [lg EXCEPT ![t] = g]
          /\ lval' = [lval EXCEPT ![t] = grp[g].history + grp[g].counter[prod[t][g]]]
    /\ pc' = [pc EXCEPT ![t] = "hist_store"]
    /\ UNCHANGED <<regLock, registry, grp, prod, cons, lbm, left>>

(* hrm_delete_consumer_task_from_all_groups, whole call under             *)
(* hrm_groups_lock; -EINVAL when the task has no consumer.               *)
ConsumerDeleteAll(t) ==
    LET gone == {g \in cons[t] : LastMember(t, g)} IN
    /\ pc[t] = "cx"
    /\ \/ /\ cons[t] = {}
          /\ UNCHANGED <<regLock, registry, grp, cons>>
       \/ /\ cons[t] # {}
          /\ regLock = NoTask
          /\ cons' = [cons EXCEPT ![t] = {}]
          /\ registry' = registry \ gone
          /\ grp' = [g \in Gids |-> IF g \in gone THEN FreeGroup ELSE grp[g]]
          /\ UNCHANGED regLock
    /\ pc' = [pc EXCEPT ![t] = "exited"]
    /\ UNCHANGED <<prod, lg, lval, lbm, left>>

(* Mutant: a group created by a consumer is never linked in hrm_groups. *)
AttachConsumerNoRegister(t, g) ==
    /\ pc[t] = "idle"
    /\ g \notin cons[t]
    /\ regLock = NoTask
    /\ IF g \in registry
       THEN UNCHANGED <<registry, grp>>
       ELSE /\ grp' = [grp EXCEPT ![g] = NewGroup]
            /\ UNCHANGED registry
    /\ cons' = [cons EXCEPT ![t] = @ \cup {g}]
    /\ UNCHANGED <<regLock, prod, pc, lg, lval, lbm, left>>

(* hrm_add_consumer_task_to_group: under hrm_groups_lock find or create  *)
(* the group, link the consumer, register a created group.  No slot, no  *)
(* timestamp, no timer.                                                   *)
AttachConsumer(t, g) ==
    /\ pc[t] = "idle"
    /\ g \notin cons[t]
    /\ regLock = NoTask
    /\ IF g \in registry
       THEN UNCHANGED <<registry, grp>>
       ELSE /\ registry' = registry \cup {g}
            /\ grp' = [grp EXCEPT ![g] = NewGroup]
    /\ cons' = [cons EXCEPT ![t] = @ \cup {g}]
    /\ UNCHANGED <<regLock, prod, pc, lg, lval, lbm, left>>

(* Mutant: the emptiness test looks at the consumer list only. *)
DetachConsumerIgnoresProducers(t, g) ==
    LET empty == \A u \in Tasks \ {t} : g \notin cons[u] IN
    /\ pc[t] = "idle"
    /\ g \in cons[t]
    /\ regLock = NoTask
    /\ cons' = [cons EXCEPT ![t] = @ \ {g}]
    /\ registry' = IF empty THEN registry \ {g} ELSE registry
    /\ grp' = IF empty THEN [grp EXCEPT ![g] = FreeGroup] ELSE grp
    /\ UNCHANGED <<regLock, prod, pc, lg, lval, lbm, left>>

(* hrm_delete_consumer_task_from_group: under both locks unlink, drop map *)
(* references, destroy the group if it has no member left.               *)
DetachConsumer(t, g) ==
    LET empty == LastMember(t, g) IN
    /\ pc[t] = "idle"
    /\ g \in cons[t]
    /\ regLock = NoTask
    /\ cons' = [cons EXCEPT ![t] = @ \ {g}]
    /\ registry' = IF empty THEN registry \ {g} ELSE registry
    /\ grp' = IF empty THEN [grp EXCEPT ![g] = FreeGroup] ELSE grp
    /\ UNCHANGED <<regLock, prod, pc, lg, lval, lbm, left>>

(* __hrm_update_group_measures for the global measure: under the read    *)
(* lock, re-arm the timer, elapsed time (in timer periods), and          *)
(* global.count = history + the counters of the listed producers.        *)
Tick(g) ==
    /\ grp[g].alive
    /\ grp[g].started
    /\ grp[g].ticks < MaxTicks
    /\ grp' = [grp EXCEPT ![g].ticks = @ + 1, ![g].gcount = ListedSum(g)]
    /\ UNCHANGED <<regLock, registry, prod, cons, pc, lg, lval, lbm, left>>

(* hrm_producer_group_write: the integer written to                      *)
(* /proc/<tid>/hrm_producer_group attaches for a positive value, detaches *)
(* from -value for a negative one (0 is EINVAL and changes nothing).      *)
ProducerGroupWrite(t, v) ==
    \/ v > 0 /\ AttachProducer(t, v)
    \/ v < 0 /\ DetachProducer(t, -v)

(* hrm_consumer_group_write: the same protocol for consumers. *)
ConsumerGroupWrite(t, v) ==
    \/ v > 0 /\ AttachConsumer(t, v)
    \/ v < 0 /\ DetachConsumer(t, -v)

(* The values a thread may write: a gid or its negation. *)
Commands == Gids \cup {-g : g \in Gids}

(* Every task has exited and every group is gone: the system stops. *)
Terminated ==
    /\ \A t \in Tasks : pc[t] = "exited"
    /\ UNCHANGED vars

TaskStep(t) ==
    \/ AttachProducerStore(t)
    \/ HistoryStore(t) \/ ReleaseLoad(t) \/ ReleaseStore(t) \/ Unlink(t)
    \/ DeleteAllLoad(t) \/ ConsumerDeleteAll(t)

Next ==
    \/ \E t \in Tasks, v \in Commands : ProducerGroupWrite(t, v) \/ ConsumerGroupWrite(t, v)
    \/ \E t \in Tasks, g \in Gids : Heartbeat(t, g)
    \/ \E t \in Tasks : ExitTask(t) \/ TaskStep(t)
    \/ \E g \in Gids : Tick(g)
    \/ Terminated

(* Threads in the middle of an operation keep running; the spin lock of  *)
(* kernel 3.2 is a fair ticket lock, so a task waiting for it gets it     *)
(* (strong fairness); the hrtimer keeps firing (weak fairness).  Starting *)
(* an operation is the program's choice and is not forced.               *)
Spec ==
    /\ Init /\ [][Next]_vars
    /\ \A t \in Tasks : SF_vars(TaskStep(t))
    /\ \A g \in Gids : WF_vars(Tick(g))

-----------------------------------------------------------------------------
(* Bounds the runs: a slot's stale counter can be folded into history  *)
(* again on every reuse, so history is otherwise unbounded.            *)
HistoryBound == \A g \in Gids : grp[g].history <= MaxHistory

TypeOK ==
    /\ regLock \in Tasks \cup {NoTask}
    /\ registry \subseteq Gids
    /\ \A g \in Gids :
          /\ grp[g].alive \in BOOLEAN /\ grp[g].started \in BOOLEAN
          /\ grp[g].history \in Nat /\ grp[g].gcount \in Nat
          /\ grp[g].ticks \in 0 .. MaxTicks
          /\ grp[g].bitmap \subseteq Slots
          /\ grp[g].counter \in [Slots -> 0 .. MaxBeats]
          /\ grp[g].used \in [Slots -> BOOLEAN]
          /\ grp[g].owner \in [Slots -> Tasks \cup {NoTask}]
    /\ prod \in [Tasks -> [Gids -> Slots \cup {NoSlot}]]
    /\ cons \in [Tasks -> SUBSET Gids]
    /\ pc \in [Tasks -> PCs]
    /\ lg \in [Tasks -> Gids]
    /\ lval \in [Tasks -> Nat]
    /\ lbm \in [Tasks -> SUBSET Slots]
    /\ left \in [Tasks -> SUBSET Gids]

-----------------------------------------------------------------------------
(* No operation of a task is half done: the groups it works on. *)
InFlight(t) == pc[t] \in {"pa_store", "hist_store", "rel_load", "rel_store", "unlink"}

(* Spec 8, first property, for the attach/detach/exit paths of          *)
(* kernel/hrm.c: a group is linked in hrm_groups exactly when at least    *)
(* one producer or consumer struct refers to it.                         *)
RegistryIffMembers ==
    \A g \in Gids : (g \in registry) <=> (Members(g) # {})

(* No use after free: every hrm_producer/hrm_consumer struct, and every  *)
(* operation in flight, refers to a group that __hrm_destroy_group has    *)
(* not freed (spec 7: detach always holds a valid group reference).      *)
MembersOnLiveGroups ==
    /\ \A t \in Tasks, g \in Gids : (prod[t][g] # NoSlot \/ g \in cons[t]) => grp[g].alive
    /\ \A t \in Tasks : InFlight(t) => grp[lg[t]].alive

(* A group with a producer has its timer running, including a group a    *)
(* consumer created first (the timestamp test in                         *)
(* hrm_add_producer_task_to_group, not group_exists, starts the timer).  *)
ProducerGroupsTick ==
    \A g \in Gids : Producers(g) # {} => grp[g].started

(* Every attach/detach/exit a task has started finishes: nobody is left  *)
(* waiting for hrm_groups_lock forever (every exit path releases it).    *)
OperationsComplete ==
    \A t \in Tasks : pc[t] \notin {"idle", "exited"} ~> pc[t] \in {"idle", "exited"}

(* Spec 5: measures->global.count never decreases across ticks of a live *)
(* group, whatever detaches run concurrently with the tick.              *)
GlobalCountMonotone ==
    [][\A g \in Gids : grp[g].alive /\ grp'[g].alive => grp'[g].gcount >= grp[g].gcount]_vars

(* Spec 4.2: the allocator hands out distinct slots, so no two producers *)
(* on a group's list share a counter slot.                               *)
UniqueCounterSlots ==
    \A g \in Gids : \A t, u \in Producers(g) : t # u => prod[t][g] # prod[u][g]


=============================================================================
