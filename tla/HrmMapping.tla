----------------------------- MODULE HrmMapping -----------------------------
(***************************************************************************)
(* The memory-map cache of one group (struct hrm_memory.maps, kernel/hrm.c)*)
(* and the four mmap handlers of fs/proc/hrm.c that fill it, driven by the *)
(* user library's hrm_attach / hrm_detach (tools/libhrm/hrm.c).            *)
(*                                                                         *)
(* Each region of the group (the counters, and the measures and goal page) *)
(* keeps one entry per process (task->tgid): the user address of the first *)
(* mapping a thread of that process made, and a reference count.  A later  *)
(* mmap by any thread of the process only takes a reference and hands out  *)
(* the cached address; the region is remapped only when the process has   *)
(* no entry.  What the model keeps of an address is the protection of the  *)
(* mapping behind it.  Membership itself (lists, slots, locks) is          *)
(* HrmGroup's; every handler here runs under the group's members_lock      *)
(* (write side) or under hrm_groups_lock and it, so each is one step.      *)
(***************************************************************************)
EXTENDS Integers, FiniteSets

CONSTANTS
    Thr,        \* threads using the group
    Procs,      \* processes
    Tgid,       \* Tgid[t]: the process of thread t
    NoMap       \* model value: no cached entry / no address

ASSUME Tgid \in [Thr -> Procs]

Regions == {"counters", "measures_goal"}
Prot == {"ro", "rw"}
Roles == {"producer", "consumer"}

VARIABLES
    role,       \* role[t]: how t is attached ("none" when detached)
    pc,         \* hrm_attach / hrm_detach progress of t
    maps,       \* maps[r][p]: NoMap or [refs, prot] of process p's entry for region r
    uaddr       \* uaddr[t][r]: protection behind the address t was given for r, or NoMap

vars == <<role, pc, maps, uaddr>>

Init ==
    /\ role = [t \in Thr |-> "none"]
    /\ pc = [t \in Thr |-> "idle"]
    /\ maps = [r \in Regions |-> [p \in Procs |-> NoMap]]
    /\ uaddr = [t \in Thr |-> [r \in Regions |-> NoMap]]

(* hrm_attach up to the mmap calls: the group file is written with gid     *)
(* (the producer or consumer attach of HrmGroup).                           *)
Attach(t, ro) ==
    /\ pc[t] = "idle"
    /\ role' = [role EXCEPT ![t] = ro]
    /\ pc' = [pc EXCEPT ![t] = "map_counters"]
    /\ UNCHANGED <<maps, uaddr>>

(* hrm_*_counter_read / hrm_*_measures_goal_read, which hrm_attach calls  *)
(* after each mmap: the address the handler stored in t's membership,    *)
(* which is the address of the process's cache entry m, not the one the  *)
(* mmap call itself returned.                                            *)
AddressReadBack(m, t, r) == m[r][Tgid[t]].prot

(* __hrm_find_group_memory_map + __hrm_get_group_memory_map, or, when the  *)
(* process has no entry, remap_pfn_range with the caller's protection and *)
(* __hrm_add_group_memory_map (references = 1).  The address recorded for *)
(* the thread (read back through proc) is the cached one in the first    *)
(* case, the new one otherwise.                                          *)
MapRegion(t, r, prot) ==
    LET p == Tgid[t]
        e == maps[r][p]
    IN  /\ maps' = [maps EXCEPT ![r][p] =
                        IF e = NoMap THEN [refs |-> 1, prot |-> prot]
                        ELSE [e EXCEPT !.refs = @ + 1]]
        /\ uaddr' = [uaddr EXCEPT ![t][r] = AddressReadBack(maps', t, r)]

(* Mutant: the entry is never unlinked and freed at zero references. *)
PutRegionNoFree(m, t, r) ==
    LET p == Tgid[t] IN
    IF m[r][p] = NoMap THEN m
    ELSE [m EXCEPT ![r][p] = [@ EXCEPT !.refs = @ - 1]]

(* __hrm_put_group_memory_map: drop a reference; the last one frees the   *)
(* entry.  A process without an entry gets -ESRCH, nothing changes.       *)
PutRegion(m, t, r) ==
    LET p == Tgid[t] IN
    IF m[r][p] = NoMap THEN m
    ELSE [m EXCEPT ![r][p] = IF @.refs = 1 THEN NoMap ELSE [@ EXCEPT !.refs = @ - 1]]

(* hrm_attach maps the counters with PROT_READ | PROT_WRITE for a         *)
(* producer; hrm_producer_counter_mmap, then the address is read back     *)
(* through hrm_producer_counter_read.                                     *)
ProducerCounterMmap(t) ==
    /\ pc[t] = "map_counters" /\ role[t] = "producer"
    /\ MapRegion(t, "counters", "rw")
    /\ pc' = [pc EXCEPT ![t] = "map_measures_goal"]
    /\ UNCHANGED role

(* The same for a consumer, with PROT_READ: hrm_consumer_counter_mmap. *)
ConsumerCounterMmap(t) ==
    /\ pc[t] = "map_counters" /\ role[t] = "consumer"
    /\ MapRegion(t, "counters", "ro")
    /\ pc' = [pc EXCEPT ![t] = "map_measures_goal"]
    /\ UNCHANGED role

(* hrm_producer_measures_goal_mmap / hrm_consumer_measures_goal_mmap:   *)
(* PROT_READ | PROT_WRITE for both roles, the same cache walk.          *)
MeasuresGoalMmap(t) ==
    /\ pc[t] = "map_measures_goal"
    /\ MapRegion(t, "measures_goal", "rw")
    /\ pc' = [pc EXCEPT ![t] = "attached"]
    /\ UNCHANGED role

(* Either mmap of hrm_attach fails (remap_pfn_range, or the mmap call     *)
(* before the handler); the handler adds no entry and the library goes to *)
(* mmap_*_failed, which writes -gid: the thread detaches next, still     *)
(* holding the counters mapping if that mmap had succeeded.              *)
MmapFailed(t) ==
    /\ pc[t] \in {"map_counters", "map_measures_goal"}
    /\ pc' = [pc EXCEPT ![t] = "detach"]
    /\ UNCHANGED <<role, maps, uaddr>>

(* Mutant: the detach path puts the counters region only. *)
DetachPutsCountersOnly(t) ==
    /\ pc[t] \in {"attached", "detach"}
    /\ maps' = PutRegion(maps, t, "counters")
    /\ role' = [role EXCEPT ![t] = "none"]
    /\ uaddr' = [uaddr EXCEPT ![t] = [r \in Regions |-> NoMap]]
    /\ pc' = [pc EXCEPT ![t] = "idle"]

(* hrm_detach (or the failure path of hrm_attach) writes -gid;           *)
(* hrm_delete_*_task_from_group puts both regions under the group's     *)
(* write lock, whether or not this thread took a reference.  The user    *)
(* mappings are not unmapped.                                            *)
Detach(t) ==
    /\ pc[t] \in {"attached", "detach"}
    /\ maps' = PutRegion(PutRegion(maps, t, "counters"), t, "measures_goal")
    /\ role' = [role EXCEPT ![t] = "none"]
    /\ uaddr' = [uaddr EXCEPT ![t] = [r \in Regions |-> NoMap]]
    /\ pc' = [pc EXCEPT ![t] = "idle"]

Next ==
    \E t \in Thr :
        \/ \E ro \in Roles : Attach(t, ro)
        \/ ProducerCounterMmap(t) \/ ConsumerCounterMmap(t)
        \/ MeasuresGoalMmap(t) \/ MmapFailed(t) \/ Detach(t)

Spec == Init /\ [][Next]_vars

-----------------------------------------------------------------------------
TypeOK ==
    /\ role \in [Thr -> Roles \cup {"none"}]
    /\ pc \in [Thr -> {"idle", "map_counters", "map_measures_goal", "attached", "detach"}]
    /\ maps \in [Regions -> [Procs -> {NoMap} \cup [refs : 1 .. Cardinality(Thr), prot : Prot]]]
    /\ uaddr \in [Thr -> [Regions -> {NoMap} \cup Prot]]

(* The threads of process p that hold an address of region r. *)
Holders(r, p) == {t \in Thr : Tgid[t] = p /\ uaddr[t][r] # NoMap}

(* The cache never holds more references for a process than it has       *)
(* threads using the region, so the entry is freed once the last of them *)
(* has detached: no hrm_memory_map is leaked, whatever the order of the  *)
(* attaches, detaches and failed mmaps of the threads.                   *)
RefsBoundedByHolders ==
    \A r \in Regions, p \in Procs :
        maps[r][p] = NoMap \/ maps[r][p].refs <= Cardinality(Holders(r, p))

(* While a thread of a process uses a region, the process's entry lives  *)
(* and counts every such thread (a later mmap by the process reuses the  *)
(* address instead of mapping anew).                                     *)
RefsMatchHolders ==
    \A r \in Regions, p \in Procs :
        Holders(r, p) # {} =>
            maps[r][p] # NoMap /\ maps[r][p].refs = Cardinality(Holders(r, p))

(* A producer that finished hrm_attach got a counters address it can     *)
(* write its heartbeats through (heartbeat() stores to it).              *)
ProducerCounterWritable ==
    \A t \in Thr :
        role[t] = "producer" /\ pc[t] = "attached" => uaddr[t]["counters"] = "rw"

=============================================================================
