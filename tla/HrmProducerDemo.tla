--------------------------- MODULE HrmProducerDemo ---------------------------
(***************************************************************************)
(* The producer demo (tools/libhrm/producer.c): a main thread and worker   *)
(* threads of one process, all producers of group gid.  Main creates the   *)
(* workers, attaches, sets the goal windows and reads them back, sets      *)
(* start, clears running and spins until running is set, detaches, joins  *)
(* the workers, and then unsets the goal and deletes the windows through   *)
(* its (detached) monitor.  A worker spins until start is set, attaches,   *)
(* sets running, emits its heartbeats and detaches.                        *)
(*                                                                         *)
(* start and running are plain ints written and spun on by several         *)
(* threads: a data race.  A build may reload them on every iteration of    *)
(* the spin or load them once (the loop then spins forever on a 0); the    *)
(* constant HoistedLoads says whether the second outcome is possible.      *)
(*                                                                         *)
(* Membership of the group is abstracted to the set of attached threads;  *)
(* gen counts the incarnations of the group (the kernel creates it on the *)
(* first attach and destroys it, freeing its pages, on the last detach),  *)
(* page[t] is the incarnation whose measures/goal page t's monitor maps.  *)
(***************************************************************************)
EXTENDS Naturals

CONSTANTS
    Main,           \* the main thread
    Workers,        \* the threads created by pthread_create (threads_number)
    HoistedLoads    \* TRUE: a spin may load its flag only once

ASSUME Main \notin Workers /\ Workers # {} /\ HoistedLoads \in BOOLEAN

Threads == {Main} \cup Workers

VARIABLES
    mpc,        \* where main is in main()
    wpc,        \* wpc[w]: where worker w is in thread()
    start,      \* the global start flag
    running,    \* the global running flag
    members,    \* threads attached to group gid
    gen,        \* incarnations of group gid so far (0: never created)
    page        \* page[t]: incarnation t's monitor maps (0: not attached yet)

vars == <<mpc, wpc, start, running, members, gen, page>>

MainPCs == {"create", "attach", "goals", "start", "reset", "wait", "detach",
            "join", "unset", "del", "done", "hung"}
WorkerPCs == {"new", "wait", "attach", "running", "beat", "detach", "done", "hung"}

Init ==
    /\ mpc = "create"
    /\ wpc = [w \in Workers |-> "new"]
    /\ start = 0
    /\ running = 0
    /\ members = {}
    /\ gen = 0
    /\ page = [t \in Threads |-> 0]

(* hrm_attach(&monitor, gid, false): join as a producer; the kernel       *)
(* creates the group when it has no member, and the monitor then maps     *)
(* that incarnation's pages.                                              *)
Attach(t) ==
    LET g == IF members = {} THEN gen + 1 ELSE gen IN
    /\ members' = members \cup {t}
    /\ gen' = g
    /\ page' = [page EXCEPT ![t] = g]

(* hrm_detach: leave the group; nothing is unmapped. *)
Detach(t) ==
    /\ members' = members \ {t}
    /\ UNCHANGED <<gen, page>>

(* A spin "while (!flag);" over a racy flag: with the flag set it ends;   *)
(* with HoistedLoads a build that loaded a 0 once spins forever.          *)
SpinEnds(flag) == flag = 1
SpinHangs(flag) == HoistedLoads /\ flag = 0

-----------------------------------------------------------------------------
(* pthread_create of every worker. *)
MainCreate ==
    /\ mpc = "create"
    /\ mpc' = "attach"
    /\ wpc' = [w \in Workers |-> "wait"]
    /\ UNCHANGED <<start, running, members, gen, page>>

MainAttach ==
    /\ mpc = "attach"
    /\ Attach(Main)
    /\ mpc' = "goals"
    /\ UNCHANGED <<wpc, start, running>>

(* hrm_set_goal for each window, hrm_get_windows_number,                 *)
(* hrm_get_window_size for every key, hrm_get_min/max_heart_rate: all    *)
(* work on the goal page through main's monitor.                          *)
MainGoals ==
    /\ mpc = "goals"
    /\ mpc' = "start"
    /\ UNCHANGED <<wpc, start, running, members, gen, page>>

MainStart ==
    /\ mpc = "start"
    /\ start' = 1
    /\ mpc' = "reset"
    /\ UNCHANGED <<wpc, running, members, gen, page>>

(* running = 0, written after start = 1. *)
MainResetRunning ==
    /\ mpc = "reset"
    /\ running' = 0
    /\ mpc' = "wait"
    /\ UNCHANGED <<wpc, start, members, gen, page>>

MainWaitRunning ==
    /\ mpc = "wait"
    /\ \/ SpinEnds(running) /\ mpc' = "detach"
       \/ SpinHangs(running) /\ mpc' = "hung"
    /\ UNCHANGED <<wpc, start, running, members, gen, page>>

MainDetach ==
    /\ mpc = "detach"
    /\ Detach(Main)
    /\ mpc' = "join"
    /\ UNCHANGED <<wpc, start, running>>

(* pthread_join of every worker. *)
MainJoin ==
    /\ mpc = "join"
    /\ \A w \in Workers : wpc[w] = "done"
    /\ mpc' = "unset"
    /\ UNCHANGED <<wpc, start, running, members, gen, page>>

(* hrm_unset_goal through the monitor main detached. *)
MainUnsetGoal ==
    /\ mpc = "unset"
    /\ mpc' = "del"
    /\ UNCHANGED <<wpc, start, running, members, gen, page>>

(* For every key: hrm_get_heart_rate, and hrm_del_window of its size. *)
MainDelWindows ==
    /\ mpc = "del"
    /\ mpc' = "done"
    /\ UNCHANGED <<wpc, start, running, members, gen, page>>

MainStep ==
    \/ MainCreate \/ MainAttach \/ MainGoals \/ MainStart \/ MainResetRunning
    \/ MainWaitRunning \/ MainDetach \/ MainJoin \/ MainUnsetGoal \/ MainDelWindows

-----------------------------------------------------------------------------
WorkerWaitStart(w) ==
    /\ wpc[w] = "wait"
    /\ \/ SpinEnds(start) /\ wpc' = [wpc EXCEPT ![w] = "attach"]
       \/ SpinHangs(start) /\ wpc' = [wpc EXCEPT ![w] = "hung"]
    /\ UNCHANGED <<mpc, start, running, members, gen, page>>

WorkerAttach(w) ==
    /\ wpc[w] = "attach"
    /\ Attach(w)
    /\ wpc' = [wpc EXCEPT ![w] = "running"]
    /\ UNCHANGED <<mpc, start, running>>

WorkerRunning(w) ==
    /\ wpc[w] = "running"
    /\ running' = 1
    /\ wpc' = [wpc EXCEPT ![w] = "beat"]
    /\ UNCHANGED <<mpc, start, members, gen, page>>

(* heartbeats_number / threads_number calls of heartbeat(&monitor, 1),   *)
(* each an atomic add on the worker's own counter slot.                   *)
WorkerHeartbeats(w) ==
    /\ wpc[w] = "beat"
    /\ wpc' = [wpc EXCEPT ![w] = "detach"]
    /\ UNCHANGED <<mpc, start, running, members, gen, page>>

(* hrm_detach, then pthread_exit. *)
WorkerDetach(w) ==
    /\ wpc[w] = "detach"
    /\ Detach(w)
    /\ wpc' = [wpc EXCEPT ![w] = "done"]
    /\ UNCHANGED <<mpc, start, running>>

WorkerStep(w) ==
    \/ WorkerWaitStart(w) \/ WorkerAttach(w) \/ WorkerRunning(w)
    \/ WorkerHeartbeats(w) \/ WorkerDetach(w)

Next == MainStep \/ \E w \in Workers : WorkerStep(w)

(* Every thread that can run is scheduled again: weak fairness per thread. *)
(* A spinning thread makes no step, so it has no claim to progress.        *)
Spec == Init /\ [][Next]_vars /\ WF_vars(MainStep) /\ \A w \in Workers : WF_vars(WorkerStep(w))

-----------------------------------------------------------------------------
TypeOK ==
    /\ mpc \in MainPCs
    /\ wpc \in [Workers -> WorkerPCs]
    /\ start \in {0, 1} /\ running \in {0, 1}
    /\ members \subseteq Threads
    /\ gen \in Nat
    /\ page \in [Threads -> Nat]

(* The demo waits in "while (!running);" for a worker to have attached    *)
(* before it detaches; main must eventually get past it and return.       *)
MainTerminates == <>(mpc = "done")

(* The group whose page t's monitor maps still lives: it is the current  *)
(* incarnation and has a member.                                          *)
PageLive(t) == page[t] = gen /\ members # {}

(* Spec 4.4 and 5: the measures/goal region is shared for the group's     *)
(* lifetime, and dropping the last reference unmaps it.  Main's goal      *)
(* calls (hrm_set_goal and the reads before start, hrm_unset_goal and     *)
(* hrm_del_window after the join) must therefore reach the page of a      *)
(* group that still lives, not one __hrm_destroy_group has freed.         *)
MainGoalPageLive == mpc \in {"goals", "unset", "del"} => PageLive(Main)

=============================================================================
