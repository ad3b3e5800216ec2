------------------------------ MODULE HrmGoal ------------------------------
(***************************************************************************)
(* The goal spin-lock of one group (struct hrm_goal, include/linux/hrm.h)  *)
(* between the producer threads that edit the window table and the goal    *)
(* through the user library (tools/libhrm/hrm.c), and the kernel's         *)
(* diagnostic listing hrm_show (fs/proc/hrm.c), which reads the goal and   *)
(* the measures through hrm_get_heart_rate / hrm_get_min/max_heart_rate    *)
(* (kernel/hrm.c) while holding hrm_groups_lock.                           *)
(*                                                                         *)
(* goal_lock is a word in memory every member maps; it is taken with       *)
(* __sync_lock_test_and_set (one atomic step, Spin) and released with      *)
(* __sync_lock_release.  Each critical section is one step (Section).  A   *)
(* thread may be killed at any point (Crash); a word of shared memory      *)
(* keeps whatever value it had, so a thread killed inside a critical       *)
(* section leaves goal_lock set.                                           *)
(***************************************************************************)
EXTENDS Integers, FiniteSets

CONSTANTS
    Thr,        \* producer threads of the group (user space)
    NWin,       \* HRM_MAX_WINDOWS
    R,          \* HRM_MAX_WINDOW_SIZE
    Sizes,      \* window sizes the threads pass
    MaxCrashes  \* bound on the threads killed in a run

ASSUME NWin \in Nat \ {0} /\ R \in Nat \ {0} /\ Sizes \subseteq 1 .. R
ASSUME MaxCrashes \in Nat

Keys == 0 .. NWin - 1
Ops == {"add", "del", "sg_add", "sg_scope", "unset", "read"}

VARIABLES
    goal_lock,  \* goal->goal_lock: 0 or 1
    wsize,      \* goal->window_size[]
    scope,      \* goal->scope
    pc,         \* pc[t]: "idle", "spin" (test-and-set loop) or "cs"
    op,         \* op[t]: the critical section t is heading for
    arg,        \* arg[t]: the window size argument of t's call
    crashed,    \* threads killed
    spc         \* hrm_show: "idle", "spin" (holding hrm_groups_lock) or "cs"

vars == <<goal_lock, wsize, scope, pc, op, arg, crashed, spc>>

Init ==
    /\ goal_lock = 0
    /\ wsize = [i \in Keys |-> 0]
    /\ scope = 0
    /\ pc = [t \in Thr |-> "idle"]
    /\ op = [t \in Thr |-> "unset"]
    /\ arg = [t \in Thr |-> 0]
    /\ crashed = {}
    /\ spc = "idle"

Live(t) == t \notin crashed

(* Start a call that goes to the goal lock next. *)
Call(t, o, s) ==
    /\ pc' = [pc EXCEPT ![t] = "spin"]
    /\ op' = [op EXCEPT ![t] = o]
    /\ arg' = [arg EXCEPT ![t] = s]
    /\ UNCHANGED <<goal_lock, wsize, scope, crashed, spc>>

(* hrm_add_window: no check before __hrm_add_window takes the lock. *)
AddWindow(t, s) == pc[t] = "idle" /\ Live(t) /\ Call(t, "add", s)

(* hrm_del_window: the tests of size 0 and of goal->scope read the shared *)
(* goal before the lock is taken; a refused call changes nothing.          *)
DelWindow(t, s) == pc[t] = "idle" /\ Live(t) /\ s # scope /\ Call(t, "del", s)

(* hrm_set_goal (min <= max): a size above HRM_MAX_WINDOW_SIZE is EDOM; a *)
(* non-zero size first goes through __hrm_add_window, size 0 straight to   *)
(* the section that writes the rates and the scope.                       *)
SetGoal(t, s) ==
    /\ pc[t] = "idle" /\ Live(t) /\ s <= R
    /\ Call(t, IF s > 0 THEN "sg_add" ELSE "sg_scope", s)

(* hrm_unset_goal. *)
UnsetGoal(t) == pc[t] = "idle" /\ Live(t) /\ Call(t, "unset", 0)

(* hrm_get_windows_number: count the table entries under the lock. *)
GetWindowsNumber(t) == pc[t] = "idle" /\ Live(t) /\ Call(t, "read", 0)

(* hrm_get_min_heart_rate / hrm_get_max_heart_rate (library): read scope *)
(* and one bound under the lock; any member may call them.              *)
GetGoalBound(t) == pc[t] = "idle" /\ Live(t) /\ Call(t, "read", 0)

(* Mutant: the lock word is incremented instead of tested and set. *)
SpinNoTest(t) ==
    /\ pc[t] = "spin" /\ Live(t)
    /\ goal_lock' = goal_lock + 1
    /\ pc' = [pc EXCEPT ![t] = "cs"]
    /\ UNCHANGED <<wsize, scope, op, arg, crashed, spc>>

(* while (__sync_lock_test_and_set(&goal->goal_lock, 1)); *)
Spin(t) ==
    /\ pc[t] = "spin" /\ Live(t)
    /\ goal_lock = 0
    /\ goal_lock' = 1
    /\ pc' = [pc EXCEPT ![t] = "cs"]
    /\ UNCHANGED <<wsize, scope, op, arg, crashed, spc>>

(* The loop of __hrm_add_window: the first entry holding s or free. *)
AddSlot(s) ==
    CHOOSE k \in Keys : (wsize[k] = s \/ wsize[k] = 0)
                     /\ \A j \in 0 .. k - 1 : wsize[j] # s /\ wsize[j] # 0
CanAdd(s) == \E i \in Keys : wsize[i] = s \/ wsize[i] = 0
Added(s) == IF CanAdd(s) THEN [wsize EXCEPT ![AddSlot(s)] = s] ELSE wsize

(* The loop of hrm_del_window: zero the first entry holding s. *)
Deleted(s) ==
    IF \E i \in Keys : wsize[i] = s
    THEN [wsize EXCEPT ![CHOOSE k \in Keys : wsize[k] = s /\ \A j \in 0 .. k - 1 : wsize[j] # s] = 0]
    ELSE wsize

(* Mutant: set_goal returns ENOMEM from inside the lock without releasing it. *)
SectionLeaksOnFull(t) ==
    /\ pc[t] = "cs" /\ Live(t)
    /\ LET o == op[t]  s == arg[t] IN
       /\ wsize' = CASE o = "add" \/ o = "sg_add" -> Added(s)
                     [] o = "del"                  -> Deleted(s)
                     [] OTHER                      -> wsize
       /\ scope' = IF o \in {"sg_scope", "unset"} THEN s ELSE scope
       /\ goal_lock' = IF o = "sg_add" /\ ~CanAdd(s) THEN 1 ELSE 0
       /\ pc' = [pc EXCEPT ![t] = IF o = "sg_add" /\ CanAdd(s) THEN "spin" ELSE "idle"]
       /\ op' = [op EXCEPT ![t] = IF o = "sg_add" THEN "sg_scope" ELSE o]
    /\ UNCHANGED <<arg, crashed, spc>>

(* Mutant: set_goal never moves on from adding its window. *)
SectionRetriesAdd(t) ==
    /\ pc[t] = "cs" /\ Live(t)
    /\ LET o == op[t]  s == arg[t] IN
       /\ wsize' = CASE o = "add" \/ o = "sg_add" -> Added(s)
                     [] o = "del"                  -> Deleted(s)
                     [] OTHER                      -> wsize
       /\ scope' = IF o \in {"sg_scope", "unset"} THEN s ELSE scope
       /\ goal_lock' = 0
       /\ pc' = [pc EXCEPT ![t] = IF o = "sg_add" /\ CanAdd(s) THEN "spin" ELSE "idle"]
       /\ op' = op
    /\ UNCHANGED <<arg, crashed, spc>>

(* The critical section of t's call, ending in __sync_lock_release:        *)
(*   add:      __hrm_add_window;                                           *)
(*   del:      hrm_del_window's loop;                                      *)
(*   sg_add:   __hrm_add_window called by set_goal; ENOMEM returns -1,     *)
(*             otherwise set_goal spins again for its second section;      *)
(*   sg_scope: set_goal writes min, max (not modelled) and scope;          *)
(*   unset:    unset_goal zeroes min, max and scope;                       *)
(*   read:     a query loads the table, the scope or a bound.              *)
Section(t) ==
    /\ pc[t] = "cs" /\ Live(t)
    /\ LET o == op[t]  s == arg[t] IN
       /\ wsize' = CASE o = "add" \/ o = "sg_add" -> Added(s)
                     [] o = "del"                  -> Deleted(s)
                     [] OTHER                      -> wsize
       /\ scope' = IF o \in {"sg_scope", "unset"} THEN s ELSE scope
       /\ goal_lock' = 0
       /\ pc' = [pc EXCEPT ![t] = IF o = "sg_add" /\ CanAdd(s) THEN "spin" ELSE "idle"]
       /\ op' = [op EXCEPT ![t] = IF o = "sg_add" THEN "sg_scope" ELSE o]
    /\ UNCHANGED <<arg, crashed, spc>>

(* The process of a thread is killed; its mapping of the goal page goes,   *)
(* the page and the lock word in it stay.                                  *)
Crash(t) ==
    /\ Live(t) /\ Cardinality(crashed) < MaxCrashes
    /\ crashed' = crashed \cup {t}
    /\ UNCHANGED <<goal_lock, wsize, scope, pc, op, arg, spc>>

(* hrm_show: spin_lock(&hrm_groups_lock), then for each group the query    *)
(* calls, each spinning on the group's goal_lock.                          *)
ShowLock ==
    /\ spc = "idle"
    /\ spc' = "spin"
    /\ UNCHANGED <<goal_lock, wsize, scope, pc, op, arg, crashed>>

ShowSpin ==
    /\ spc = "spin" /\ goal_lock = 0
    /\ goal_lock' = 1
    /\ spc' = "cs"
    /\ UNCHANGED <<wsize, scope, pc, op, arg, crashed>>

(* Read scope, rates and measures, __sync_lock_release, and at the end of *)
(* the listing spin_unlock(&hrm_groups_lock).                              *)
ShowRead ==
    /\ spc = "cs"
    /\ goal_lock' = 0
    /\ spc' = "idle"
    /\ UNCHANGED <<wsize, scope, pc, op, arg, crashed>>

Next ==
    \/ \E t \in Thr, s \in Sizes :
          AddWindow(t, s) \/ DelWindow(t, s) \/ SetGoal(t, s)
    \/ \E t \in Thr : SetGoal(t, 0) \/ UnsetGoal(t)
    \/ \E t \in Thr : GetWindowsNumber(t) \/ GetGoalBound(t)
    \/ \E t \in Thr : Spin(t) \/ Section(t) \/ Crash(t)
    \/ ShowLock \/ ShowSpin \/ ShowRead

(* A thread in a critical section runs on (WF); a thread or hrm_show       *)
(* spinning gets the lock if it is free infinitely often (SF).             *)
Spec ==
    /\ Init /\ [][Next]_vars
    /\ \A t \in Thr : SF_vars(Spin(t)) /\ WF_vars(Section(t))
    /\ SF_vars(ShowSpin) /\ WF_vars(ShowRead)

-----------------------------------------------------------------------------
TypeOK ==
    /\ goal_lock \in {0, 1}
    /\ wsize \in [Keys -> {0} \cup Sizes]
    /\ scope \in {0} \cup Sizes
    /\ pc \in [Thr -> {"idle", "spin", "cs"}]
    /\ op \in [Thr -> Ops]
    /\ arg \in [Thr -> {0} \cup Sizes]
    /\ crashed \subseteq Thr
    /\ spc \in {"idle", "spin", "cs"}

Holders == {t \in Thr : pc[t] = "cs"} \cup (IF spc = "cs" THEN {"show"} ELSE {})

(* Every path that takes goal_lock releases it, the ENOMEM return of the  *)
(* window table included: the lock word is set exactly when one thread,   *)
(* live or killed, or hrm_show is inside a critical section.              *)
GoalLockAccounted ==
    (goal_lock = 1) = (Cardinality(Holders) = 1) /\ Cardinality(Holders) <= 1

DeadHolder == \E t \in crashed : pc[t] = "cs"

(* Unless a killed thread left goal_lock set, every call a live thread    *)
(* starts on the goal lock returns.                                       *)
OperationsComplete ==
    []~DeadHolder =>
        \A t \in Thr : (pc[t] # "idle" /\ Live(t)) ~> (pc[t] = "idle" \/ ~Live(t))

(* hrm_show, once it holds hrm_groups_lock, finishes the listing and      *)
(* releases it (every attach and detach waits for that lock).             *)
ShowCompletes == (spc # "idle") ~> (spc = "idle")

(* A goal set on a window keeps that window configured (HrmWindow's       *)
(* property, here with the threads interleaving).                        *)
ScopeWindowConfigured ==
    scope # 0 => \E i \in Keys : wsize[i] = scope

=============================================================================
