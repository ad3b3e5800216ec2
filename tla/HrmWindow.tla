------------------------------ MODULE HrmWindow ------------------------------
(***************************************************************************)
(* The sliding-window part of __hrm_update_group_measures (kernel/hrm.c)   *)
(* for one started group, with the window table goal->window_size that     *)
(* producers edit through hrm_add_window / hrm_del_window                  *)
(* (tools/libhrm/hrm.c).                                                   *)
(*                                                                         *)
(* The heartbeat total a tick reads (history + the listed counters, see    *)
(* HrmGroup) is abstracted to one number that grows between ticks; time is *)
(* counted in timer periods.  The ring history.window[] holds R entries    *)
(* (HRM_MAX_WINDOW_SIZE), window_cur is the next slot to write and         *)
(* buffered counts the entries before it taken as valid.  The ghost log    *)
(* records every tick's (count, time) so that each window measure can be   *)
(* compared with the one computed from the full history.                   *)
(***************************************************************************)
EXTENDS Integers, Sequences, FiniteSets

CONSTANTS
    R,          \* HRM_MAX_WINDOW_SIZE (a power of two)
    NWin,       \* HRM_MAX_WINDOWS: entries of goal->window_size
    WinSizes,   \* window sizes producers may configure
    MaxTicks,   \* bound on the ticks of a run
    MaxBeats,   \* bound on heartbeats arriving between two ticks
    PeriodUs    \* CONFIG_HRM_TIMER_PERIOD, in microseconds

ASSUME R \in {2, 4, 8, 16} /\ NWin \in Nat \ {0}
ASSUME WinSizes \subseteq Nat \ {0} /\ MaxTicks \in Nat /\ MaxBeats \in Nat
ASSUME PeriodUs \in Nat \ {0}

Ring == 0 .. R - 1
Keys == 0 .. NWin - 1
Measure == [count : Nat, time : Nat]
Zero == [count |-> 0, time |-> 0]

VARIABLES
    ring,       \* history.window[]: (counter, elapsed_time) per tick
    cur,        \* history.window_cur
    buffered,   \* history.buffered
    total,      \* the heartbeat total the next tick will read
    glob,       \* measures->global
    wm,         \* measures->window[]
    wsize,      \* goal->window_size[]
    scope,      \* goal->scope: the window the goal is set on (0: global)
    log,        \* ghost: (count, time) of the origin and of every tick
    wfor,       \* ghost: window size each measures->window[i] was computed for (0: never)
    wat         \* ghost: the tick (index into log, origin = 0) it was computed at

vars == <<ring, cur, buffered, total, glob, wm, wsize, scope, log, wfor, wat>>

(* Bitwise "x & (R - 1)" on a possibly negative int, R a power of two. *)
Wrap(x) == ((x % R) + R) % R

MinOf(a, b) == IF a < b THEN a ELSE b

(* The state hrm_add_producer_task_to_group leaves on the first producer: *)
(* zeroed ring, timestamp = now, window_cur = 1, buffered = 1.  Entry 0   *)
(* (zero) stands for the time origin.                                     *)
Init ==
    /\ ring = [j \in Ring |-> Zero]
    /\ cur = 1
    /\ buffered = 1
    /\ total = 0
    /\ glob = Zero
    /\ wm = [i \in Keys |-> Zero]
    /\ wsize = [i \in Keys |-> 0]
    /\ scope = 0
    /\ log = <<Zero>>
    /\ wfor = [i \in Keys |-> 0]
    /\ wat = [i \in Keys |-> 0]

(* Producers emit heartbeats between ticks (heartbeat()), at most        *)
(* MaxBeats per timer period.                                             *)
Beat ==
    /\ total < log[Len(log)].count + MaxBeats
    /\ total' = total + 1
    /\ UNCHANGED <<ring, cur, buffered, glob, wm, wsize, scope, log, wfor, wat>>

(* Mutant: the base entry is taken one slot too late. *)
WindowOfOffByOne(rg, ws, now) ==
    LET n == MinOf(ws, buffered)
        first == rg[Wrap(cur - n + 1)]
    IN  [count |-> now.count - first.count, time |-> now.time - first.time]

(* One window measure as the loop body computes it, from the ring after   *)
(* the current entry has been written: ws is clamped to buffered and the  *)
(* base entry is ws slots behind window_cur.                              *)
WindowOf(rg, ws, now) ==
    LET n == MinOf(ws, buffered)
        first == rg[Wrap(cur - n)]
    IN  [count |-> now.count - first.count, time |-> now.time - first.time]

(* Mutant: window_cur is advanced without the "& (R - 1)" mask. *)
TickNoWrap ==
    LET now == [count |-> total, time |-> Len(log)]
        rg == [ring EXCEPT ![cur] = now]
    IN
    /\ Len(log) <= MaxTicks
    /\ glob' = now
    /\ ring' = rg
    /\ wm' = [i \in Keys |-> IF buffered # 0 /\ wsize[i] # 0
                              THEN WindowOf(rg, wsize[i], now) ELSE wm[i]]
    /\ wfor' = [i \in Keys |-> IF buffered # 0 /\ wsize[i] # 0 THEN wsize[i] ELSE wfor[i]]
    /\ wat' = [i \in Keys |-> IF buffered # 0 /\ wsize[i] # 0 THEN Len(log) ELSE wat[i]]
    /\ buffered' = IF buffered < R THEN buffered + 1 ELSE buffered
    /\ cur' = cur + 1
    /\ log' = Append(log, now)
    /\ UNCHANGED <<total, wsize, scope>>

(* __hrm_update_group_measures: re-arm the timer, global measure, write   *)
(* the ring entry at window_cur, every configured window (skipped while   *)
(* buffered = 0), then advance buffered (saturating at R) and window_cur. *)
Tick ==
    LET now == [count |-> total, time |-> Len(log)]
        rg == [ring EXCEPT ![cur] = now]
    IN
    /\ Len(log) <= MaxTicks
    /\ glob' = now
    /\ ring' = rg
    /\ wm' = [i \in Keys |-> IF buffered # 0 /\ wsize[i] # 0
                              THEN WindowOf(rg, wsize[i], now) ELSE wm[i]]
    /\ wfor' = [i \in Keys |-> IF buffered # 0 /\ wsize[i] # 0 THEN wsize[i] ELSE wfor[i]]
    /\ wat' = [i \in Keys |-> IF buffered # 0 /\ wsize[i] # 0 THEN Len(log) ELSE wat[i]]
    /\ buffered' = IF buffered < R THEN buffered + 1 ELSE buffered
    /\ cur' = Wrap(cur + 1)
    /\ log' = Append(log, now)
    /\ UNCHANGED <<total, wsize, scope>>

(* __hrm_add_window (whole loop under goal_lock): the first entry that    *)
(* either already holds size or is free; a free one gets size.  No free   *)
(* entry: ENOMEM, nothing changes.                                        *)
AddSlot(size) ==
    CHOOSE k \in Keys : (wsize[k] = size \/ wsize[k] = 0)
                      /\ \A j \in 0 .. k - 1 : wsize[j] # size /\ wsize[j] # 0
CanAdd(size) == \E i \in Keys : wsize[i] = size \/ wsize[i] = 0
AddWindow(size) ==
    /\ CanAdd(size)
    /\ wsize' = [wsize EXCEPT ![AddSlot(size)] = size]
    /\ UNCHANGED <<ring, cur, buffered, total, glob, wm, scope, log, wfor, wat>>

(* hrm_del_window (producer): size 0 or the goal's scope is refused      *)
(* (EINVAL); otherwise zero the first entry holding size under goal_lock; *)
(* not found: EINVAL.                                                     *)
DelWindow(size) ==
    /\ size # 0 /\ size # scope
    /\ \E i \in Keys : wsize[i] = size
    /\ LET i == CHOOSE k \in Keys : wsize[k] = size /\ \A j \in 0 .. k - 1 : wsize[j] # size
       IN wsize' = [wsize EXCEPT ![i] = 0]
    /\ UNCHANGED <<ring, cur, buffered, total, glob, wm, scope, log, wfor, wat>>

(* hrm_set_goal (producer, min <= max): sizes above HRM_MAX_WINDOW_SIZE   *)
(* are refused (EDOM); a non-zero size is first added as a window         *)
(* (ENOMEM returns before the goal is touched); then the rates and scope  *)
(* are written under goal_lock.  The rates are not modelled.              *)
SetGoal(size) ==
    /\ size <= R
    /\ size > 0 => CanAdd(size)
    /\ wsize' = IF size > 0 THEN [wsize EXCEPT ![AddSlot(size)] = size] ELSE wsize
    /\ scope' = size
    /\ UNCHANGED <<ring, cur, buffered, total, glob, wm, log, wfor, wat>>

(* hrm_unset_goal: rates and scope back to 0 under goal_lock. *)
UnsetGoal ==
    /\ scope' = 0
    /\ UNCHANGED <<ring, cur, buffered, total, glob, wm, wsize, log, wfor, wat>>

Next ==
    \/ Beat
    \/ Tick
    \/ \E s \in WinSizes : AddWindow(s) \/ DelWindow(s) \/ SetGoal(s)
    \/ SetGoal(0)
    \/ UnsetGoal

Spec == Init /\ [][Next]_vars

-----------------------------------------------------------------------------
TypeOK ==
    /\ ring \in [Ring -> Measure]
    /\ cur \in Ring
    /\ buffered \in 1 .. R
    /\ total \in Nat
    /\ glob \in Measure
    /\ wm \in [Keys -> Measure]
    /\ wsize \in [Keys -> {0} \cup WinSizes]
    /\ scope \in {0} \cup WinSizes
    /\ log \in Seq(Measure)
    /\ wfor \in [Keys -> {0} \cup WinSizes]
    /\ wat \in [Keys -> 0 .. MaxTicks]

(* A measure's time field in nanoseconds (timespec_to_ns of the elapsed  *)
(* time; the tick runs every PeriodUs microseconds).                      *)
TimeNs(m) == m.time * PeriodUs * 1000

(* __hrm_compute_hr: count * USEC_PER_SEC divided by time_ns /          *)
(* MSEC_PER_SEC / MEASURE_SCALE (whole milliseconds).  The kernel divides *)
(* by zero for a measure under 1 ms; so does this operator, which TLC      *)
(* reports as an error.                                                   *)
HrDivisor(m) == (TimeNs(m) \div 1000) \div 1000
ComputeHr(m) == (m.count * 1000000) \div HrDivisor(m)

(* hrm_get_heart_rate (kernel API) for key in 0..HRM_MAX_WINDOWS: key 0   *)
(* is the global measure; a window key reports its size and rate when the *)
(* entry is configured and its measure has a non-zero time, otherwise the *)
(* sentinel size HRM_MAX_WINDOW_SIZE and rate 0.  "computes" says whether *)
(* __hrm_compute_hr was called, on measure m.                             *)
GetHeartRate(key) ==
    IF key = 0
    THEN [ws |-> 0, hr |-> IF glob.time # 0 THEN ComputeHr(glob) ELSE 0,
          computes |-> glob.time # 0, m |-> glob]
    ELSE IF wsize[key - 1] # 0 /\ wm[key - 1].time # 0
         THEN [ws |-> wsize[key - 1], hr |-> ComputeHr(wm[key - 1]),
               computes |-> TRUE, m |-> wm[key - 1]]
         ELSE [ws |-> R, hr |-> 0, computes |-> FALSE, m |-> wm[key - 1]]

(* hrm_seek_heart_rate (kernel API): size above HRM_MAX_WINDOW_SIZE is    *)
(* EINVAL (key -1 here); size 0 is the global measure under key 0; else   *)
(* the first entry configured with size whose measure has a non-zero      *)
(* time gives key i + 1 and its rate; none: EINVAL.                       *)
SeekHeartRate(size) ==
    LET hits == {i \in Keys : wsize[i] = size /\ wm[i].time # 0}
    IN  IF size > R THEN [key |-> -1, hr |-> 0]
        ELSE IF size = 0
        THEN [key |-> 0, hr |-> IF glob.time # 0 THEN ComputeHr(glob) ELSE 0]
        ELSE IF hits = {} THEN [key |-> -1, hr |-> 0]
        ELSE LET i == CHOOSE k \in hits : \A j \in hits : k <= j
             IN  [key |-> i + 1, hr |-> ComputeHr(wm[i])]

(* The reference: the measure of a window of ws ticks taken at tick k of *)
(* the log is the difference to the entry min(ws, k) ticks earlier.      *)
RefWindow(k, ws) ==
    LET base == log[k + 1 - MinOf(ws, k)] IN
    [count |-> log[k + 1].count - base.count, time |-> log[k + 1].time - base.time]

(* Every window measure the tick has computed equals the measure over    *)
(* the last min(ws, ticks) periods of the full history, across ring wrap- *)
(* around and the saturation of buffered.                                 *)
WindowMeasureCorrect ==
    \A i \in Keys : wfor[i] # 0 => wm[i] = RefWindow(wat[i], wfor[i])

=============================================================================
