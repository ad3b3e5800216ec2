# TLA+ models of the HRM heart-rate monitor

HRM (Heart Rate Monitor) lets threads in the Linux 3.2.6-BFS tree report progress. Producers emit *heartbeats*. A periodic kernel timer turns the heartbeats of a *group* into rates, and consumers read those rates. The code has four parts:

| part | source | role |
|---|---|---|
| group registry, membership, counters, tick | `kernel/hrm.c`, `include/linux/hrm.h` | `hrm_groups` list under the spinlock `hrm_groups_lock`; per group a `members_lock` rwlock, producer/consumer lists, a bitmap of counter slots, `history` (heartbeats of producers that left), the ring `history.window[]` and an hrtimer running `__hrm_update_group_measures` |
| proc interface | `fs/proc/hrm.c` | `/proc/<pid>/hrm/...`: writing `g` attaches to group g and `-g` detaches; mmap handlers with a per-tgid mapping cache; `hrm_show` listing |
| user library | `tools/libhrm/hrm.c` | attach/detach through proc; `heartbeat()` adds to the caller's own mapped slot without a lock; windows and goal edited in shared memory under the goal spin-lock `__sync_lock_test_and_set(&goal->goal_lock)`; queries |
| demo tools | `tools/libhrm/*.c` (other files) | example programs; `producer.c` is modelled |

How the parts interact:
- Attach and detach run in the writing task's context and take `hrm_groups_lock`, then `members_lock` for writing.
- The tick takes `members_lock` for reading and sums `history` and every listed producer's counter. It writes the global measure, the ring entry and one measure per configured window.
- The goal page is shared memory. Producers edit its window table from user space under a spin-lock. The tick reads the table without that lock.
- Detach does part of its work outside every lock: it clears `used`, does `history += counter`, and releases the bitmap slot. Only then does it take the locks to unlink.

## Modules

### `HrmGroup` (+ `MC_HrmGroup`): registry, slots, membership, global tick

State:
- `registry`: the gids on `hrm_groups`.
- `regLock`: the holder of `hrm_groups_lock`.
- `grp[g]`: the group.
  - `alive`: allocated.
  - `started`: the timestamp is non-zero.
  - `history`, `bitmap`.
  - `counter`, `used`, `owner`: per slot.
  - `ticks`.
  - `gcount`: `measures->global.count`.
- `prod[t][g]`: the slot task t holds in g.
- `cons[t]`: the groups t consumes.
- Per task: `pc`, and the locals `lg`, `lval`, `lbm`, `left`.

Actions:
- `ProducerGroupWrite` / `ConsumerGroupWrite` are the proc write handlers: a positive value attaches, a negative one detaches.
- `AttachProducer` goes up to the slot allocation. `AttachProducerStore` covers the bitmap store, linking, and start/registration. Together they form the whole of `hrm_add_producer_task_to_group`; it runs under `hrm_groups_lock`, and the bitmap store is split off because the release in detach races it.
- `DetachProducer` → `HistoryStore` → `ReleaseLoad` → `ReleaseStore` → `Unlink` are the steps of `hrm_delete_producer_task_from_group`. Each unlocked read-modify-write is a separate load and store.
- `ExitTask`, `DeleteAllLoad` and `ConsumerDeleteAll` cover `hrm_delete_*_task_from_all_groups` on exit. The producer loop reuses the same store, release and unlink steps, but never clears `used`.
- `AttachConsumer` / `DetachConsumer` are each one step under the lock.
- `Heartbeat` is the lock-free slot increment.
- `Tick(g)` is the global part of the timer callback: the sum of `history` and the listed producers' counters.

### `HrmWindow`: sliding windows, window table, goal, rate queries

This module covers one started group.

State:
- The ring `ring`, `cur` (= `window_cur`) and `buffered`.
- The measures `glob` and `wm[]`.
- The table `wsize[]` (= `goal->window_size`) and `scope`.
- `total`: the heartbeat total the next tick reads.
- Ghost variables: `log` (every tick's count and time), and `wfor`/`wat` (the size and tick each window measure was computed for).

Actions:
- `Tick` is the whole window part of `__hrm_update_group_measures`: it writes the ring entry, computes every window with the clamp and the `& (R-1)` mask, saturates `buffered` and advances `cur`.
- `AddWindow`, `DelWindow`, `SetGoal` and `UnsetGoal` are the library calls, each atomic as one thread sees it.
- The queries are operators: kernel `GetHeartRate`, `SeekHeartRate` and `ComputeHr` (`__hrm_compute_hr`: the count times 10^6 divided by the time in whole milliseconds, with the period `PeriodUs`). It divides as the kernel does, with no guard, so a measure under 1 ms would be a division-by-zero error in TLC; with the default period of 1000 us no measure of at least one tick is that short.

The library's `hrm_get_heart_rate` loads a window's time and count without excluding the tick, so it can pair values of two ticks. Spec 3 and 5 describe consumer reads as best-effort, so the model states no property on them and leaves the reader out.

Spec 8 says a window longer than the buffered history "reports unavailable", while spec 4.5 and the code (`kernel/hrm.c:65`) clamp it to `min(size, filled)` and publish a rate over the shorter history. The model follows the code: `RefWindow` takes the same minimum.

### `HrmGoal`: the goal spin-lock between threads, kernel readers and crashes

One group's `goal_lock`, window table `wsize[]` and `scope`, shared by two producer threads and by `hrm_show`.

Each library call has a thread-local `pc`:
- `idle` → `spin` (`while (__sync_lock_test_and_set(...))`, the `Spin` step, taken only when the word is 0) → `cs` → `idle`.
- `Section` is one whole critical section, ending in `__sync_lock_release`: the table loop of add or del, set_goal's scope store, or unset_goal.
- `set_goal` with a non-zero size runs two sections, `sg_add` and then `sg_scope`, as the code does (`__hrm_add_window`, then a second lock). An ENOMEM from a full table ends the call after the first section.
- `DelWindow` tests the scope when the call starts, before the lock, as at `tools/libhrm/hrm.c:194`.

Other actors and steps:
- `Crash(t)` kills a thread at any point, at most `MaxCrashes` times. The lock word lives in the shared page, so it keeps its value.
- `GetWindowsNumber` and `GetGoalBound` are the library's lock-only queries (`hrm_get_windows_number`, `hrm_get_min/max_heart_rate`): one critical section that changes nothing but the lock.
- `ShowLock` / `ShowSpin` / `ShowRead` are `hrm_show`: it takes `hrm_groups_lock`, then the goal lock inside `hrm_get_heart_rate` / `hrm_get_min/max_heart_rate`, then releases both.

### `HrmMapping` (+ `MC_HrmMapping`): the mapping cache and the mmap handlers

State:
- `maps[r][p]`: the cache entry of process `p` for region `r` (the counters, or the measures-and-goal page). It holds a reference count and the protection of the first mapping.
- `uaddr[t][r]`: the protection behind the address thread `t` was handed. Only the protection is kept of an address.
- `role[t]` and `pc[t]`: the position in `hrm_attach` / `hrm_detach`.

Actions:
- `Attach` is the group write.
- `ProducerCounterMmap` / `ConsumerCounterMmap` are the two counter handlers, with `PROT_READ|PROT_WRITE` and `PROT_READ`, as `hrm_attach` requests. `MeasuresGoalMmap` covers both measures/goal handlers. Each one is find → get (`refs + 1`, cached address) or remap → add (`refs = 1`), all under the group's write lock: `MapRegion`.
- `MmapFailed` is a failed mmap. `hrm_attach` then writes `-gid`.
- `AddressReadBack` is what the proc read handlers (`hrm_producer_counter_read` and the three like it) return: the address stored at mmap time, i.e. the cache entry's. `hrm_attach` uses that address, not the mmap return value.
- `Detach` is the kernel delete, which puts both regions whether or not this thread took a reference: `PutRegion`.

### `HrmProducerDemo` (+ `MC_HrmProducerDemo`): the producer demo program

`tools/libhrm/producer.c`: a main thread and two workers (`producer -t 2`), all producers of one group.

State:
- `mpc` and `wpc[w]`: where main and each worker are in `main()` and `thread()`.
- `start` and `running`: the two global flags of the start handshake.
- `members`: the threads attached to the group.
- `gen`: how many times the kernel has created the group. It creates it on the first attach and destroys it on the last detach.
- `page[t]`: the group incarnation whose pages thread t's monitor maps.

Actions:
- Main: `MainCreate`, `MainAttach`, `MainGoals` (every goal call before the start), `MainStart`, `MainResetRunning`, `MainWaitRunning`, `MainDetach`, `MainJoin`, `MainUnsetGoal`, `MainDelWindows`.
- Each worker: `WorkerWaitStart`, `WorkerAttach`, `WorkerRunning`, `WorkerHeartbeats`, `WorkerDetach`.
- Each step is one line or loop of the program, in its order.

The flags are plain ints that one thread spins on and another writes: a data race. A build may reload a flag on every iteration of the spin, or load it once and spin forever on a 0. `HoistedLoads` says whether the second outcome is possible (`SpinHangs`).

## Runs

| run | cfg | expect | shows |
|---|---|---|---|
| group_live | MC_HrmGroup_live.cfg | pass | Across every interleaving of two tasks' attach/detach/exit with the unlocked detach steps: registry = groups with members (`RegistryIffMembers`), no member of a freed group (`MembersOnLiveGroups`), every group with producers registered and ticking (`ProducerGroupsTick`); every started detach or exit finishes (`OperationsComplete`) |
| group_monotone | MC_HrmGroup_monotone.cfg | violation | `global.count` falls: the tick counts a detaching producer twice, and concurrent `history +=` lose updates |
| group_slots | MC_HrmGroup_slots.cfg | violation | Two listed producers share a slot: release happens before unlink |
| window_safety | MC_HrmWindow.cfg | pass | Under any sequence of heartbeats, ticks and table calls, each configured window below ring size equals the reference over the last `min(size, ticks)` ticks of the full history, across wrap-around of `cur` and saturation of `buffered` (`WindowMeasureCorrect`) |
| demo_wakeup | MC_HrmProducerDemo_wakeup.cfg | violation | `producer.c` sets `start = 1` and only then `running = 0`. When both workers attach and set `running = 1` in between, main clears the flag and spins in `while (!running)` forever, even in a build that reloads it (`MainTerminates`) |
| demo_freed | MC_HrmProducerDemo_freed.cfg | violation | After detaching and joining the workers, main calls `hrm_unset_goal` and `hrm_del_window` through its monitor. The last detach destroyed the group, and `__hrm_destroy_group` freed its measures/goal page (`kernel/hrm.c:149`), which the process still maps (`MainGoalPageLive`) |
| goal_safety | MC_HrmGoal.cfg | pass | With two threads, `hrm_show` and one kill: `goal_lock` is set exactly while one party is in a critical section, the ENOMEM return included (`GoalLockAccounted`). Unless a killed thread holds the lock, every call returns (`OperationsComplete`) |
| goal_scope | MC_HrmGoal_scope.cfg | violation | `del_window`'s unlocked scope test, racing `set_goal`'s two sections, deletes the goal's window |
| goal_show | MC_HrmGoal_show.cfg | violation | A thread killed in a goal critical section makes `hrm_show` spin forever while it holds `hrm_groups_lock` |
| mapping_safety | MC_HrmMapping.cfg | pass | With failing mmaps, the cache never holds more references than users, so no entry leaks (`RefsBoundedByHolders`) |
| mapping_prot | MC_HrmMapping_prot.cfg | violation | A producer thread gets the read-only counters address a consumer thread of its process created |
| mapping_refs | MC_HrmMapping_refs.cfg | violation | The detach after a failed mmap puts another thread's reference and frees its entry |

The findings in `PROJECT.json` give the line for each violation. Each property of a passing run has a mutant there: a plausible bug in the mapped code that the run detects.

Three further defects were checked by earlier runs whose properties are no longer run. Each needs a single sequential call sequence rather than an interleaving:
- a reused slot keeps its previous owner's counter, and the tick counts it again (`kernel/hrm.c:264`);
- exit leaves `used = 1` on a freed slot (`kernel/hrm.c:359`);
- a window of `HRM_MAX_WINDOW_SIZE` measures 0 forever (`kernel/hrm.c:83`). Adding 4 to `WinSizes` in `MC_HrmWindow.cfg` shows it.

The same holds for three library defects: a duplicate after add/del/add (`tools/libhrm/hrm.c:151`), `windows_number` skipping the last entry (280), and the division by zero for a timer period under 1 ms (`kernel/hrm.c:632`). They are listed as hazards.

### Bounds

**HrmGroup:**
- 2 tasks, 1 group, 2 slots.
- One heartbeat per slot counter (`MaxBeats`). `group_live` allows 1 tick and `history <= 1` (the `HistoryBound` constraint) and finishes in under a minute; `group_monotone` allows 2 ticks.
- One group is enough: every lock and race here is per group, apart from the registry lock, which the single group already takes on every path. Two slots and two tasks are the fewest for which slot reuse, a double detach and attach-during-detach happen. Each of the violations needs only 4-8 steps.

**HrmWindow:**
- Ring `R = 4`, 2 table entries, window sizes {1, 3}.
- 6 ticks, so the ring wraps and `buffered` saturates.
- At most one heartbeat per period.
- `window_safety` reaches about 627,000 distinct states in about 10 seconds.

**HrmGoal:**
- 2 threads, 2 table entries, sizes {1, 2}, 1 kill (0 in `goal_scope`).
- Two sizes and two entries are the fewest that fill the table (ENOMEM) and let one thread delete what the other set.

**HrmProducerDemo:**
- Main and 2 workers. The lost wakeup needs every worker to set `running` before main clears it, so it needs at least two workers to show that one late worker is not enough to save main.

**HrmMapping:**
- 3 threads: t1 and t2 in one process, t3 in another.
- Two threads of one process are what the cache deduplicates. The third thread shows that other processes are kept apart.

### Fairness

- **HrmGroup:** `TaskStep(t)` (a task's in-flight detach/exit step) has strong fairness. Kernel spinlocks are fair ticket locks on SMP, so a task waiting on `hrm_groups_lock` gets it once the lock is released infinitely often. Each `Tick(g)` has weak fairness, because the hrtimer re-arms itself while the group lives. New attach/detach calls are not fair: a task may stop making calls.
- **HrmGoal:** `Spin(t)` and `ShowSpin` have strong fairness. A test-and-set loop succeeds once the word is 0 infinitely often, given that the threads keep being scheduled. `Section(t)` and `ShowRead` have weak fairness: a running thread finishes the few stores of its section. `Crash` and new calls have no fairness. `OperationsComplete` assumes no killed thread holds the lock, because that case is the `goal_show` violation.

- **HrmProducerDemo:** each thread's steps have weak fairness: the scheduler runs every runnable thread. A thread spinning on a 0 flag makes no step, so fairness does not push it past the spin.

`group_live`, `goal_safety`, `demo_wakeup` and `demo_freed` turn deadlock checking off:
- in `group_live`, every task may stop making calls for good;
- in `goal_safety`, a killed lock holder really stops every other spinner;
- in `demo_wakeup` and `demo_freed`, the program ends.

`window_safety` and `mapping_safety` do check for deadlock.

## Not modelled (yet), and the plan

1. **Composition**: `HrmGroup`'s global tick feeding `HrmWindow`'s ring, so that window measures inherit the double-count found in `group_monotone`.
2. **Stale reads**: the tick reads `window_size` unlocked (`kernel/hrm.c:63`), so a measure can be paired with a stale size.
3. **The producer demo's late worker**: a worker that attaches after the others and main have left creates a new group without the goal windows. The model reaches it (`gen > 1`), but no run checks it.
4. **Library queries**:
   - `seek_heart_rate` reads out of bounds on a miss (`tools/libhrm/hrm.c:340`).
   - `get_tids` scans 64 slots and writes one past the buffer (478).

Left out for good:
- The string parsing and `copy_from_user` of the command channel. They are abstracted to the integer.
- The file I/O of the library's attach/detach. Their order of calls is in `HrmMapping`.
- The listing text of `hrm_show`.
- The demo programs other than `producer.c`. `consumer_mon.c` and `temperature.c` are endless loops of queries written to log files. `consumer_mon.c` also writes a level to `/proc/schedidle` from the rate. `affinity.c` calls `hrm_set_goal` on a monitor it never attached, an uninitialised pointer that no model can give a meaning to.
- The double-precision rates of the library, and the min/max rate values, which no property tells apart.
- The u64 overflow of `count * USEC_PER_SEC`. It is far beyond any count TLC can reach.
