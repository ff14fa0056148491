# A verification project for the NCU Linux kernel projects

The repository holds two exercises on Linux 5.17: Project 1 adds a system call
that translates virtual addresses, Project 2 a system call that fixes the
priority of a process, with a hook in `__schedule()`. Beside the students' files
it carries the kernel files they changed, whole: `core.c` (the scheduler core,
10948 lines), `fork.c` (process creation, 3179 lines), `sched.h` and
`syscalls.h`. The TLA+ modules here model that code; TLC checks them on small
instances and TLAPS proves the central results for every instance.

## 1. Inventory

State lives in `task_struct` (state, on_rq, on_cpu, cpu, policy, the four
priorities, load weight, allowed CPUs, mm, reference counts), in the per-CPU `rq`
(curr, lock, wake list, counters, uclamp buckets) and in the objects that
processes share (`mm_struct`, `signal_struct`, `sighand_struct`, credentials,
pids, cgroups). The actors are the CPUs: the task each one runs, interrupts, IPIs
and stopper threads.

| Part | Source | Operations that change state | What is hard about it |
|---|---|---|---|
| Blocking and waking | core.c 3540-4226, 6192-6478, sched.h 82-230 | wait loop, `__schedule()`, `try_to_wake_up()`, wake list and IPI | decisions on `__state`, `on_rq` and `on_cpu` are taken without a common lock; lost wakeups; two CPUs on one stack; counters that are decremented on another CPU |
| Context switch and exit | core.c 4629-5003, 6335 | `prepare_task()`, `finish_task()`, `finish_task_switch()`, `do_task_dead()` | the end of a switch runs on the stack of the next task; the last reference of a dead task |
| Placement and migration | core.c 2149-3500 | `move_queued_task()`, `set_cpus_allowed_ptr()`, `migrate_disable()`, `migration_cpu_stop()`, `migrate_swap()` | requests that overlap, a stopper that finds the task gone, completions shared by several callers |
| Priorities | core.c 1218, 2048-2123, 6756-7551, my_set_process_priority.c, fork.c 2398 | hook, `nice()`, `set_user_nice()`, `sched_setscheduler()`, `rt_mutex_setprio()`, `sched_fork()` | values read before the lock and stored under it; five fields that must stay in step; boosts |
| Address spaces | fork.c 491-1511, core.c 4944-5003 | `copy_mm()`, `mmput()`, `mmdrop()`, `get_task_mm()`, lazy TLB, `vfork()` | two reference counts, one borrowed across a context switch |
| Process creation | fork.c 874-980, 1513-2604 | `copy_process()`, its error labels, `kernel_clone()` | some thirty resources to give back in the right order when one step fails; signals and `max_threads` during a fork |
| unshare, clone flags | fork.c 2652-3156 | `ksys_unshare()`, `clone3()` | flags that imply each other, partial failure |
| Kernel stacks, task_struct memory | fork.c 151-473, 745-857 | stack cache, `put_task_struct()`, `free_task()` | a cache with two slots per CPU |
| Utilization clamps | core.c 1309-1975, 10063-10230 | `uclamp_rq_inc()`, `uclamp_rq_dec()`, updates | buckets counted while values change underneath |
| Core scheduling | core.c 97-373, 5646-6120 | `sched_core_get/put()`, core-wide pick | the lock of a runqueue changes while others wait for it |
| Runqueue locks | core.c 388-620 | `task_rq_lock()`, `double_rq_lock()` | the task moves while its lock is being taken |
| wake_q, resched, ticks | core.c 839-1010, 5253-5545 | `wake_q_add()`, `wake_up_q()`, `resched_curr()`, remote tick | a task can be on one wake_q only; polling idle loops |
| CPU hotplug | core.c 8823-9260 | `sched_cpu_activate()/deactivate()`, balance push | tasks that must leave a dying CPU |
| Task groups, bandwidth | core.c 9764-10860 | `sched_create_group()`, `tg_set_cfs_bandwidth()` | hierarchical sums, ratios in fixed width |
| System calls on policies and affinity | core.c 7560-8398 | argument checks | copies of structures whose size userspace chooses |
| Address translation | Project 1 addresstransform.c | `my_get_physical_addresses()` | page tables read while the process changes them |

Properties that make the system correct: a task runs on one CPU at a time; no
wakeup is lost; what the scheduler counts it counts once; a task's class, weight
and effective priority are those of its parameters; every reference taken is
dropped once; a failed operation leaves nothing behind; a request that waits for
a completion is completed.

## 2. How the project is organised

From the core outward:

1. `Wakeup`, with its proofs: blocking, waking, switching, moving, exiting.
   `TaskLife` is the abstract specification of what that code promises to a task,
   `WakeupLife` the refinement mapping; `WakeupLifeSched`, `WakeupLifeTtwu` and
   `WakeupLifeProofs` are its proof.
2. `Priority`: the project's own system call against everything else that writes
   the same fields.
3. `AddressSpace`: `mm_struct` life cycle with the lazy borrowing of
   `context_switch()`, vfork completion; `Fork`: `copy_process()` with every error
   label; `Sharing`: the flags of `clone()` and `unshare()` and what they share.
4. `Affinity`: `affine_move_task()`, `migration_cpu_stop()` and
   `migrate_disable()`, with the liveness of the completion; `Hotplug`: taking a
   CPU down and up.
5. `CoreSched`: the core-wide pick, and core scheduling switched on and off.
6. `Uclamp`: clamps of tasks, groups and system, and the life of task groups.

Each module `M` has an `MCM` that instantiates it. A definition whose comment
starts with "Mutant" is a plausible wrong version of the definition that follows
it; the properties are known to fail when it takes that definition's place.

## 3. The modules

### Wakeup

One program counter per CPU (`pc[c]`) stands for the code that runs there with
interrupts off; `tsk[c]` is the `task_struct` it has at hand. `"run"` is the only
point at which the CPU can be interrupted, so an IPI, a wakeup from an interrupt
or a stopper starts there. The locks are read off the program counters:
`rq->lock` is held from `__schedule()` to `finish_lock_switch()`, `p->pi_lock`
from `try_to_wake_up()` to its end. A critical section of which the other side
sees a single store is one step.

| Action | Code |
|---|---|
| `set_current_state`, `check_condition`, `resume` | the wait loop documented in sched.h, `io_schedule()` |
| `schedule`, `preempt_schedule`, `pick_next_task` | `__schedule()` up to the switch: for SM_NONE, for preemption, from `pick_next_task()` on |
| `newidle_balance` | drops and retakes `rq->lock` (fair.c, external) |
| `finish_task`, `finish_lock_switch` | `finish_task_switch()` on the next task's stack |
| `do_task_dead`, `free_task` | exit and the last reference |
| `wake_up_process`, `wake_up_current` | the waker before `p->pi_lock`; the shortcut for `p == current` |
| `try_to_wake_up`, `ttwu_read_on_rq`, `ttwu_runnable`, `ttwu_on_cpu`, `ttwu_queue` | `try_to_wake_up()` between its reads of `__state`, `on_rq` and `on_cpu` |
| `sched_ttwu_pending` | the IPI that empties the wake list |
| `sched_fork`, `wake_up_new_task`, `activate_task` | a new task |
| `move_queued_task`, `detach_task` | migration by the stopper and by the load balancer (fair.c, external) |

Abstractions: memory is sequentially consistent (the barriers of the code are what
buys that; `p->on_cpu`'s acquire/release pair is a step boundary); which queued
task is picked and whether the wake list is used are left open; the freezer and
ptrace states, `saved_state` of PREEMPT_RT and delayed signals are left out. The
stopper is modelled as code that may run on any CPU at `"run"`, without being a
task itself, which allows more interleavings than the kernel has.

### Priority

`task[p]` holds the scheduling fields of a `task_struct`, `op[a]` what a system
call of task `a` has read before it takes the lock: `nice()`, `setpriority()`,
`sched_setscheduler()`, `sched_setparam()`, `rt_mutex_setprio()` and `fork()` are
each two or more steps. Nice values are kept as static priorities, the load weight
as the index into `sched_prio_to_weight[]`. `dup_task_struct()` copies the parent
in one step; SCHED_DEADLINE, SCHED_IDLE, permissions and KEEP_PARAMS are left out.
`reniced` and `stale` are ghosts: who got a nice value since its dispatch (also the
old one that a `sched_setscheduler()` to SCHED_NORMAL writes back), and whose
`static_prio` was stored by the hook alone.

### AddressSpace

Tasks (`Users` with an address space, `Kthreads`, and one idle task per CPU, named
by its CPU) and a pool of `mm_struct`s with `mm_users` and `mm_count`. `tpc[p]` is
where a task is; a task steps only while a CPU runs it, and `context_switch()` can
preempt it between any two steps, except that the CPU must have finished the
previous switch. `prev_mm` is `rq->prev_mm`, the reference that
`finish_task_switch()` drops on the next task's stack. `vfork_done` points to the
parent, whose stack holds the completion. `exit_mm()`, `exec_mmap()` and
`release_task()` are external (exit.c, exec.c) and modelled from what `fork.c`
expects of them. Left out: `kthread_use_mm()`, the futex wake for
`clear_child_tid`, failures inside `mm_init()`, `exe_file` and `oom_mm`.

### Fork

The steps of `copy_process()` and its error labels are two tables, `Steps` and
`Unwind`, in the order of the code: what a step takes, the label a failure goes
to, what each label gives back. `have[t]` counts the references of the
`task_struct` in the making; putting what was not taken makes it negative, which
in the kernel would be a put of the parent's reference. The process has several
threads that fork at once. `send_signal`, `send_sigkill`, `seccomp_sync_threads`
and `release_task` are the other side (signal.c, seccomp.c, exit.c). The section
under `tasklist_lock` and `siglock` is one step, `attach`. The forkers are user
threads, so the kthread structure does not occur; flags are those that change
what is taken (`CLONE_THREAD`, `CLONE_PIDFD`). `sent` is a ghost. The
steps up to the limits are taken one by one; from there to `attach`, and from a
failure to `fork_out`, a thread touches nothing that others look at except the
charge for RLIMIT_NPROC, and each stretch is one step.

### Affinity

One task `p`, CPUs with their stoppers, and callers of `set_cpus_allowed_ptr()`, of
which `p` itself (`Self`) is one. `pend[q]` is the `set_affinity_pending` on the
stack of caller `q`, `migration_pending` the one installed in `p`, `work[q]` the
CPU its stop work is queued on. What the code does under `p->pi_lock` and
`rq->lock` is one step; `stop_one_cpu_nowait()` and `complete_all()` come after the
locks are released and are steps of their own, for callers, for
`migrate_enable()` and for the stopper. `ptr` is `p->cpus_ptr`: the mask, or the
one CPU that `migrate_disable_switch()` sets when `p` is switched out. A stopper
runs when `p` is not on its CPU, which preempts `p` unless it has preemption off
inside `migrate_enable()`. The placement of a wakeup, the balancer and
`find_lock_rq()` may choose any CPU that `p->cpus_ptr` allows, so `wake_cpu` (a
hint) is left out. All CPUs stay online.

### TaskLife and WakeupLife

`TaskLife` has no runqueues, locks, wake lists or migration: a task is `none`,
`new`, `ready`, `blocked` or `dead`, a set of CPUs executes it, and its condition
holds or not. Only a ready task that no CPU executes is dispatched, only an
executing task blocks or dies, a blocked task is woken only when every CPU has left
its stack, and memory is reused only then. `WakeupLife` reads this off the
`task_struct`: `blocked` is a sleeping `__state` with `on_rq` 0, so that a task that
is TASK_WAKING is still blocked and one that migrates is ready; the executing CPUs
are those whose program counter is in the task or in a switch from or to it.
`Woken` adds that a blocked task whose condition holds gets ready, stated as a
leads-to and not as fairness of the abstract actions.

### Uclamp

One runqueue, tasks that fork, sleep, wake, change class and exit, a tree of task
groups, the three sysctls. `task[p].req` is `p->uclamp_req`, `task[p].eff` the clamp
it is counted with, `rq` the buckets and their maximum. The sysctl handler, the
writes of `cpu.uclamp.*` and a group coming online hold `uclamp_mutex` over many
steps (`hold`): the walk over the groups, then over the tasks of each, while tasks
act between any two of them. `early` is a ghost: the tasks that took an RT default
out of the sysctl before the handler validated it. A group is created, onlined,
released and freed as the cgroup code calls it; the css reference of a forking task
is the one of `cgroup_can_fork()`. A `sched_setattr()` that stays in the task's class
may or may not ask for another nice value or priority; if it does, it goes through
the same dequeue, reset and enqueue as a change of class.

Priority inheritance is left out: the code's `rt_task()` looks at `p->prio`, which
`rt_mutex_setprio()` also changes, the model's at the class. A boost only raises, so
a real-time task is one in either sense, and `RtDefaultSynced` speaks of those. What
the model does not show is a boosted fair task that the sysctl walk or
`__setscheduler_uclamp()` takes for a real-time one and that keeps the RT default
after the boost.

### CoreSched

One core. `pick_next_task()` is split by its early returns: a pick left by a sibling
(`pick_scheduled`), no cookies (`pick_uncookied`), the core-wide selection
(`pick_core_wide`), core scheduling off (`pick_alone`). Of the sequence numbers only
their equality is kept. `sched_core_get()`, `sched_core_put()` and the work item are
several steps each, with the mutex and the static key; `__sched_core_flip()` is one,
under the lock of all CPUs. Hotplug moves the state of the core from one leader to
the next. Cookies are set by `sched_core_update_cookie()` (core_sched.c, external).

### Hotplug

The CPUs in `Pluggable` with what they run, the rest left open. A wakeup selects its
CPU in one step and enqueues in the next. `schedule` is a switch with the balance
callbacks of `finish_lock_switch()`; `balance_push()` hands ordinary tasks to the
stopper, which is a task of its own here (`Stop`), as is the CPU's hotplug thread
(`Cpuhp`), which sleeps again when the CPU is given back (`cpuhp_thread_sleep`).
`splice_balance_callbacks` and `balance_callbacks` are the two ends of a
`__sched_setscheduler()` on another CPU. RCU, parking of per-CPU threads and
`cpu_down()` are external.

### Sharing

A task points to numbered objects: thread group, mm, signal handlers, fs, files,
namespaces. All callers of `kernel_clone()` are there with the flags they fix, and
the checks at the top of `copy_process()`. `ksys_unshare()` reads `fs->users` and the
table's count without a lock, so it takes a step per read, and a last one for the
namespaces and the exchange under `task_lock()`, or for the failure; others clone and
exit in between. In the code that last step is three: `switch_task_namespaces()`, the
exchange, `commit_creds()`. Between them a task that unshares is in its new mount
namespace with its old root, so `NamespacesAgree` is about tasks outside that stretch
of the call. Of `kernel_clone()` only the call of `copy_process()` is here; vfork and
its completion are in `AddressSpace`.

## 4. The runs

| Run | Instance | Shows |
|---|---|---|
| `wakeup` | 2 tasks, 2 CPUs, normal wakeups | wake lists, wakeups in flight, counters and the last reference are sound |
| `wakeup_live` | 1 task, 2 CPUs, normal wakeups and signals, fair | `Wakeup` implements `TaskLife`, its liveness included; the inductive invariant of the proofs holds |
| `priority` | 2 tasks, 2 CPUs, hook, nice, setpriority, fork | `FixedUnlessReniced`, `LoadInStep` |
| `priority_rt` | 2 tasks, 2 CPUs, FIFO, a real-time donor, SCHED_RESET_ON_FORK | `BoostKept`, `LoadInStep` |
| `address_space` | 2 processes, 1 kernel thread, 2 CPUs, 2 address spaces | both reference counts are exact, no page table is freed under a CPU, the vfork handshake is safe |
| `fork` | 2 forking threads, `max_threads` 3, RLIMIT_NPROC 4, up to 1 other task; signals, SIGKILL, seccomp | failed forks give back exactly what they took (the seccomp filter apart, section 6), group signals and filters reach the child, `max_threads` holds up to the overshoot the code admits |
| `affinity` | 2 CPUs, `p` and 1 other caller, nesting 2, fair | a task with migration disabled stays, requests and their stop work are used soundly, every caller returns |
| `uclamp` | 2 tasks, root and 1 group, 2 buckets, 2 writes to the knobs | the runqueue's clamps are those of its tasks, the RT default and the limits of groups reach every task, no task points to a freed group |
| `core_sched` | 2 siblings, 3 tasks, 2 cookies, the leader pluggable | the siblings agree on leader and lock, whoever holds core scheduling has it; during the first enabling no two cookies stay on the core, a pick that is still to be scheduled is valid, forced idle ends |
| `hotplug` | 1 CPU of 2 goes down, a user task, a kernel thread and a per-CPU thread, fair | the CPU that dies is vacated; the way down ends, unless the CPU went idle in the middle of a splice |
| `sharing` | 3 tasks, 4 calls of clone or unshare with every combination of 6 flags | threads share handlers and VM, sharers stay in one namespace, counts are exact through every error path |
| `hotplug_push` | as `hotplug` | the disagreement of section 6 |

`TypeOK` of every module holds on the same instances; it is not among the listed
properties because it says little beside them. For `Wakeup` it is part of `IndInv`.

Bounds. Two tasks and two CPUs give a waker that is remote or local, a sleeper
that migrates while it is woken, and a third party that moves it. Two address
spaces and a kernel thread give a borrowed mm whose last user leaves. In
`fork` the initial load is chosen so that both limits can be reached,
passed by a race, or be reached already. Two CPUs are enough for a stopper that
has to go after the task; the safety properties of `affinity` were also checked with
three callers and nesting 1 (402224 states), and `ImplementsTaskLife` on the instance
of `wakeup`. `Nesting` bounds `migrate_disable()`.
In `uclamp`, `Scale` 2 with two buckets has two values that share a bucket and one
above it, `Writes` = 2 lets one write meet the walk of another. In `core_sched`
three tasks are one more than the core runs; they have one level, within which every
pick is left open, and two levels (766535 states) give the same results. `MaxEnables`
counts how often core scheduling goes from off to on; with 1, a first holder leaves
and a second arrives before the switch is off. `CookieExclusion`, `PickValid` and
`CoreNotStalled` say in their statement that they are about the first enabling, since
the code does not keep them in a second one (section 6). `LeaderAgreed` and
`HeldIsEnabled` have no such restriction: they also hold with `MaxEnables` = 2, on one
cookie (461333 states) and on two (1429425 states, too long for a regular run). In `hotplug`, `MaxDowns`,
`MaxPins` and `Splices` count `cpu_down()`, `migrate_disable()` and
`__sched_setscheduler()`. Every loop of the kernel code that is in the model (retries
of `__task_rq_lock()`, the spin on `on_cpu`) is a guard. In `Wakeup` no counter is
bounded: `puts` is reset by `free_task()`, and the counters are bounded by the number
of tasks because they are exact.

Fairness. `FairSpec` assumes that code with interrupts off runs to its end
(queued spinlocks serve their waiters in order, hence strong fairness) and that a
CPU serves its wakeup IPI when it has interrupts on again and again. Nothing is
assumed of tasks: they may compute for ever, never sleep, never exit. In
`Affinity`, stoppers (the highest class) and callers make progress, `p` gets CPU
time, and `p` leaves its migrate-disabled sections, being woken if it sleeps in
one: these are short critical sections, and a caller must wait for them. A
preemptible kernel is assumed: a stopper whose wakeup came while preemption was
off runs at `preempt_enable()`, if not always then again and again. In `Hotplug` the
CPU reschedules, the stopper and the hotplug thread run when they are runnable, every
queued task gets CPU time, a wakeup under way is finished, a task leaves its
migrate-disabled section, and a per-CPU thread blocks when it is to be parked:
without the last two the wait is rightly endless. A `__sched_setscheduler()` has
preemption off from the splice to the callbacks, so it gets to run them.

Deadlock checking is off where every task may be gone.

## 5. The proofs

`WakeupProofs` proves `Spec => []IndInv` and from it the safety properties
`OneStackOneCpu`, `OnCpuExact`, `WakeListSound`, `SpinEnds`, `WakeupInFlight`,
`ReleasedOnce` and the action property `DeadStaysDead`, for every finite set of
tasks and every set of CPUs. The only assumption is `TasksAssumption` (the set of
tasks is finite, the idle task is not one of them). `WakeupSchedProofs`,
`WakeupTtwuProofs` and `WakeupQueueProofs` hold the lemmas, one per action.

None of the properties is inductive alone. `OneStackOneCpu` needs to know that a
task that is being woken is off its CPU (`TtwuInv`), which needs that only one
waker has it (`LocksInv`, from `p->pi_lock`), that a task on a wake list is on no
queue (`QueueInv`), and that `on_cpu` is exactly "some CPU executes it"
(`ExecInv`). `WakeupInFlight` is extended back to the moment at which the wait
loop has found its condition false (`CondInv`). `DeadInv` follows a dead task from
`do_task_dead()` through the switch to its last reference. `LocalsInv` says what
the local variables of the code hold at each point.

`WakeupLifeProofs` proves `Refinement`: `Spec => ImplementsTaskLife`, from the same
invariant, again for all tasks and CPUs. Under `IndInv` every action maps to one
action of `TaskLife` or to a stutter; the lemmas go action by action, in
`WakeupLifeSched` and `WakeupLifeTtwu`. What carries it is `ExecInv` (the executing CPUs change only in `pick_next_task()`, where the next
task has none, and in `finish_task()`, where the previous one has exactly this one),
`TtwuInv` (whoever enqueues a task has seen it off its CPU) and `DeadInv`.
Once this is known, `OneStackOneCpu` and `DeadStaysDead` hold of every run that
implements `TaskLife`; they, `OnCpuExact` and `SpinEnds` are proved and not listed
among the properties of a run.

`CountersExact` is a count over sets, and `BlockedIsWoken` is a liveness property
under fairness: these are model-checked only. So are all
properties of the other modules.

## 6. Disagreements found

- `hotplug_push`: `__sched_setscheduler()` takes `balance_push` off the callback list
  of an outgoing CPU and runs it after dropping the lock; in between that CPU
  switches to an ordinary task and keeps it, against the comment in
  `sched_cpu_deactivate()` ("this CPU will refuse to run any task that is not ...").
  The callback puts itself back, and the next switch pushes. When the CPU went idle in
  between there need not be a next switch: nobody wakes the hotplug thread, and the CPU
  stays half-way down until something else runs on it. `DownEnds` excepts exactly that
  state (`WakeupMissed`: the thread waits, nothing is left to wait for, the CPU is idle
  and its callbacks are with the `__sched_setscheduler()`); without the exception TLC
  finds the behaviour, with it a splice at any other moment delays nothing for ever.

Met while modelling, each confirmed by a TLC counterexample to the property that
states the text, and not kept as a run:

- The hook (core.c 6291) stores `static_prio` and leaves the load weight, so the rate
  of `vruntime` does not follow, against `Project 2/readme.md` line 238. That is also
  why the measured times in that file do not differ.
- The hook writes `static_prio` under `rq->lock` alone, against the serialization
  rules at the top of core.c (419-425).
- `sched_fork()` (core.c 4394) reads the parent's `normal_prio` later than
  `dup_task_struct()` read the rest; a concurrent `sched_setscheduler()` gives the
  child a real-time priority that nobody asked for and no boost explains
  (2074-2080).
- `copy_seccomp()` (fork.c 2321) takes a reference to the filter before the last two
  checks of `copy_process()`; when one of them gives up, no label and not
  `free_task()` puts it, against the comment in `dup_task_struct()` (918-923).
  `NothingLeft` leaves the filter out for that reason.
- `migration_cpu_stop()` (core.c 2402) completes a request when the task is
  elsewhere and `p->cpus_ptr` allows it there; with migration disabled that is
  always so. With two other callers one returns although the task is outside the
  mask it asked for, and `migrate_enable()` then meets its `WARN_ON_ONCE(!pending)`
  and leaves the task there.
- When core scheduling is switched off, a `core_pick` that its CPU has not scheduled
  stays; switched on again, the CPU may schedule it although the task has left
  meanwhile, against "the task pointers are all still valid" (5711). The core's cookie
  and its forced-idle count stay too: a CPU that was forced idle when core scheduling
  went off is told by nobody to look at its queue; and a CPU that has scheduled a task
  that left is not told when that task gets another cookie. `PickValid`, `CoreNotStalled` and
  `CookieExclusion` are therefore restricted to `first_enabling`; without that
  conjunct, `MaxEnables = 2` in `MCCoreSched.cfg` shows each behaviour.
- A lower `sched_util_clamp_min` does not reach the runnable tasks of a group whose
  own effective clamps it leaves unchanged: `cpu_util_update_eff()` (core.c
  10063-10112) does not go on to the tasks of such a group, against the comment "System
  default restrictions always apply" (1476). `LimitsApply` says what does hold.
- The sysctl handler stores before it validates (core.c 1731-1756). A task that
  becomes real-time in between keeps a refused RT default; these are the tasks in
  `early`, which `RtDefaultSynced` excepts.

Read in the source and not model-checked (`Hotplug` has neither variable): when
`cpuset_cpu_inactive()` refuses, `sched_cpu_deactivate()` restores the active mask and
the push, not `rq->online` nor `sched_smt_present`.

## 7. Not modelled

- `wake_q`: it batches calls of `try_to_wake_up()`; the lists are on the stacks of
  callers in locking/ and futex/, which are not in the repository, and the promise
  they rely on is theirs.
- The per-CPU cache of kernel stacks, `exe_file`, `dup_mmap()`: independent of the
  modelled state.
- `migrate_swap()`, user-requested masks, scheduling domains, NOHZ, SCHED_DEADLINE
  admission, the remote tick.
- Bandwidth of CFS and RT groups: 64-bit arithmetic over a tree, without
  interaction.
- The system calls in front of `__sched_setscheduler()` and
  `__set_cpus_allowed_ptr()`: argument checks and copies, no state of their own.
- `my_get_physical_addresses()`: it only reads page tables that mm/, which is not in
  the repository, changes.
- Without behaviour of their own or out of reach: tracing and debug output,
  statistics and delay accounting, PELT and cputime arithmetic, architecture code
  (`switch_to()`, TLB flushing), the sched classes (fair.c, rt.c, deadline.c are not
  part of the repository), table files (`syscall_64.tbl`, the Makefiles) and the
  user-space test programs.
