---------------------------- MODULE WakeupProofs ----------------------------
(*****************************************************************************)
(* IndInv of Wakeup is inductive, and the safety properties follow from it,  *)
(* for every finite set of tasks, every set of CPUs and both kinds of wakeup. *)
(*****************************************************************************)
EXTENDS WakeupSchedProofs, WakeupTtwuProofs, WakeupQueueProofs,
        FiniteSetTheorems

USE TasksAssumption DEF Sleeping, States, RqLocked, PiLocked, PCs, taskVars,
                        counters, goto, return

\* Init establishes the invariant.
LEMMA InitInv == Init => IndInv
  BY SMTT(20) DEF Init, IndInv, TypeOK, LocalsInv, LocksInv, ExecInv, QueueInv,
                  TtwuInv, DeadInv, CondInv, executes

\* What ttwu_do_activate() does to the counters is an integer.
LEMMA ActivateCounters ==
  ASSUME IndInv, NEW k \in CPUs, NEW S \in SUBSET Tasks, NEW M,
         ttwu_do_activate(k, S, M)
  PROVE  nr_uninterruptible' \in Int /\ nr_iowait' \in [CPUs -> Int]
<1>1. IsFiniteSet(S)
  BY FS_Subset
<1>2. Cardinality(S \cap contrib) \in Nat
  BY <1>1, FS_Subset, FS_CardinalityType
<1>3. Cardinality({p \in S \ M : in_iowait(p)}) \in Nat
  BY <1>1, FS_Subset, FS_CardinalityType
<1>4. nr_uninterruptible' \in Int
  BY <1>2 DEF IndInv, TypeOK, ttwu_do_activate
<1>5. nr_iowait' \in [CPUs -> Int]
  BY <1>3 DEF IndInv, TypeOK, ttwu_do_activate
<1> QED BY <1>4, <1>5

\* So both actions that activate a task keep the counters integers.
LEMMA CountersTyped ==
  ASSUME IndInv, NEW c \in CPUs, ttwu_queue(c) \/ sched_ttwu_pending(c)
  PROVE  nr_uninterruptible' \in Int /\ nr_iowait' \in [CPUs -> Int]
<1>1. CASE sched_ttwu_pending(c)
  <2>1. wake_list[c] \in SUBSET Tasks
    BY DEF IndInv, TypeOK
  <2> QED BY <1>1, <2>1, ActivateCounters DEF sched_ttwu_pending
<1>2. CASE ttwu_queue(c)
  <2>1. tsk[c] \in Tasks /\ cpu[tsk[c]] \in CPUs
    BY <1>2 DEF IndInv, TypeOK, LocalsInv, ttwu_queue
  <2>2. CASE \E m : ttwu_queue_wakelist(c, tsk[c], m)
    BY <2>2 DEF IndInv, TypeOK, ttwu_queue_wakelist
  <2>3. CASE \E M : ttwu_do_activate(cpu[tsk[c]], {tsk[c]}, M)
    BY <2>1, <2>3, ActivateCounters
  <2> QED BY <1>2, <2>2, <2>3, Zenon DEF ttwu_queue
<1> QED BY <1>1, <1>2

\* Every step preserves the invariant.
LEMMA NextInv == IndInv /\ [Next]_vars => IndInv'
<1> SUFFICES ASSUME IndInv, [Next]_vars PROVE IndInv'
  OBVIOUS
<1>1. CASE UNCHANGED vars
  <2>1. (TypeOK /\ LocalsInv /\ LocksInv)'
    BY <1>1, SMTT(60) DEF vars, IndInv, TypeOK, LocalsInv, LocksInv
  <2>2. ExecInv'
    BY <1>1, SMTT(60) DEF vars, IndInv, ExecInv, executes
  <2>3. (QueueInv /\ TtwuInv)'
    BY <1>1, SMTT(60) DEF vars, IndInv, QueueInv, TtwuInv
  <2>4. (DeadInv /\ CondInv)'
    BY <1>1, SMTT(20) DEF vars, IndInv, DeadInv, CondInv, waker
  <2> QED BY <2>1, <2>2, <2>3, <2>4, SMTT(60) DEF IndInv
<1>2. CASE \E p \in Tasks : free_task(p)
  BY <1>2, FreeTaskInv
<1>3. ASSUME NEW c \in CPUs,
             \/ preempt_schedule(c) \/ newidle_balance(c)
             \/ \E next \in Tasks \cup {Idle} : pick_next_task(c, next)
             \/ finish_task(c) \/ finish_lock_switch(c)
             \/ try_to_wake_up(c) \/ ttwu_read_on_rq(c) \/ ttwu_runnable(c)
             \/ ttwu_on_cpu(c) \/ activate_task(c)
      PROVE  IndInv'
  BY <1>3, PreemptScheduleInv, NewidleBalanceInv, PickNextTaskInv, FinishTaskInv,
     FinishLockSwitchInv, TryToWakeUpInv, TtwuReadOnRqInv, TtwuRunnableInv,
     TtwuOnCpuInv, ActivateTaskInv, SMTT(60)
<1>4. ASSUME NEW c \in CPUs, NEW p \in Tasks,
             \/ set_current_state(c, p) \/ check_condition(c, p) \/ resume(c, p)
             \/ do_task_dead(c, p) \/ schedule(c, p)
             \/ wake_up_process(c, p) \/ wake_up_current(c, p)
             \/ sched_fork(c, p) \/ wake_up_new_task(c, p)
             \/ move_queued_task(c, p) \/ detach_task(c, p)
      PROVE  IndInv'
  BY <1>4, SetCurrentStateInv, CheckConditionInv, ResumeInv, DoTaskDeadInv,
     ScheduleInv, WakeUpProcessInv, WakeUpCurrentInv, SchedForkInv,
     WakeUpNewTaskInv, MoveQueuedTaskInv, DetachTaskInv, SMTT(60)
<1>5. ASSUME NEW c \in CPUs, ttwu_queue(c) \/ sched_ttwu_pending(c)
      PROVE  IndInv'
  BY <1>5, CountersTyped, TtwuQueueInv, SchedTtwuPendingInv
<1> QED BY <1>1, <1>2, <1>3, <1>4, <1>5 DEF Next

\* IndInv holds of every reachable state of __schedule() against
\* try_to_wake_up(), whatever the tasks and the CPUs.
THEOREM Inductive == Spec => []IndInv
  BY InitInv, NextInv, PTL DEF Spec

\* No task is ever executed by two CPUs: the on_cpu handshake of finish_task()
\* and try_to_wake_up() is enough.
THEOREM OneStackOneCpuThm == Spec => []OneStackOneCpu
<1>1. IndInv => OneStackOneCpu
  BY SMTT(20) DEF IndInv, ExecInv, OneStackOneCpu, executing
<1> QED BY <1>1, Inductive, PTL

\* p->on_cpu is set exactly while some CPU, task_cpu(p), executes p.
THEOREM OnCpuExactThm == Spec => []OnCpuExact
<1>1. IndInv => OnCpuExact
  BY DEF IndInv, TypeOK, ExecInv, OnCpuExact, executing
<1> QED BY <1>1, Inductive, PTL

\* A task on a wake list is WAKING, blocked and off its CPU when the IPI of
\* sched_ttwu_pending() is served: its WARN_ON_ONCEs never fire.
THEOREM WakeListSoundThm == Spec => []WakeListSound
<1>1. IndInv => WakeListSound
  BY SMTT(60) DEF IndInv, TypeOK, ExecInv, QueueInv, WakeListSound, executes
<1> QED BY <1>1, Inductive, PTL

\* The CPU that try_to_wake_up() spins on is another one and is inside
\* __schedule(), where it needs no pi_lock.
THEOREM SpinEndsThm == Spec => []SpinEnds
<1>1. IndInv => SpinEnds
  BY DEF IndInv, TypeOK, LocalsInv, ExecInv, TtwuInv, SpinEnds, executing, executes
<1> QED BY <1>1, Inductive, PTL

\* No wakeup is lost between the wait loop, __schedule() and try_to_wake_up().
THEOREM WakeupInFlightThm == Spec => []WakeupInFlight
<1>1. IndInv => WakeupInFlight
  BY SMTT(60) DEF IndInv, CondInv, WakeupInFlight
<1> QED BY <1>1, Inductive, PTL

\* finish_task_switch() drops the reference to a dead task once, when no CPU
\* executes it any more.
THEOREM ReleasedOnceThm == Spec => []ReleasedOnce
<1>1. IndInv => ReleasedOnce
  BY SMTT(60) DEF IndInv, TypeOK, ExecInv, DeadInv, ReleasedOnce, executing
<1> QED BY <1>1, Inductive, PTL

\* What an action leaves of a dead task.
LEMMA DeadStep ==
  ASSUME IndInv, Next, NEW q \in Tasks, state[q] = "DEAD"
  PROVE  state'[q] \in {"DEAD", "FREE"}
<1>1. ASSUME NEW p \in Tasks, free_task(p) PROVE state'[q] \in {"DEAD", "FREE"}
  BY <1>1, SMTT(60) DEF IndInv, TypeOK, free_task
<1>2. ASSUME NEW c \in CPUs, try_to_wake_up(c) \/ ttwu_read_on_rq(c)
      PROVE  state'[q] \in {"DEAD", "FREE"}
  BY <1>2, SMTT(60) DEF IndInv, TypeOK, TtwuInv, try_to_wake_up, ttwu_read_on_rq
<1>3. ASSUME NEW c \in CPUs, ttwu_runnable(c)
      PROVE  state'[q] \in {"DEAD", "FREE"}
  BY <1>3, SMTT(20) DEF IndInv, TypeOK, TtwuInv, ttwu_runnable
<1>4. ASSUME NEW c \in CPUs, ttwu_on_cpu(c)
      PROVE  state'[q] \in {"DEAD", "FREE"}
  BY <1>4, Zenon DEF ttwu_on_cpu, ttwu_queue_wakelist
<1>5. ASSUME NEW c \in CPUs, ttwu_queue(c)
      PROVE  state'[q] \in {"DEAD", "FREE"}
  <2>1. tsk[c] # q
    BY <1>5, SMTT(60) DEF IndInv, TtwuInv, ttwu_queue
  <2>2. state'[q] = state[q]
    BY <1>5, <2>1, SMTT(20) DEF ttwu_queue, ttwu_queue_wakelist, ttwu_do_activate
  <2> QED BY <2>2
<1>6. ASSUME NEW c \in CPUs, sched_ttwu_pending(c)
      PROVE  state'[q] \in {"DEAD", "FREE"}
  BY <1>6, SMTT(60) DEF IndInv, QueueInv, sched_ttwu_pending, ttwu_do_activate
<1>7. ASSUME NEW c \in CPUs,
             \/ preempt_schedule(c) \/ newidle_balance(c)
             \/ \E next \in Tasks \cup {Idle} : pick_next_task(c, next)
             \/ finish_task(c) \/ finish_lock_switch(c) \/ activate_task(c)
      PROVE  state'[q] \in {"DEAD", "FREE"}
  BY <1>7, SMTT(60) DEF preempt_schedule, newidle_balance, pick_next_task,
                        finish_task, finish_lock_switch, activate_task
<1>8. ASSUME NEW c \in CPUs, NEW p \in Tasks,
             \/ set_current_state(c, p) \/ check_condition(c, p) \/ resume(c, p)
             \/ do_task_dead(c, p)
      PROVE  state'[q] \in {"DEAD", "FREE"}
  BY <1>8, SMTT(60) DEF IndInv, TypeOK, DeadInv, set_current_state,
                        check_condition, resume, do_task_dead
<1>9. ASSUME NEW c \in CPUs, NEW p \in Tasks, schedule(c, p)
      PROVE  state'[q] \in {"DEAD", "FREE"}
  BY <1>9, SMTT(60) DEF IndInv, TypeOK, DeadInv, schedule
<1>10. ASSUME NEW c \in CPUs, NEW p \in Tasks,
              \/ wake_up_process(c, p) \/ wake_up_current(c, p)
              \/ sched_fork(c, p) \/ wake_up_new_task(c, p)
              \/ move_queued_task(c, p) \/ detach_task(c, p)
       PROVE  state'[q] \in {"DEAD", "FREE"}
  BY <1>10, SMTT(60) DEF IndInv, TypeOK, wake_up_process, wake_up_current,
                         sched_fork, wake_up_new_task, move_queued_task, detach_task
<1> QED BY <1>1, <1>2, <1>3, <1>4, <1>5, <1>6, <1>7, <1>8, <1>9, <1>10,
  SMTT(60) DEF Next

\* No wakeup in flight revives a dead task: try_to_wake_up() and
\* set_special_state() exclude each other by p->pi_lock.
THEOREM DeadStaysDeadThm == Spec => DeadStaysDead
<1>1. IndInv /\ [Next]_vars =>
        [\A p \in Tasks : state[p] = "DEAD" => state'[p] \in {"DEAD", "FREE"}]_vars
  BY DeadStep
<1> QED BY <1>1, Inductive, PTL DEF Spec, DeadStaysDead
=============================================================================
