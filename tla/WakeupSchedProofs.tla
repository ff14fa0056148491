------------------------- MODULE WakeupSchedProofs --------------------------
(*****************************************************************************)
(* IndInv of Wakeup is preserved by the code of the tasks, by __schedule(),  *)
(* by fork and by migration.  One lemma per action, under it one step per    *)
(* conjunct of the invariant.                                                *)
(*****************************************************************************)
EXTENDS Wakeup, TLAPS

USE TasksAssumption DEF Sleeping, States, RqLocked, PiLocked, PCs, taskVars,
                        counters, goto, return

\* The wait loop prepares to sleep.
LEMMA SetCurrentStateInv ==
  ASSUME IndInv, NEW c \in CPUs, NEW p \in Tasks, set_current_state(c, p)
  PROVE  IndInv'
<1>1. TypeOK'
  BY DEF IndInv, TypeOK, set_current_state, running
<1>2. LocalsInv'
  BY DEF IndInv, TypeOK, LocalsInv, set_current_state, running
<1>3. LocksInv'
  BY DEF IndInv, TypeOK, LocksInv, set_current_state, running
<1>4. ExecInv'
  BY DEF IndInv, TypeOK, ExecInv, executes, set_current_state, running
<1>5. QueueInv'
  BY DEF IndInv, TypeOK, QueueInv, set_current_state, running
<1>6. TtwuInv'
  BY DEF IndInv, TypeOK, ExecInv, TtwuInv, executes, set_current_state, running
<1>7. DeadInv'
  BY DEF IndInv, TypeOK, DeadInv, set_current_state, running
<1>8. CondInv'
  BY DEF IndInv, TypeOK, LocalsInv, ExecInv, CondInv, executes, waker,
         set_current_state, running
<1> QED BY <1>1, <1>2, <1>3, <1>4, <1>5, <1>6, <1>7, <1>8 DEF IndInv

\* The wait loop tests its condition.
LEMMA CheckConditionInv ==
  ASSUME IndInv, NEW c \in CPUs, NEW p \in Tasks, check_condition(c, p)
  PROVE  IndInv'
<1>1. TypeOK'
  BY DEF IndInv, TypeOK, check_condition, running
<1>2. LocalsInv'
  BY DEF IndInv, TypeOK, LocalsInv, check_condition, running
<1>3. LocksInv'
  BY DEF IndInv, TypeOK, LocksInv, check_condition, running
<1>4. ExecInv'
  BY DEF IndInv, TypeOK, ExecInv, executes, check_condition, running
<1>5. QueueInv'
  BY SMTT(60) DEF IndInv, TypeOK, ExecInv, QueueInv, executes, check_condition,
    running
<1>6. TtwuInv'
  <2>1. on_rq[p] = 1
    BY DEF IndInv, ExecInv, check_condition, running
  <2>2. /\ UNCHANGED <<on_rq, on_cpu, wake_list, pc, tsk>>
        /\ state' = state \/ state' = [state EXCEPT ![p] = "RUNNING"]
    BY DEF check_condition
  <2> QED BY <2>1, <2>2 DEF IndInv, TypeOK, TtwuInv
<1>7. DeadInv'
  BY DEF IndInv, TypeOK, DeadInv, check_condition, running
<1>8. CondInv'
  BY DEF IndInv, TypeOK, CondInv, waker, check_condition, running
<1> QED BY <1>1, <1>2, <1>3, <1>4, <1>5, <1>6, <1>7, <1>8 DEF IndInv

\* Back to user code.
LEMMA ResumeInv ==
  ASSUME IndInv, NEW c \in CPUs, NEW p \in Tasks, resume(c, p)
  PROVE  IndInv'
<1>1. TypeOK'
  BY DEF IndInv, TypeOK, resume, running
<1>2. LocalsInv'
  BY DEF IndInv, TypeOK, LocalsInv, resume, running
<1>3. LocksInv'
  BY DEF IndInv, TypeOK, LocksInv, resume, running
<1>4. ExecInv'
  BY DEF IndInv, TypeOK, ExecInv, executes, resume, running
<1>5. QueueInv'
  BY DEF IndInv, TypeOK, QueueInv, resume, running
<1>6. TtwuInv'
  BY DEF IndInv, TypeOK, TtwuInv, resume, running
<1>7. DeadInv'
  BY DEF IndInv, TypeOK, DeadInv, resume, running
<1>8. CondInv'
  BY DEF IndInv, TypeOK, CondInv, waker, resume, running
<1> QED BY <1>1, <1>2, <1>3, <1>4, <1>5, <1>6, <1>7, <1>8 DEF IndInv

\* A task stores TASK_DEAD.
LEMMA DoTaskDeadInv ==
  ASSUME IndInv, NEW c \in CPUs, NEW p \in Tasks, do_task_dead(c, p)
  PROVE  IndInv'
<1>1. TypeOK'
  BY DEF IndInv, TypeOK, do_task_dead, running, pi_lock_free
<1>2. LocalsInv'
  BY DEF IndInv, TypeOK, LocalsInv, do_task_dead, running, pi_lock_free
<1>3. LocksInv'
  BY DEF IndInv, TypeOK, LocksInv, do_task_dead, running, pi_lock_free
<1>4. ExecInv'
  BY DEF IndInv, TypeOK, ExecInv, executes, do_task_dead, running, pi_lock_free
<1>5. QueueInv'
  BY DEF IndInv, TypeOK, QueueInv, do_task_dead, running, pi_lock_free
<1>6. TtwuInv'
  BY DEF IndInv, TypeOK, TtwuInv, do_task_dead, running, pi_lock_free
<1>7. DeadInv'
  BY DEF IndInv, TypeOK, ExecInv, DeadInv, executes, do_task_dead, running,
         pi_lock_free
<1>8. CondInv'
  BY DEF IndInv, TypeOK, CondInv, waker, do_task_dead, running, pi_lock_free
<1> QED BY <1>1, <1>2, <1>3, <1>4, <1>5, <1>6, <1>7, <1>8 DEF IndInv

\* __schedule() blocks the task or leaves it runnable.
LEMMA ScheduleInv ==
  ASSUME IndInv, NEW c \in CPUs, NEW p \in Tasks, schedule(c, p)
  PROVE  IndInv'
<1>1. TypeOK'
  BY SMTT(60) DEF IndInv, TypeOK, schedule, running
<1>2. LocalsInv'
  BY DEF IndInv, TypeOK, LocalsInv, schedule, running
<1>3. LocksInv'
  BY DEF IndInv, TypeOK, LocksInv, schedule, running
<1>4. ExecInv'
  BY DEF IndInv, TypeOK, ExecInv, executes, schedule, running
<1>5. QueueInv'
  BY DEF IndInv, TypeOK, ExecInv, QueueInv, executes, schedule, running
<1>6. TtwuInv'
  BY SMTT(60) DEF IndInv, TypeOK, ExecInv, TtwuInv, executes, schedule, running
<1>7. DeadInv'
  BY DEF IndInv, TypeOK, LocalsInv, DeadInv, schedule, running
<1>8. CondInv'
  BY SMTT(60) DEF IndInv, TypeOK, CondInv, waker, schedule, running
<1> QED BY <1>1, <1>2, <1>3, <1>4, <1>5, <1>6, <1>7, <1>8 DEF IndInv

\* __schedule() on behalf of a preemption.
LEMMA PreemptScheduleInv ==
  ASSUME IndInv, NEW c \in CPUs, preempt_schedule(c)
  PROVE  IndInv'
<1>1. TypeOK'
  BY DEF IndInv, TypeOK, preempt_schedule
<1>2. LocalsInv'
  BY DEF IndInv, TypeOK, LocalsInv, preempt_schedule
<1>3. LocksInv'
  BY DEF IndInv, TypeOK, LocksInv, preempt_schedule
<1>4. ExecInv'
  BY DEF IndInv, TypeOK, ExecInv, executes, preempt_schedule
<1>5. QueueInv'
  BY DEF IndInv, TypeOK, ExecInv, QueueInv, executes, preempt_schedule
<1>6. TtwuInv'
  BY DEF IndInv, TypeOK, TtwuInv, preempt_schedule
<1>7. DeadInv'
  BY DEF IndInv, TypeOK, LocalsInv, DeadInv, preempt_schedule
<1>8. CondInv'
  BY DEF IndInv, TypeOK, CondInv, waker, preempt_schedule
<1> QED BY <1>1, <1>2, <1>3, <1>4, <1>5, <1>6, <1>7, <1>8 DEF IndInv

\* newidle_balance() drops and retakes rq->lock.
LEMMA NewidleBalanceInv ==
  ASSUME IndInv, NEW c \in CPUs, newidle_balance(c)
  PROVE  IndInv'
<1>1. TypeOK'
  BY DEF IndInv, TypeOK, newidle_balance, queue
<1>2. LocalsInv'
  BY DEF IndInv, TypeOK, LocalsInv, newidle_balance, queue
<1>3. LocksInv'
  BY DEF IndInv, TypeOK, LocksInv, newidle_balance, queue
<1>4. ExecInv'
  BY DEF IndInv, TypeOK, ExecInv, executes, newidle_balance, queue
<1>5. QueueInv'
  BY DEF IndInv, TypeOK, QueueInv, newidle_balance, queue
<1>6. TtwuInv'
  BY DEF IndInv, TypeOK, TtwuInv, newidle_balance, queue
<1>7. DeadInv'
  BY DEF IndInv, TypeOK, DeadInv, newidle_balance, queue
<1>8. CondInv'
  BY SMTT(60) DEF IndInv, TypeOK, CondInv, waker, newidle_balance, queue
<1> QED BY <1>1, <1>2, <1>3, <1>4, <1>5, <1>6, <1>7, <1>8 DEF IndInv

\* __schedule() switches rq->curr.
LEMMA PickNextTaskInv ==
  ASSUME IndInv, NEW c \in CPUs, NEW next \in Tasks \cup {Idle},
         pick_next_task(c, next)
  PROVE  IndInv'
<1>1. TypeOK'
  BY SMTT(60) DEF IndInv, TypeOK, pick_next_task, queue
<1>2. LocalsInv'
  BY DEF IndInv, TypeOK, LocalsInv, pick_next_task, queue
<1>3. LocksInv'
  BY DEF IndInv, TypeOK, LocksInv, pick_next_task, queue
<1>4. ExecInv'
  BY DEF IndInv, TypeOK, LocalsInv, ExecInv, QueueInv, executes,
         pick_next_task, queue
<1>5. QueueInv'
  BY DEF IndInv, TypeOK, QueueInv, pick_next_task, queue
<1>6. TtwuInv'
  BY DEF IndInv, TypeOK, TtwuInv, pick_next_task, queue
<1>7. DeadInv'
  BY DEF IndInv, TypeOK, DeadInv, pick_next_task, queue
<1>8. CondInv'
  BY SMTT(60) DEF IndInv, TypeOK, CondInv, waker, pick_next_task, queue
<1> QED BY <1>1, <1>2, <1>3, <1>4, <1>5, <1>6, <1>7, <1>8 DEF IndInv

\* finish_task() lets prev go.
LEMMA FinishTaskInv ==
  ASSUME IndInv, NEW c \in CPUs, finish_task(c)
  PROVE  IndInv'
<1>1. TypeOK'
  BY DEF IndInv, TypeOK, finish_task
<1>2. LocalsInv'
  BY DEF IndInv, TypeOK, LocalsInv, finish_task
<1>3. LocksInv'
  BY DEF IndInv, TypeOK, LocksInv, finish_task
<1>4. ExecInv'
  BY DEF IndInv, TypeOK, LocalsInv, ExecInv, executes, finish_task
<1>5. QueueInv'
  BY DEF IndInv, TypeOK, QueueInv, finish_task
<1>6. TtwuInv'
  BY DEF IndInv, TypeOK, TtwuInv, finish_task
<1>7. DeadInv'
  BY DEF IndInv, TypeOK, ExecInv, DeadInv, executes, finish_task
<1>8. CondInv'
  BY DEF IndInv, TypeOK, CondInv, waker, finish_task
<1> QED BY <1>1, <1>2, <1>3, <1>4, <1>5, <1>6, <1>7, <1>8 DEF IndInv

\* The end of finish_task_switch().
LEMMA FinishLockSwitchInv ==
  ASSUME IndInv, NEW c \in CPUs, finish_lock_switch(c)
  PROVE  IndInv'
<1>1. TypeOK'
  BY DEF IndInv, TypeOK, finish_lock_switch
<1>2. LocalsInv'
  BY DEF IndInv, TypeOK, LocalsInv, finish_lock_switch
<1>3. LocksInv'
  BY DEF IndInv, TypeOK, LocksInv, finish_lock_switch
<1>4. ExecInv'
  BY DEF IndInv, TypeOK, ExecInv, executes, finish_lock_switch
<1>5. QueueInv'
  BY DEF IndInv, TypeOK, QueueInv, finish_lock_switch
<1>6. TtwuInv'
  BY DEF IndInv, TypeOK, TtwuInv, finish_lock_switch
<1>7. DeadInv'
  BY DEF IndInv, TypeOK, DeadInv, finish_lock_switch
<1>8. CondInv'
  BY DEF IndInv, TypeOK, CondInv, waker, finish_lock_switch
<1> QED BY <1>1, <1>2, <1>3, <1>4, <1>5, <1>6, <1>7, <1>8 DEF IndInv

\* A task_struct comes into being.
LEMMA SchedForkInv ==
  ASSUME IndInv, NEW c \in CPUs, NEW p \in Tasks, sched_fork(c, p)
  PROVE  IndInv'
<1>1. TypeOK'
  BY DEF IndInv, TypeOK, sched_fork
<1>2. LocalsInv'
  BY DEF IndInv, TypeOK, LocalsInv, sched_fork
<1>3. LocksInv'
  BY DEF IndInv, TypeOK, LocksInv, sched_fork
<1>4. ExecInv'
  BY DEF IndInv, TypeOK, ExecInv, executes, sched_fork
<1>5. QueueInv'
  BY DEF IndInv, TypeOK, QueueInv, sched_fork
<1>6. TtwuInv'
  BY DEF IndInv, TypeOK, TtwuInv, sched_fork
<1>7. DeadInv'
  BY DEF IndInv, TypeOK, DeadInv, sched_fork
<1>8. CondInv'
  BY DEF IndInv, TypeOK, CondInv, waker, sched_fork
<1> QED BY <1>1, <1>2, <1>3, <1>4, <1>5, <1>6, <1>7, <1>8 DEF IndInv

\* A task_struct is freed.
LEMMA FreeTaskInv ==
  ASSUME IndInv, NEW p \in Tasks, free_task(p)
  PROVE  IndInv'
<1>1. TypeOK'
  BY DEF IndInv, TypeOK, free_task
<1>2. LocalsInv'
  BY DEF IndInv, TypeOK, LocalsInv, free_task
<1>3. LocksInv'
  BY DEF IndInv, TypeOK, LocksInv, free_task
<1>4. ExecInv'
  BY DEF IndInv, TypeOK, ExecInv, DeadInv, executes, free_task
<1>5. QueueInv'
  BY DEF IndInv, TypeOK, QueueInv, DeadInv, free_task
<1>6. TtwuInv'
  BY DEF IndInv, TypeOK, TtwuInv, free_task
<1>7. DeadInv'
  BY DEF IndInv, TypeOK, DeadInv, free_task
<1>8. CondInv'
  BY DEF IndInv, TypeOK, CondInv, waker, free_task
<1> QED BY <1>1, <1>2, <1>3, <1>4, <1>5, <1>6, <1>7, <1>8 DEF IndInv

\* A new task is placed.
LEMMA WakeUpNewTaskInv ==
  ASSUME IndInv, NEW c \in CPUs, NEW p \in Tasks, wake_up_new_task(c, p)
  PROVE  IndInv'
<1>1. TypeOK'
  BY DEF IndInv, TypeOK, wake_up_new_task, pi_lock_free
<1>2. LocalsInv'
  BY DEF IndInv, TypeOK, LocalsInv, wake_up_new_task, pi_lock_free
<1>3. LocksInv'
  BY DEF IndInv, TypeOK, LocksInv, wake_up_new_task, pi_lock_free
<1>4. ExecInv'
  BY DEF IndInv, TypeOK, ExecInv, executes, wake_up_new_task, pi_lock_free
<1>5. QueueInv'
  BY SMTT(60) DEF IndInv, TypeOK, QueueInv, wake_up_new_task, pi_lock_free
<1>6. TtwuInv'
  BY SMTT(60) DEF IndInv, TypeOK, ExecInv, QueueInv, TtwuInv, executes,
         wake_up_new_task, pi_lock_free
<1>7. DeadInv'
  BY DEF IndInv, TypeOK, LocalsInv, DeadInv, wake_up_new_task, pi_lock_free
<1>8. CondInv'
  BY DEF IndInv, TypeOK, CondInv, waker, wake_up_new_task, pi_lock_free
<1> QED BY <1>1, <1>2, <1>3, <1>4, <1>5, <1>6, <1>7, <1>8 DEF IndInv

\* The stopper takes a task off its queue.
LEMMA MoveQueuedTaskInv ==
  ASSUME IndInv, NEW c \in CPUs, NEW p \in Tasks, move_queued_task(c, p)
  PROVE  IndInv'
<1>1. TypeOK'
  BY DEF IndInv, TypeOK, move_queued_task, pi_lock_free
<1>2. LocalsInv'
  BY DEF IndInv, TypeOK, LocalsInv, move_queued_task, pi_lock_free
<1>3. LocksInv'
  BY DEF IndInv, TypeOK, LocksInv, QueueInv, move_queued_task, pi_lock_free
<1>4. ExecInv'
  BY DEF IndInv, TypeOK, ExecInv, executes, move_queued_task, pi_lock_free
<1>5. QueueInv'
  BY DEF IndInv, TypeOK, QueueInv, move_queued_task, pi_lock_free
<1>6. TtwuInv'
  BY SMTT(60) DEF IndInv, TypeOK, TtwuInv, move_queued_task, pi_lock_free
<1>7. DeadInv'
  BY DEF IndInv, TypeOK, LocalsInv, ExecInv, DeadInv, executes,
         move_queued_task, pi_lock_free
<1>8. CondInv'
  BY DEF IndInv, TypeOK, CondInv, waker, move_queued_task, pi_lock_free
<1> QED BY <1>1, <1>2, <1>3, <1>4, <1>5, <1>6, <1>7, <1>8 DEF IndInv

\* The load balancer takes a task off a queue.
LEMMA DetachTaskInv ==
  ASSUME IndInv, NEW c \in CPUs, NEW p \in Tasks, detach_task(c, p)
  PROVE  IndInv'
<1>1. TypeOK'
  BY DEF IndInv, TypeOK, detach_task, rq_lock_free
<1>2. LocalsInv'
  BY DEF IndInv, TypeOK, LocalsInv, detach_task, rq_lock_free
<1>3. LocksInv'
  BY DEF IndInv, TypeOK, LocksInv, QueueInv, detach_task, rq_lock_free
<1>4. ExecInv'
  BY DEF IndInv, TypeOK, ExecInv, executes, detach_task, rq_lock_free
<1>5. QueueInv'
  BY DEF IndInv, TypeOK, QueueInv, detach_task, rq_lock_free
<1>6. TtwuInv'
  BY SMTT(60) DEF IndInv, TypeOK, TtwuInv, detach_task, rq_lock_free
<1>7. DeadInv'
  BY SMTT(60) DEF IndInv, TypeOK, LocalsInv, ExecInv, DeadInv, executes, detach_task,
         rq_lock_free
<1>8. CondInv'
  BY DEF IndInv, TypeOK, CondInv, waker, detach_task, rq_lock_free
<1> QED BY <1>1, <1>2, <1>3, <1>4, <1>5, <1>6, <1>7, <1>8 DEF IndInv

\* A new or moved task is enqueued.
LEMMA ActivateTaskInv ==
  ASSUME IndInv, NEW c \in CPUs, activate_task(c)
  PROVE  IndInv'
<1>1. TypeOK'
  BY DEF IndInv, TypeOK, LocalsInv, activate_task, rq_lock_free
<1>2. LocalsInv'
  BY DEF IndInv, TypeOK, LocalsInv, activate_task, rq_lock_free
<1>3. LocksInv'
  BY DEF IndInv, TypeOK, LocksInv, activate_task, rq_lock_free
<1>4. ExecInv'
  BY DEF IndInv, TypeOK, ExecInv, executes, activate_task, rq_lock_free
<1>5. QueueInv'
  BY SMTT(60) DEF IndInv, TypeOK, LocksInv, QueueInv, TtwuInv, activate_task,
         rq_lock_free
<1>6. TtwuInv'
  BY SMTT(60) DEF IndInv, TypeOK, LocksInv, QueueInv, TtwuInv, activate_task,
         rq_lock_free
<1>7. DeadInv'
  BY SMTT(60) DEF IndInv, TypeOK, QueueInv, TtwuInv, DeadInv, activate_task,
         rq_lock_free
<1>8. CondInv'
  BY DEF IndInv, TypeOK, CondInv, waker, activate_task, rq_lock_free
<1> QED BY <1>1, <1>2, <1>3, <1>4, <1>5, <1>6, <1>7, <1>8 DEF IndInv
=============================================================================
