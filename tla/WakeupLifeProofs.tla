-------------------------- MODULE WakeupLifeProofs --------------------------
(***************************************************************************)
(* Wakeup implements TaskLife: every step of __schedule(), of a wakeup, of *)
(* fork and of migration is a step of TaskLife or leaves its variables     *)
(* alone, for every finite set of tasks and every set of CPUs.             *)
(***************************************************************************)
EXTENDS WakeupProofs, WakeupLifeTtwu

USE TasksAssumption DEF Sleeping, States, RqLocked, PiLocked, PCs, taskVars,
                        counters, goto, return

\* Every step is simulated.
LEMMA NextLife == IndInv /\ [Next]_vars => [Life!Next]_(Life!vars)
<1> SUFFICES ASSUME IndInv, [Next]_vars PROVE Simulated
  BY DEF Simulated
<1>1. CASE UNCHANGED vars
  <2>1. \A q \in Tasks : executing(q)' = executing(q)
    BY <1>1 DEF vars, executing, executes
  <2>2. state' = state /\ on_rq' = on_rq /\ cond' = cond
    BY <1>1 DEF vars
  <2> QED BY <2>1, <2>2, SameLife, Invisible
<1>2. CASE \E p \in Tasks : free_task(p)
  BY <1>2, FreeTaskLife
<1>3. ASSUME NEW c \in CPUs,
             \/ preempt_schedule(c) \/ newidle_balance(c)
             \/ \E next \in Tasks \cup {Idle} : pick_next_task(c, next)
             \/ finish_task(c) \/ finish_lock_switch(c)
             \/ try_to_wake_up(c) \/ ttwu_read_on_rq(c) \/ ttwu_runnable(c)
             \/ ttwu_on_cpu(c) \/ ttwu_queue(c) \/ sched_ttwu_pending(c)
             \/ activate_task(c)
      PROVE  Simulated
  BY <1>3, SchedInvisible, PickNextTaskLife, FinishTaskLife, TtwuInvisible,
     TtwuQueueLife, SchedTtwuPendingLife, MoveInvisible, SMTT(60)
<1>4. ASSUME NEW c \in CPUs, NEW p \in Tasks,
             \/ set_current_state(c, p) \/ check_condition(c, p) \/ resume(c, p)
             \/ do_task_dead(c, p) \/ schedule(c, p)
             \/ wake_up_process(c, p) \/ wake_up_current(c, p)
             \/ sched_fork(c, p) \/ wake_up_new_task(c, p)
             \/ move_queued_task(c, p) \/ detach_task(c, p)
      PROVE  Simulated
  BY <1>4, TaskInvisible, CheckConditionLife, DoTaskDeadLife, ScheduleLife,
     WakeUpLife, BirthLife, MoveInvisible, SMTT(60)
<1> QED BY <1>1, <1>2, <1>3, <1>4 DEF Next

\* __schedule() and try_to_wake_up() keep what TaskLife promises to a task, whatever
\* the tasks and the CPUs: it runs on one CPU at a time and only when it is ready,
\* blocks only by itself, is woken only when its CPU has left its stack, and is
\* never revived.
THEOREM Refinement == Spec => ImplementsTaskLife
<1>1. IndInv /\ [Next]_vars => [Life!Next]_(Life!vars)
  BY NextLife
<1> QED BY <1>1, InitLife, Inductive, PTL DEF Spec, ImplementsTaskLife, Life!Spec
=============================================================================
