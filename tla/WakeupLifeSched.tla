-------------------------- MODULE WakeupLifeSched ---------------------------
(***************************************************************************)
(* The steps of __schedule() and of the wait loop as steps of TaskLife, and*)
(* the steps of wakeups and migration that TaskLife does not see.          *)
(***************************************************************************)
EXTENDS WakeupLife, TLAPS

USE TasksAssumption DEF Sleeping, States, RqLocked, PiLocked, PCs, taskVars,
                        counters, goto, return

\* What a step of Wakeup has to be.
Simulated == Life!Next \/ UNCHANGED Life!vars

\* A step that changes no task's life and no CPU's task is a stutter.
LEMMA Invisible ==
  ASSUME \A p \in Tasks : life_of(p)' = life_of(p),
         \A p \in Tasks : executing(p)' = executing(p),
         cond' = cond
  PROVE  Simulated
  BY DEF Simulated, Life!vars

\* The initial states correspond.
LEMMA InitLife == Init => Life!Init
  BY DEF Init, Life!Init, life_of, executing, executes

\* The CPUs that execute a task depend on curr, on prev and on the switch alone.
LEMMA SameExecuting ==
  ASSUME NEW p \in Tasks,
         \A c \in CPUs : executes(c, p)' <=> executes(c, p)
  PROVE  executing(p)' = executing(p)
  BY DEF executing

\* A step that stores no task's state or on_rq changes no life.
LEMMA SameLife ==
  ASSUME state' = state, on_rq' = on_rq
  PROVE  \A p \in Tasks : life_of(p)' = life_of(p)
  BY DEF life_of

-----------------------------------------------------------------------------
(* The steps that a task does not see.                                       *)

\* Preemption, the balancer's look around, and the end of a switch.
LEMMA SchedInvisible ==
  ASSUME IndInv, NEW c \in CPUs,
         preempt_schedule(c) \/ newidle_balance(c) \/ finish_lock_switch(c)
  PROVE  Simulated
<1>1. \A p \in Tasks : life_of(p)' = life_of(p)
  BY SameLife DEF preempt_schedule, newidle_balance, finish_lock_switch
<1>2. \A p \in Tasks : executing(p)' = executing(p)
  <2> TAKE p \in Tasks
  <2>1. \A d \in CPUs : executes(d, p)' <=> executes(d, p)
    BY DEF IndInv, TypeOK, executes, preempt_schedule, newidle_balance,
           finish_lock_switch
  <2> QED BY <2>1, SameExecuting
<1>3. cond' = cond
  BY DEF preempt_schedule, newidle_balance, finish_lock_switch
<1> QED BY <1>1, <1>2, <1>3, Invisible

\* A wakeup before it enqueues the task: it marks a blocked task WAKING, or makes a
\* task that is still queued RUNNING.
LEMMA TtwuInvisible ==
  ASSUME IndInv, NEW c \in CPUs,
         \/ try_to_wake_up(c) \/ ttwu_read_on_rq(c) \/ ttwu_runnable(c)
         \/ ttwu_on_cpu(c)
  PROVE  Simulated
<1>1. \A p \in Tasks : life_of(p)' = life_of(p)
  <2>1. CASE try_to_wake_up(c) \/ ttwu_on_cpu(c)
    <3>1. state' = state /\ on_rq' = on_rq
      BY <2>1, Zenon DEF try_to_wake_up, ttwu_on_cpu, ttwu_queue_wakelist
    <3> QED BY <3>1, SameLife
  <2>2. CASE ttwu_read_on_rq(c)
    BY <2>2 DEF IndInv, TypeOK, TtwuInv, LocalsInv, ttwu_read_on_rq, life_of
  <2>3. CASE ttwu_runnable(c)
    BY <2>3, SMTT(60) DEF IndInv, TypeOK, TtwuInv, LocalsInv, ttwu_runnable, life_of
  <2> QED BY <2>1, <2>2, <2>3
<1>2. \A p \in Tasks : executing(p)' = executing(p)
  <2> TAKE p \in Tasks
  <2>1. \A d \in CPUs : executes(d, p)' <=> executes(d, p)
    BY SMTT(60) DEF IndInv, TypeOK, executes, try_to_wake_up, ttwu_read_on_rq,
           ttwu_runnable, ttwu_on_cpu, ttwu_queue_wakelist
  <2> QED BY <2>1, SameExecuting
<1>3. cond' = cond
  BY Zenon DEF try_to_wake_up, ttwu_read_on_rq, ttwu_runnable, ttwu_on_cpu,
               ttwu_queue_wakelist
<1> QED BY <1>1, <1>2, <1>3, Invisible

\* Migration: a queued task leaves one runqueue and is enqueued on another, and a
\* new task is enqueued.
LEMMA MoveInvisible ==
  ASSUME IndInv, NEW c \in CPUs,
         \/ activate_task(c)
         \/ \E p \in Tasks : move_queued_task(c, p) \/ detach_task(c, p)
  PROVE  Simulated
<1>1. \A p \in Tasks : life_of(p)' = life_of(p)
  BY SMTT(20) DEF IndInv, TypeOK, LocalsInv, QueueInv, TtwuInv, activate_task,
         move_queued_task, detach_task, life_of
<1>2. \A p \in Tasks : executing(p)' = executing(p)
  <2> TAKE p \in Tasks
  <2>1. \A d \in CPUs : executes(d, p)' <=> executes(d, p)
    BY SMTT(20) DEF IndInv, TypeOK, executes, activate_task, move_queued_task,
                    detach_task
  <2> QED BY <2>1, SameExecuting
<1>3. cond' = cond
  BY DEF activate_task, move_queued_task, detach_task
<1> QED BY <1>1, <1>2, <1>3, Invisible

\* A task prepares to sleep, returns from io_schedule() or takes a signal.
LEMMA TaskInvisible ==
  ASSUME IndInv, NEW c \in CPUs, NEW p \in Tasks,
         set_current_state(c, p) \/ resume(c, p)
  PROVE  Simulated
<1>1. \A q \in Tasks : life_of(q)' = life_of(q)
  BY SMTT(60) DEF IndInv, TypeOK, ExecInv, set_current_state, resume, running,
    life_of
<1>2. \A q \in Tasks : executing(q)' = executing(q)
  <2> TAKE q \in Tasks
  <2>1. \A d \in CPUs : executes(d, q)' <=> executes(d, q)
    BY DEF executes, set_current_state, resume
  <2> QED BY <2>1, SameExecuting
<1>3. cond' = cond
  BY DEF set_current_state, resume
<1> QED BY <1>1, <1>2, <1>3, Invisible

-----------------------------------------------------------------------------
(* The steps that it does.                                                   *)

\* The running task is executed by its CPU and ready, unless it is dead.
LEMMA RunningReady ==
  ASSUME IndInv, NEW c \in CPUs, NEW p \in Tasks, running(c, p),
         state[p] # "DEAD"
  PROVE  executing(p) # {} /\ life_of(p) = "ready"
  BY DEF IndInv, ExecInv, running, executing, executes, life_of

\* check_condition() consumes the condition, or finds it false.
LEMMA CheckConditionLife ==
  ASSUME IndInv, NEW c \in CPUs, NEW p \in Tasks, check_condition(c, p)
  PROVE  Simulated
<1>1. state[p] # "DEAD"
  BY DEF IndInv, DeadInv, check_condition
<1>2. executing(p) # {} /\ life_of(p) = "ready"
  BY <1>1, RunningReady DEF check_condition
<1>3. \A q \in Tasks : life_of(q)' = life_of(q)
  BY <1>1, SMTT(60) DEF IndInv, TypeOK, ExecInv, executes, check_condition,
    running, life_of
<1>4. \A q \in Tasks : executing(q)' = executing(q)
  <2> TAKE q \in Tasks
  <2>1. \A d \in CPUs : executes(d, q)' <=> executes(d, q)
    BY DEF executes, check_condition
  <2> QED BY <2>1, SameExecuting
<1>5. CASE p \notin cond
  <2>1. cond' = cond
    BY <1>5 DEF check_condition
  <2> QED BY <1>3, <1>4, <2>1, Invisible
<1>6. CASE p \in cond
  <2>1. cond' = cond \ {p}
    BY <1>6 DEF check_condition
  <2>2. Life!Consume(p)
    BY <1>2, <1>3, <1>4, <1>6, <2>1 DEF Life!Consume
  <2> QED BY <2>2 DEF Simulated, Life!Next
<1> QED BY <1>5, <1>6

\* A step that gives p another life and touches nothing else of TaskLife.
LEMMA Becomes ==
  ASSUME NEW p \in Tasks, NEW l, life_of(p)' = l,
         \A q \in Tasks : q # p => life_of(q)' = life_of(q)
  PROVE  Life!become(p, l)
  BY ZenonT(60) DEF Life!become

\* do_task_dead() is the end of the running task.
LEMMA DoTaskDeadLife ==
  ASSUME IndInv, NEW c \in CPUs, NEW p \in Tasks, do_task_dead(c, p)
  PROVE  Simulated
<1>1. executing(p) # {} /\ life_of(p) = "ready"
  BY RunningReady DEF do_task_dead
<1>2. Life!become(p, "dead")
  <2>1. life_of(p)' = "dead" /\ \A q \in Tasks : q # p => life_of(q)' = life_of(q)
    BY DEF IndInv, TypeOK, do_task_dead, life_of
  <2> QED BY <2>1, Becomes
<1>3. \A q \in Tasks : executing(q)' = executing(q)
  <2> TAKE q \in Tasks
  <2>1. \A d \in CPUs : executes(d, q)' <=> executes(d, q)
    BY DEF executes, do_task_dead
  <2> QED BY <2>1, SameExecuting
<1>4. Life!Die(p)
  BY <1>1, <1>2, <1>3 DEF Life!Die, do_task_dead
<1> QED BY <1>4 DEF Simulated, Life!Next

\* schedule() blocks the running task, or leaves a dead or woken one as it is.
LEMMA ScheduleLife ==
  ASSUME IndInv, NEW c \in CPUs, NEW p \in Tasks, schedule(c, p)
  PROVE  Simulated
<1>1. \A q \in Tasks : q # p => life_of(q)' = life_of(q)
  BY DEF IndInv, TypeOK, schedule, life_of
<1>2. \A q \in Tasks : executing(q)' = executing(q)
  <2> TAKE q \in Tasks
  <2>1. \A d \in CPUs : executes(d, q)' <=> executes(d, q)
    BY DEF IndInv, TypeOK, executes, schedule, running
  <2> QED BY <2>1, SameExecuting
<1>3. cond' = cond
  BY DEF schedule
<1>4. CASE life_of(p)' = life_of(p)
  BY <1>1, <1>2, <1>3, <1>4, Invisible
<1>5. CASE life_of(p)' # life_of(p)
  <2>1. state[p] # "DEAD" /\ life_of(p)' = "blocked"
    BY <1>5 DEF IndInv, TypeOK, ExecInv, schedule, running, life_of
  <2>2. executing(p) # {} /\ life_of(p) = "ready"
    BY <2>1, RunningReady DEF schedule
  <2>3. Life!become(p, "blocked")
    BY <1>1, <2>1, Becomes
  <2>4. Life!Block(p)
    BY <1>2, <1>3, <2>2, <2>3 DEF Life!Block
  <2> QED BY <2>4 DEF Simulated, Life!Next
<1> QED BY <1>4, <1>5

\* pick_next_task() dispatches a queued task that no CPU executes.
LEMMA PickNextTaskLife ==
  ASSUME IndInv, NEW c \in CPUs, NEW next \in Tasks \cup {Idle},
         pick_next_task(c, next)
  PROVE  Simulated
<1>1. \A q \in Tasks : life_of(q)' = life_of(q)
  BY SameLife DEF pick_next_task
<1>2. cond' = cond
  BY DEF pick_next_task
<1>3. CASE next = tsk[c] \/ next = Idle
  <2>1. \A q \in Tasks : executing(q)' = executing(q)
    <3> TAKE q \in Tasks
    <3>1. \A d \in CPUs : executes(d, q)' <=> executes(d, q)
      BY <1>3, SMTT(20) DEF IndInv, TypeOK, LocalsInv, executes, pick_next_task
    <3> QED BY <3>1, SameExecuting
  <2> QED BY <1>1, <1>2, <2>1, Invisible
<1>4. CASE next # tsk[c] /\ next \in Tasks
  <2>1. /\ pc[c] \in {"pick", "repick"} /\ tsk[c] = curr[c]
        /\ on_rq[next] = 1 /\ cpu[next] = c
    BY <1>4 DEF IndInv, LocalsInv, pick_next_task, queue
  <2>2. executing(next) = {}
    BY <1>4, <2>1 DEF IndInv, ExecInv, executing, executes
  <2>3. life_of(next) = "ready"
    BY <1>4, <2>1, SMTT(60) DEF IndInv, TypeOK, QueueInv, DeadInv, life_of
  <2>4. \A d \in CPUs : executes(d, next)' <=> d = c
    BY <1>4, <2>1, <2>2, SMTT(20)
       DEF IndInv, TypeOK, executing, executes, pick_next_task
  <2>5. executing(next)' = {c}
    BY <2>4 DEF executing
  <2>6. \A q \in Tasks : q # next => executing(q)' = executing(q)
    <3> SUFFICES ASSUME NEW q \in Tasks, q # next
                 PROVE  executing(q)' = executing(q)
      OBVIOUS
    <3>1. \A d \in CPUs : executes(d, q)' <=> executes(d, q)
      BY <1>4, <2>1, SMTT(20) DEF IndInv, TypeOK, executes, pick_next_task
    <3> QED BY <3>1, SameExecuting
  <2>7. Life!Dispatch(c, next)
    BY <1>1, <1>2, <1>4, <2>2, <2>3, <2>5, <2>6, ZenonT(60)
    DEF Life!Dispatch
  <2> QED BY <1>4, <2>7 DEF Simulated, Life!Next
<1> QED BY <1>3, <1>4

\* finish_task() leaves the stack of prev, which no other CPU executes.
LEMMA FinishTaskLife ==
  ASSUME IndInv, NEW c \in CPUs, finish_task(c)
  PROVE  Simulated
<1>1. \A q \in Tasks : life_of(q)' = life_of(q)
  BY SameLife DEF finish_task
<1>2. cond' = cond
  BY DEF finish_task
<1>3. \A q \in Tasks : q # tsk[c] => executing(q)' = executing(q)
  <2> SUFFICES ASSUME NEW q \in Tasks, q # tsk[c]
               PROVE  executing(q)' = executing(q)
    OBVIOUS
  <2>1. \A d \in CPUs : executes(d, q)' <=> executes(d, q)
    BY SMTT(20) DEF IndInv, TypeOK, executes, finish_task
  <2> QED BY <2>1, SameExecuting
<1>4. CASE tsk[c] \notin Tasks
  BY <1>1, <1>2, <1>3, <1>4, Invisible
<1>5. CASE tsk[c] \in Tasks
  <2> DEFINE p == tsk[c]
  <2>1. pc[c] = "switch" /\ curr[c] # p /\ executes(c, p)
    BY DEF IndInv, LocalsInv, executes, finish_task
  <2>2. \A d \in CPUs : executes(d, p) => d = c
    BY <1>5, <2>1 DEF IndInv, ExecInv
  <2>3. executing(p) = {c}
    BY <2>1, <2>2 DEF executing
  <2>4. \A d \in CPUs : ~executes(d, p)'
    BY <1>5, <2>1, <2>2, SMTT(20) DEF IndInv, TypeOK, executes, finish_task
  <2>5. tsk' = tsk
    BY DEF finish_task
  <2>6. [q \in Tasks |-> executing(q)]' =
          [[q \in Tasks |-> executing(q)] EXCEPT ![tsk[c]] = {}]
    <3>1. \A q \in Tasks : q = tsk[c] => executing(q)' = {}
      BY <2>4, <2>5 DEF executing
    <3> QED BY <1>3, <3>1, ZenonT(60)
  <2>7. Life!Leave(c, p)
    BY <1>1, <1>2, <1>5, <2>3, <2>6 DEF Life!Leave
  <2> QED BY <1>5, <2>7, SMTT(60) DEF Simulated, Life!Next
<1> QED BY <1>4, <1>5, SMTT(60)
=============================================================================
