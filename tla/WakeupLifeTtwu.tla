--------------------------- MODULE WakeupLifeTtwu ---------------------------
(***************************************************************************)
(* The wakeups, the birth and the end of a task as steps of TaskLife.      *)
(***************************************************************************)
EXTENDS WakeupLifeSched

USE TasksAssumption DEF Sleeping, States, RqLocked, PiLocked, PCs, taskVars,
                        counters, goto, return

\* A waker makes the condition of p true, or sends it a signal; the shortcut for
\* p == current also stores TASK_RUNNING, p being queued.
LEMMA WakeUpLife ==
  ASSUME IndInv, NEW c \in CPUs, NEW p \in Tasks,
         wake_up_process(c, p) \/ wake_up_current(c, p)
  PROVE  Simulated
<1>1. \A q \in Tasks : life_of(q)' = life_of(q)
  <2>1. CASE wake_up_process(c, p)
    BY <2>1, SameLife DEF wake_up_process
  <2>2. CASE wake_up_current(c, p)
    BY <2>2, SMTT(60) DEF IndInv, TypeOK, ExecInv, wake_up_current, running, life_of
  <2> QED BY <2>1, <2>2
<1>2. \A q \in Tasks : executing(q)' = executing(q)
  <2> TAKE q \in Tasks
  <2>1. \A d \in CPUs : executes(d, q)' <=> executes(d, q)
    BY SMTT(20) DEF IndInv, TypeOK, executes, wake_up_process, wake_up_current
  <2> QED BY <2>1, SameExecuting
<1>3. cond' = cond \/ cond' = cond \cup {p}
  BY Zenon DEF wake_up_process, wake_up_current
<1>4. life_of(p) # "none"
  BY DEF IndInv, ExecInv, executes, wake_up_process, wake_up_current, running,
         life_of
<1>5. CASE cond' = cond
  BY <1>1, <1>2, <1>5, Invisible
<1>6. CASE cond' = cond \cup {p}
  <2>1. Life!Post(p)
    BY <1>1, <1>2, <1>4, <1>6 DEF Life!Post
  <2> QED BY <2>1 DEF Simulated, Life!Next
<1> QED BY <1>3, <1>5, <1>6

\* ttwu_do_activate() wakes tasks that are WAKING and off every CPU.
LEMMA ActivateLife ==
  ASSUME IndInv, NEW k \in CPUs, NEW S \in SUBSET Tasks, NEW M,
         ttwu_do_activate(k, S, M),
         \A p \in S : state[p] = "WAKING" /\ on_rq[p] = 0 /\ p \notin on_cpu,
         \A p \in Tasks : executing(p)' = executing(p)
  PROVE  Simulated
<1>1. \A p \in S : life_of(p) = "blocked" /\ executing(p) = {}
  BY DEF IndInv, ExecInv, executing, life_of
<1>2. \A p \in Tasks :
        life_of(p)' = IF p \in S THEN "ready" ELSE life_of(p)
  BY DEF IndInv, TypeOK, ttwu_do_activate, life_of
<1>3. cond' = cond
  BY DEF ttwu_do_activate
<1>4. Life!Wake(S)
  BY <1>1, <1>2, <1>3 DEF Life!Wake
<1> QED BY <1>4 DEF Simulated, Life!Next

\* ttwu_queue() leaves the task to the wake list, or wakes it.
LEMMA TtwuQueueLife ==
  ASSUME IndInv, NEW c \in CPUs, ttwu_queue(c)
  PROVE  Simulated
<1>1. /\ tsk[c] \in Tasks /\ cpu[tsk[c]] \in CPUs
      /\ state[tsk[c]] = "WAKING" /\ on_rq[tsk[c]] = 0 /\ tsk[c] \notin on_cpu
  BY SMTT(20) DEF IndInv, TypeOK, LocalsInv, TtwuInv, ttwu_queue
<1>2. \A q \in Tasks : executing(q)' = executing(q)
  <2> TAKE q \in Tasks
  <2>1. curr' = curr /\ return(c) /\ pc[c] # "switch"
    BY DEF ttwu_queue, ttwu_queue_wakelist, ttwu_do_activate
  <2>2. \A d \in CPUs : executes(d, q)' <=> executes(d, q)
    BY <2>1 DEF IndInv, TypeOK, executes
  <2> QED BY <2>2, SameExecuting
<1>3. CASE \E m : ttwu_queue_wakelist(c, tsk[c], m)
  <2>1. state' = state /\ on_rq' = on_rq /\ cond' = cond
    BY <1>3 DEF ttwu_queue_wakelist
  <2> QED BY <1>2, <2>1, SameLife, Invisible
<1>4. CASE \E M : ttwu_do_activate(cpu[tsk[c]], {tsk[c]}, M)
  BY <1>1, <1>2, <1>4, ActivateLife
<1> QED BY <1>3, <1>4, Zenon DEF ttwu_queue

\* The IPI wakes the tasks of the wake list; they have left their CPU.
LEMMA SchedTtwuPendingLife ==
  ASSUME IndInv, NEW c \in CPUs, sched_ttwu_pending(c)
  PROVE  Simulated
<1>1. wake_list[c] \in SUBSET Tasks
  BY DEF IndInv, TypeOK
<1>2. \A p \in wake_list[c] :
        state[p] = "WAKING" /\ on_rq[p] = 0 /\ p \notin on_cpu
  BY <1>1, SMTT(20) DEF IndInv, ExecInv, QueueInv, executes, sched_ttwu_pending
<1>3. \A q \in Tasks : executing(q)' = executing(q)
  BY DEF executing, executes, sched_ttwu_pending, ttwu_do_activate
<1> QED BY <1>1, <1>2, <1>3, ActivateLife DEF sched_ttwu_pending

\* Fork and the first wakeup.
LEMMA BirthLife ==
  ASSUME IndInv, NEW c \in CPUs, NEW p \in Tasks,
         sched_fork(c, p) \/ wake_up_new_task(c, p)
  PROVE  Simulated
<1>1. \A q \in Tasks : executing(q)' = executing(q)
  <2> TAKE q \in Tasks
  <2>1. \A d \in CPUs : executes(d, q)' <=> executes(d, q)
    BY SMTT(60) DEF IndInv, TypeOK, executes, sched_fork, wake_up_new_task
  <2> QED BY <2>1, SameExecuting
<1>2. cond' = cond
  BY DEF sched_fork, wake_up_new_task
<1>3. \A q \in Tasks : q # p => life_of(q)' = life_of(q)
  BY DEF IndInv, TypeOK, sched_fork, wake_up_new_task, life_of
<1>4. CASE sched_fork(c, p)
  <2>1. life_of(p) = "none" /\ life_of(p)' = "new"
    BY <1>4 DEF IndInv, TypeOK, sched_fork, life_of
  <2>2. Life!become(p, "new")
    BY <1>3, <2>1, Becomes
  <2>3. Life!Fork(p)
    BY <1>1, <1>2, <2>1, <2>2 DEF Life!Fork
  <2> QED BY <2>3 DEF Simulated, Life!Next
<1>5. CASE wake_up_new_task(c, p)
  <2>1. life_of(p) = "new" /\ life_of(p)' = "ready"
    BY <1>5 DEF IndInv, TypeOK, wake_up_new_task, life_of
  <2>2. Life!become(p, "ready")
    BY <1>3, <2>1, Becomes
  <2>3. Life!Start(p)
    BY <1>1, <1>2, <2>1, <2>2 DEF Life!Start
  <2> QED BY <2>3 DEF Simulated, Life!Next
<1> QED BY <1>4, <1>5

\* The memory of a dead task is reused.
LEMMA FreeTaskLife ==
  ASSUME IndInv, NEW p \in Tasks, free_task(p)
  PROVE  Simulated
<1>1. executing(p) = {} /\ life_of(p) = "dead" /\ life_of(p)' = "none"
  BY SMTT(60) DEF IndInv, TypeOK, ExecInv, DeadInv, executing, free_task, life_of
<1>2. \A q \in Tasks : q # p => life_of(q)' = life_of(q)
  BY DEF IndInv, TypeOK, free_task, life_of
<1>3. \A q \in Tasks : executing(q)' = executing(q)
  BY DEF executing, executes, free_task
<1>4. Life!become(p, "none")
  BY <1>1, <1>2, Becomes
<1>5. Life!Free(p)
  BY <1>1, <1>3, <1>4 DEF Life!Free, free_task
<1> QED BY <1>5 DEF Simulated, Life!Next
=============================================================================
