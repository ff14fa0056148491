------------------------- MODULE WakeupQueueProofs --------------------------
(*****************************************************************************)
(* IndInv of Wakeup is preserved by try_to_wake_up() from p->on_cpu on, and  *)
(* by the IPI that empties the wake list.                                    *)
(*****************************************************************************)
EXTENDS Wakeup, TLAPS

USE TasksAssumption DEF Sleeping, States, RqLocked, PiLocked, PCs, taskVars,
                        counters, goto, return

\* A step of c leaves the other CPUs' wakers of a task where they are.
LEMMA OtherWakers ==
  ASSUME NEW c \in CPUs, NEW q \in Tasks, NEW l, q # tsk[c],
         \A d \in CPUs : d # c => pc'[d] = pc[d] /\ tsk'[d] = tsk[d]
  PROVE  waker(q, l) => waker(q, l)'
  BY DEF waker

\* The wake list step that ttwu_on_cpu() and ttwu_queue() share.
LEMMA WakelistInv ==
  ASSUME IndInv, NEW c \in CPUs, NEW m, ttwu_queue_wakelist(c, tsk[c], m),
         pc[c] \in {"ttwu_on_cpu", "ttwu_queue", "ttwu_migrated"}
  PROVE  IndInv'
<1> DEFINE p == tsk[c]
<1>0. p \in Tasks /\ cpu[p] \in CPUs /\ state[p] = "WAKING" /\ on_rq[p] = 0
  BY DEF IndInv, TypeOK, LocalsInv, TtwuInv
<1>1. TypeOK'
  BY <1>0 DEF IndInv, TypeOK, ttwu_queue_wakelist
<1>2. LocalsInv'
  BY DEF IndInv, TypeOK, LocalsInv, ttwu_queue_wakelist
<1>3. LocksInv'
  BY DEF IndInv, TypeOK, LocksInv, ttwu_queue_wakelist
<1>4. ExecInv'
  BY DEF IndInv, TypeOK, LocalsInv, ExecInv, executes, ttwu_queue_wakelist
<1>5. QueueInv'
  BY <1>0 DEF IndInv, TypeOK, QueueInv, ttwu_queue_wakelist
<1>6. TtwuInv'
  BY <1>0 DEF IndInv, TypeOK, LocksInv, TtwuInv, ttwu_queue_wakelist
<1>7. DeadInv'
  BY <1>0 DEF IndInv, TypeOK, LocalsInv, DeadInv, ttwu_queue_wakelist
<1>8. CondInv'
  <2>1. \A d \in CPUs : d # c => pc'[d] = pc[d] /\ tsk'[d] = tsk[d]
    BY DEF IndInv, TypeOK, ttwu_queue_wakelist
  <2> SUFFICES ASSUME NEW q \in Tasks, state'[q] \in Sleeping
               PROVE  CondInv!(q)'
    BY DEF CondInv
  <2>2. q # p /\ CondInv!(q)
    BY <1>0 DEF IndInv, CondInv, ttwu_queue_wakelist
  <2>3. \A l \in {"ttwu_normal", "ttwu_signal"} : waker(q, l) => waker(q, l)'
    BY <2>1, <2>2, OtherWakers
  <2> QED BY <2>2, <2>3 DEF ttwu_queue_wakelist
<1> QED BY <1>1, <1>2, <1>3, <1>4, <1>5, <1>6, <1>7, <1>8 DEF IndInv

LEMMA TtwuOnCpuInv ==
  ASSUME IndInv, NEW c \in CPUs, ttwu_on_cpu(c)
  PROVE  IndInv'
<1> DEFINE p == tsk[c]
<1>1. CASE p \in on_cpu
  BY <1>1, WakelistInv, Zenon DEF ttwu_on_cpu
<1>2. CASE p \notin on_cpu
  <2>a. p \in Tasks /\ cpu[p] \in CPUs /\ state[p] = "WAKING" /\ on_rq[p] = 0
    BY DEF IndInv, TypeOK, LocalsInv, TtwuInv, ttwu_on_cpu
  <2>b. PICK k \in CPUs :
          /\ cpu' = [cpu EXCEPT ![p] = k]
          /\ goto(c, IF k = cpu[p] THEN "ttwu_queue" ELSE "ttwu_migrated")
          /\ nr_iowait' = [nr_iowait EXCEPT ![cpu[p]] =
                             @ - (IF k # cpu[p] /\ in_iowait(p) THEN 1 ELSE 0)]
    BY <1>2, Zenon DEF ttwu_on_cpu
  <2>c. /\ pc[c] = "ttwu_on_cpu"
        /\ pc' \in [CPUs -> PCs] /\ pc'[c] \in {"ttwu_queue", "ttwu_migrated"}
        /\ \A d \in CPUs : d # c => pc'[d] = pc[d]
        /\ cpu' \in [Tasks -> CPUs]
        /\ \A q \in Tasks : q # p => cpu'[q] = cpu[q]
    <3>1. PICK l \in {"ttwu_queue", "ttwu_migrated"} : goto(c, l)
      BY <2>b, Zenon
    <3> QED BY <2>a, <2>b, <3>1 DEF IndInv, TypeOK, ttwu_on_cpu
  <2>d. UNCHANGED <<state, on_rq, on_cpu, taskVars, curr, wake_list,
                    nr_uninterruptible, tsk, saved>>
    BY <1>2, Zenon DEF ttwu_on_cpu
  <2>e. \A d \in CPUs : p \notin wake_list[d] /\ ~executes(d, p)
    BY <2>a, <1>2 DEF IndInv, TtwuInv, ExecInv, ttwu_on_cpu
  <2>1. TypeOK'
    <3>1. nr_iowait' \in [CPUs -> Int]
      BY <2>a, <2>b DEF IndInv, TypeOK
    <3> QED BY <3>1, <2>c, <2>d DEF IndInv, TypeOK
  <2>2. LocalsInv'
    BY <2>c, <2>d DEF IndInv, TypeOK, LocalsInv
  <2>3. LocksInv'
    BY <2>c, <2>d DEF IndInv, TypeOK, LocksInv
  <2>4. ExecInv'
    BY <1>2, <2>a, <2>c, <2>d, <2>e DEF IndInv, TypeOK, ExecInv, executes
  <2>5. QueueInv'
    BY <2>a, <2>c, <2>d, <2>e DEF IndInv, TypeOK, QueueInv
  <2>6. TtwuInv'
    BY <1>2, <2>a, <2>c, <2>d, <2>e DEF IndInv, TypeOK, TtwuInv
  <2>7. DeadInv'
    BY <2>a, <2>c, <2>d DEF IndInv, TypeOK, DeadInv
  <2>8. CondInv'
    <3>1. \A q \in Tasks, l \in {"ttwu_normal", "ttwu_signal"} :
            waker(q, l) => waker(q, l)'
      BY <2>c, <2>d DEF waker
    <3> QED BY <3>1, <2>d DEF IndInv, CondInv
  <2> QED BY <2>1, <2>2, <2>3, <2>4, <2>5, <2>6, <2>7, <2>8 DEF IndInv
<1> QED BY <1>1, <1>2

\* p is enqueued under the rq->lock of task_cpu(p).
LEMMA TtwuActivateInv ==
  ASSUME IndInv, NEW c \in CPUs, NEW M,
         pc[c] \in {"ttwu_queue", "ttwu_migrated"}, rq_lock_free(cpu[tsk[c]]),
         ttwu_do_activate(cpu[tsk[c]], {tsk[c]}, M),
         return(c), UNCHANGED wake_list,
         nr_uninterruptible' \in Int, nr_iowait' \in [CPUs -> Int]
  PROVE  IndInv'
<1> DEFINE p == tsk[c]
<1>a. /\ p \in Tasks /\ cpu[p] \in CPUs
      /\ state[p] = "WAKING" /\ on_rq[p] = 0 /\ p \notin on_cpu
  BY DEF IndInv, TypeOK, LocalsInv, TtwuInv
<1>c. /\ pc[c] \in {"ttwu_queue", "ttwu_migrated"} /\ rq_lock_free(cpu[p])
      /\ pc'[c] = "run" /\ tsk'[c] = Idle
      /\ \A d \in CPUs : d # c => pc'[d] = pc[d] /\ tsk'[d] = tsk[d]
      /\ state'[p] = "RUNNING" /\ on_rq'[p] = 1
      /\ \A q \in Tasks : q # p => state'[q] = state[q] /\ on_rq'[q] = on_rq[q]
  BY <1>a, SMTT(20) DEF IndInv, TypeOK, ttwu_do_activate
<1>d. UNCHANGED <<on_cpu, cpu, taskVars, curr, saved, wake_list>>
  BY Zenon DEF ttwu_do_activate
<1>e. \A d \in CPUs : p \notin wake_list[d] /\ ~executes(d, p)
  BY <1>a, <1>c, Zenon DEF IndInv, TtwuInv, ExecInv
<1>1. TypeOK'
  <2>1. /\ pc' \in [CPUs -> PCs]
        /\ tsk' \in [CPUs -> Tasks \cup {Idle}]
        /\ state' \in [Tasks -> States] /\ on_rq' \in [Tasks -> 0..2]
    BY DEF IndInv, TypeOK, ttwu_do_activate
  <2> QED BY <2>1, <1>d DEF IndInv, TypeOK
<1>2. LocalsInv'
  BY <1>c, <1>d DEF IndInv, TypeOK, LocalsInv
<1>3. LocksInv'
  BY <1>c, <1>d DEF IndInv, TypeOK, LocksInv
<1>4. ExecInv'
  <2>1. \A d \in CPUs, q \in Tasks : executes(d, q)' <=> executes(d, q)
    BY <1>c, <1>d DEF executes
  <2> QED BY <1>a, <1>c, <1>d, <1>e, <2>1, SMTT(20) DEF IndInv, TypeOK, ExecInv,
    executes
<1>5. QueueInv'
  BY <1>a, <1>c, <1>d, <1>e, SMTT(20) DEF IndInv, TypeOK, QueueInv
<1>6. TtwuInv'
  <2>1. \A d \in CPUs : d # c /\ pc[d] \in PiLocked => tsk[d] # p
    BY <1>c DEF IndInv, LocksInv
  <2> SUFFICES ASSUME NEW d \in CPUs, NEW q \in Tasks, tsk'[d] = q
               PROVE  TtwuInv!(d)!(q)!2'
    BY Zenon DEF TtwuInv
  <2>2. d # c /\ pc'[d] = pc[d] /\ tsk[d] = q
    BY <1>c
  <2>3. TtwuInv!(d)!(q)!2
    BY <2>2, Zenon DEF IndInv, TtwuInv
  <2>4. CASE pc[d] \notin PiLocked
    BY <2>2, <2>4
  <2>5. CASE q # p
    <3>1. /\ state'[q] = state[q] /\ on_rq'[q] = on_rq[q]
          /\ on_cpu' = on_cpu /\ wake_list' = wake_list
      BY <1>c, <1>d, <2>5, SMTT(60)
    <3> QED BY <2>2, <2>3, <3>1
  <2> QED BY <2>1, <2>2, <2>4, <2>5, SMTT(60)
<1>7. DeadInv'
  BY <1>a, <1>c, <1>d, SMTT(60) DEF IndInv, TypeOK, LocalsInv, DeadInv
<1>8. CondInv'
  <2> SUFFICES ASSUME NEW q \in Tasks, state'[q] \in Sleeping
               PROVE  CondInv!(q)'
    BY SMTT(60) DEF CondInv
  <2>1. q # p /\ CondInv!(q)
    BY <1>a, <1>c, SMTT(60) DEF IndInv, CondInv
  <2>2. \A l \in {"ttwu_normal", "ttwu_signal"} : waker(q, l) => waker(q, l)'
    BY <1>c, <2>1, OtherWakers
  <2> QED BY <2>1, <2>2, <1>c, <1>d, Zenon
<1> QED BY <1>1, <1>2, <1>3, <1>4, <1>5, <1>6, <1>7, <1>8 DEF IndInv

LEMMA TtwuQueueInv ==
  ASSUME IndInv, NEW c \in CPUs, ttwu_queue(c),
         nr_uninterruptible' \in Int, nr_iowait' \in [CPUs -> Int]
  PROVE  IndInv'
<1> DEFINE m == pc[c] = "ttwu_migrated"
           M == IF m THEN {tsk[c]} ELSE {}
<1> HIDE DEF goto, return
<1>0. pc[c] \in {"ttwu_queue", "ttwu_migrated"}
  BY DEF ttwu_queue
<1>1. CASE ttwu_queue_wakelist(c, tsk[c], m)
  BY <1>0, <1>1, WakelistInv
<1>2. CASE /\ rq_lock_free(cpu[tsk[c]])
           /\ ttwu_do_activate(cpu[tsk[c]], {tsk[c]}, M)
           /\ return(c)
           /\ UNCHANGED wake_list
  <2> HIDE DEF M
  <2> QED BY <1>0, <1>2, TtwuActivateInv
<1> QED BY <1>1, <1>2, Zenon DEF ttwu_queue

LEMMA SchedTtwuPendingInv ==
  ASSUME IndInv, NEW c \in CPUs, sched_ttwu_pending(c),
         nr_uninterruptible' \in Int, nr_iowait' \in [CPUs -> Int]
  PROVE  IndInv'
<1> DEFINE S == wake_list[c]
<1>a. /\ S \in SUBSET Tasks
      /\ \A p \in S : /\ state[p] = "WAKING" /\ on_rq[p] = 0 /\ cpu[p] = c
                      /\ \A d \in CPUs \ {c} : p \notin wake_list[d]
  BY DEF IndInv, TypeOK, QueueInv
<1>b. \A p \in S : p \notin on_cpu
  BY <1>a, SMTT(60) DEF IndInv, TypeOK, ExecInv, executes, sched_ttwu_pending
<1>c. /\ \A p \in Tasks : IF p \in S THEN state'[p] = "RUNNING" /\ on_rq'[p] = 1
                          ELSE state'[p] = state[p] /\ on_rq'[p] = on_rq[p]
      /\ \A d \in CPUs : wake_list'[d] = IF d = c THEN {} ELSE wake_list[d]
  BY DEF IndInv, TypeOK, sched_ttwu_pending, ttwu_do_activate
<1>d. UNCHANGED <<on_cpu, cpu, taskVars, curr, saved, pc, tsk>>
  BY DEF sched_ttwu_pending, ttwu_do_activate
<1>1. TypeOK'
  <2>1. /\ state' \in [Tasks -> States] /\ on_rq' \in [Tasks -> 0..2]
        /\ wake_list' \in [CPUs -> SUBSET Tasks]
    BY DEF IndInv, TypeOK, sched_ttwu_pending, ttwu_do_activate
  <2> QED BY <2>1, <1>d DEF IndInv, TypeOK
<1>2. LocalsInv'
  BY <1>d DEF IndInv, LocalsInv
<1>3. LocksInv'
  BY <1>d DEF IndInv, LocksInv
<1>4. ExecInv'
  BY <1>b, <1>c, <1>d, SMTT(20) DEF IndInv, TypeOK, ExecInv, executes
<1>5. QueueInv'
  BY <1>a, <1>c, <1>d, SMTT(60) DEF IndInv, TypeOK, QueueInv
<1>6. TtwuInv'
  BY <1>a, <1>b, <1>c, <1>d, SMTT(60) DEF IndInv, TypeOK, TtwuInv
<1>7. DeadInv'
  BY <1>a, <1>c, <1>d, SMTT(20) DEF IndInv, TypeOK, DeadInv
<1>8. CondInv'
  BY <1>a, <1>c, <1>d DEF IndInv, CondInv, waker
<1> QED BY <1>1, <1>2, <1>3, <1>4, <1>5, <1>6, <1>7, <1>8 DEF IndInv
=============================================================================
