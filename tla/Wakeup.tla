------------------------------- MODULE Wakeup -------------------------------
(***************************************************************************)
(* Blocking, waking, switching and moving tasks: __schedule() against      *)
(* try_to_wake_up() (Project 2/core.c, CONFIG_SMP).                        *)
(*                                                                         *)
(* Every step below runs with interrupts off on one CPU, so each CPU has   *)
(* one program counter pc[c]; "run" is the only place where it can be      *)
(* interrupted.  tsk[c] is the task the code on that CPU has at hand: prev *)
(* in __schedule(), p in try_to_wake_up(), wake_up_new_task() and in the   *)
(* migration paths.  The locks are read off the program counters:          *)
(* rq->lock of c is held from the moment __schedule() takes it until       *)
(* finish_lock_switch(), p->pi_lock from the entry of the wakeup or of the *)
(* migration to its end.  A critical section with a single store that is   *)
(* read outside the lock is one step.                                      *)
(***************************************************************************)
EXTENDS Integers, FiniteSets

CONSTANTS Tasks,        \* task_structs, the idle tasks excepted
          CPUs,         \* CPUs, all online and active
          Idle,         \* rq->idle of whichever CPU it is the curr of
          Wakers        \* the kinds of wakeup: "normal", "signal"

ASSUME TasksAssumption == IsFiniteSet(Tasks) /\ Idle \notin Tasks

VARIABLES state,        \* p->__state ("FREE": no task_struct)
          on_rq,        \* p->on_rq: 0, 1 = QUEUED, 2 = MIGRATING
          on_cpu,       \* the tasks with p->on_cpu
          cpu,          \* task_cpu(p)
          contrib,      \* ... with p->sched_contributes_to_load
          remote,       \* ... with p->sched_remote_wakeup
          phase,        \* where the task is in its wait loop
          cond,         \* ... whose CONDITION holds
          sig,          \* ... with TIF_SIGPENDING
          puts,         \* scheduler references dropped since the fork
          curr,         \* rq->curr
          wake_list,    \* tasks queued by __ttwu_queue_wakelist()
          nr_iowait,    \* rq->nr_iowait
          nr_uninterruptible,   \* sum of rq->nr_uninterruptible
          pc, tsk,      \* control state of each CPU
          saved         \* prev_state in finish_task_switch(), if TASK_DEAD

taskVars == <<contrib, remote, phase, cond, sig, puts>>
counters == <<nr_iowait, nr_uninterruptible>>
vars == <<state, on_rq, on_cpu, cpu, taskVars, curr, wake_list, counters,
          pc, tsk, saved>>

Sleeping == {"INTERRUPTIBLE", "UNINTERRUPTIBLE"}
States == Sleeping \cup {"FREE", "NEW", "RUNNING", "WAKING", "DEAD"}

\* The program counters at which a CPU holds its own rq->lock ...
RqLocked == {"pick", "repick", "switch", "finish"}
\* ... and tsk[c]->pi_lock.
PiLocked == {"ttwu", "ttwu_runnable", "ttwu_on_cpu", "ttwu_queue",
             "ttwu_migrated", "new", "moving"}
PCs == RqLocked \cup PiLocked \cup
       {"run", "newidle", "ttwu_normal", "ttwu_signal", "attach"}

rq_lock_free(c) == pc[c] \notin RqLocked
pi_lock_free(p) == \A c \in CPUs : pc[c] \in PiLocked => tsk[c] # p

\* Tasks pick_next_task() can choose on c.
queue(c) == {p \in Tasks : on_rq[p] = 1 /\ cpu[p] = c}

\* p->in_iowait, set by io_schedule_prepare() around schedule().
in_iowait(p) == phase[p] = "io"

goto(c, l) == pc' = [pc EXCEPT ![c] = l]
return(c) == goto(c, "run") /\ tsk' = [tsk EXCEPT ![c] = Idle]

TypeOK ==
  /\ state \in [Tasks -> States]
  /\ on_rq \in [Tasks -> 0..2]
  /\ on_cpu \subseteq Tasks
  /\ cpu \in [Tasks -> CPUs]
  /\ contrib \subseteq Tasks
  /\ remote \subseteq Tasks
  /\ phase \in [Tasks -> {"work", "prepared", "checked", "io"}]
  /\ cond \subseteq Tasks
  /\ sig \subseteq Tasks
  /\ puts \in [Tasks -> Nat]
  /\ curr \in [CPUs -> Tasks \cup {Idle}]
  /\ wake_list \in [CPUs -> SUBSET Tasks]
  /\ nr_iowait \in [CPUs -> Int]
  /\ nr_uninterruptible \in Int
  /\ pc \in [CPUs -> PCs]
  /\ tsk \in [CPUs -> Tasks \cup {Idle}]
  /\ saved \in [CPUs -> {"RUNNING", "DEAD"}]

Init ==
  /\ state = [p \in Tasks |-> "FREE"]
  /\ on_rq = [p \in Tasks |-> 0]
  /\ on_cpu = {}
  /\ cpu \in [Tasks -> CPUs]
  /\ contrib = {}
  /\ remote = {}
  /\ phase = [p \in Tasks |-> "work"]
  /\ cond = {}
  /\ sig = {}
  /\ puts = [p \in Tasks |-> 0]
  /\ curr = [c \in CPUs |-> Idle]
  /\ wake_list = [c \in CPUs |-> {}]
  /\ nr_iowait = [c \in CPUs |-> 0]
  /\ nr_uninterruptible = 0
  /\ pc = [c \in CPUs |-> "run"]
  /\ tsk = [c \in CPUs |-> Idle]
  /\ saved = [c \in CPUs |-> "RUNNING"]

-----------------------------------------------------------------------------
(* The code a task runs: the wait loop documented at set_current_state().  *)

running(c, p) == pc[c] = "run" /\ curr[c] = p /\ p \in Tasks

set_current_state(c, p) ==
  /\ running(c, p) /\ state[p] = "RUNNING" /\ phase[p] = "work"
  /\ \E s \in Sleeping : state' = [state EXCEPT ![p] = s]
  /\ phase' = [phase EXCEPT ![p] = "prepared"]
  /\ UNCHANGED <<on_rq, on_cpu, cpu, contrib, remote, cond, sig, puts, curr,
                 wake_list, counters, pc, tsk, saved>>

\* if (CONDITION) break; ... __set_current_state(TASK_RUNNING)
check_condition(c, p) ==
  /\ running(c, p) /\ phase[p] = "prepared"
  /\ IF p \in cond
     THEN /\ state' = [state EXCEPT ![p] = "RUNNING"]
          /\ cond' = cond \ {p}
          /\ phase' = [phase EXCEPT ![p] = "work"]
     ELSE /\ phase' = [phase EXCEPT ![p] = "checked"]
          /\ UNCHANGED <<state, cond>>
  /\ UNCHANGED <<on_rq, on_cpu, cpu, contrib, remote, sig, puts, curr,
                 wake_list, counters, pc, tsk, saved>>

\* Back from io_schedule() (io_schedule_finish() clears in_iowait), or the
\* signal taken on the way back to user space.
resume(c, p) ==
  /\ running(c, p) /\ state[p] = "RUNNING"
  /\ \/ /\ phase[p] = "io"
        /\ phase' = [phase EXCEPT ![p] = "work"]
        /\ UNCHANGED sig
     \/ /\ phase[p] = "work" /\ p \in sig
        /\ sig' = sig \ {p}
        /\ UNCHANGED phase
  /\ UNCHANGED <<state, on_rq, on_cpu, cpu, contrib, remote, cond, puts, curr,
                 wake_list, counters, pc, tsk, saved>>

\* Mutant: __set_current_state(TASK_DEAD), without p->pi_lock.
do_task_dead_nolock(c, p) ==
  /\ running(c, p) /\ state[p] = "RUNNING" /\ phase[p] = "work"
  /\ state' = [state EXCEPT ![p] = "DEAD"]
  /\ UNCHANGED <<on_rq, on_cpu, cpu, taskVars, curr, wake_list, counters,
                 pc, tsk, saved>>

\* do_task_dead(): set_special_state() waits for p->pi_lock.
do_task_dead(c, p) ==
  /\ running(c, p) /\ state[p] = "RUNNING" /\ phase[p] = "work"
  /\ pi_lock_free(p)
  /\ state' = [state EXCEPT ![p] = "DEAD"]
  /\ UNCHANGED <<on_rq, on_cpu, cpu, taskVars, curr, wake_list, counters,
                 pc, tsk, saved>>

-----------------------------------------------------------------------------
(* __schedule(), context_switch() and finish_task_switch().                *)

\* SM_NONE, up to pick_next_task(): with rq->lock held, block prev unless a
\* wakeup or a signal came first.  Called from the wait loop, perhaps by way of
\* io_schedule(), or by do_task_dead().
schedule(c, prev) ==
  /\ running(c, prev)
  /\ \/ /\ phase[prev] = "checked"
        /\ \E ph \in {"work", "io"} : phase' = [phase EXCEPT ![prev] = ph]
     \/ state[prev] = "DEAD" /\ UNCHANGED phase
  /\ \/ /\ state[prev] = "RUNNING"
        /\ UNCHANGED <<state, on_rq, contrib, counters>>
     \/ /\ state[prev] = "INTERRUPTIBLE" /\ prev \in sig
        /\ state' = [state EXCEPT ![prev] = "RUNNING"]
        /\ UNCHANGED <<on_rq, contrib, counters>>
     \/ /\ state[prev] # "RUNNING"
        /\ ~(state[prev] = "INTERRUPTIBLE" /\ prev \in sig)
        /\ contrib' = IF state[prev] = "UNINTERRUPTIBLE"
                     THEN contrib \cup {prev} ELSE contrib \ {prev}
        /\ nr_uninterruptible' = nr_uninterruptible
                                   + (IF prev \in contrib' THEN 1 ELSE 0)
        /\ on_rq' = [on_rq EXCEPT ![prev] = 0]
        /\ nr_iowait' = [nr_iowait EXCEPT ![c] =
                            @ + (IF phase'[prev] = "io" THEN 1 ELSE 0)]
        /\ UNCHANGED state
  /\ tsk' = [tsk EXCEPT ![c] = prev]
  /\ goto(c, "pick")
  /\ UNCHANGED <<on_cpu, cpu, remote, cond, sig, puts, curr, wake_list, saved>>

\* SM_PREEMPT, or the idle task: prev stays runnable whatever its state.  The
\* caller of do_task_dead() has preemption disabled: a dead task is not
\* preempted on its way to __schedule().
preempt_schedule(c) ==
  /\ pc[c] = "run"
  /\ curr[c] \in Tasks => state[curr[c]] # "DEAD"
  /\ tsk' = [tsk EXCEPT ![c] = curr[c]]
  /\ goto(c, "pick")
  /\ UNCHANGED <<state, on_rq, on_cpu, cpu, taskVars, curr, wake_list,
                 counters, saved>>

\* newidle_balance() drops rq->lock while it looks for work and takes it again.
newidle_balance(c) ==
  /\ \/ pc[c] = "pick" /\ queue(c) = {} /\ goto(c, "newidle")
     \/ pc[c] = "newidle" /\ goto(c, "repick")
  /\ UNCHANGED <<state, on_rq, on_cpu, cpu, taskVars, curr, wake_list,
                 counters, tsk, saved>>

\* From pick_next_task() to switch_to(): the class order is left open, any
\* queued task can be next, the idle task only when there is none.
pick_next_task(c, next) ==
  /\ pc[c] \in {"pick", "repick"}
  /\ next \in queue(c) \/ (queue(c) = {} /\ next = Idle)
  /\ IF next = tsk[c]
     THEN return(c) /\ UNCHANGED <<curr, on_cpu>>
     ELSE /\ curr' = [curr EXCEPT ![c] = next]
          /\ on_cpu' = on_cpu \cup ({next} \ {Idle})
          /\ goto(c, "switch")
          /\ UNCHANGED tsk
  /\ UNCHANGED <<state, on_rq, cpu, taskVars, wake_list, counters, saved>>

\* finish_task_switch() up to finish_task(), on the stack of the new curr:
\* prev_state is read before on_cpu is cleared (what
\* becomes of it is only the comparison with TASK_DEAD).
finish_task(c) ==
  /\ pc[c] = "switch"
  /\ saved' = [saved EXCEPT ![c] =
                  IF tsk[c] \in Tasks /\ state[tsk[c]] = "DEAD"
                  THEN "DEAD" ELSE "RUNNING"]
  /\ on_cpu' = on_cpu \ {tsk[c]}
  /\ goto(c, "finish")
  /\ UNCHANGED <<state, on_rq, cpu, taskVars, curr, wake_list, counters, tsk>>

\* Mutant: prev->__state is read after finish_task() has let prev go.
finish_lock_switch_late(c) ==
  /\ pc[c] = "finish"
  /\ puts' = [p \in Tasks |->
                 puts[p] + (IF p = tsk[c] /\ state[p] = "DEAD" THEN 1 ELSE 0)]
  /\ saved' = [saved EXCEPT ![c] = "RUNNING"]
  /\ return(c)
  /\ UNCHANGED <<state, on_rq, on_cpu, cpu, contrib, remote, phase, cond, sig,
                 curr, wake_list, counters>>

\* finish_lock_switch(), then put_task_struct_rcu_user() for a dead prev.
finish_lock_switch(c) ==
  /\ pc[c] = "finish"
  /\ puts' = [p \in Tasks |->
                 puts[p] + (IF p = tsk[c] /\ saved[c] = "DEAD" THEN 1 ELSE 0)]
  /\ saved' = [saved EXCEPT ![c] = "RUNNING"]
  /\ return(c)
  /\ UNCHANGED <<state, on_rq, on_cpu, cpu, contrib, remote, phase, cond, sig,
                 curr, wake_list, counters>>

-----------------------------------------------------------------------------
(* try_to_wake_up(p), by an interrupt or by the task running on c.         *)

\* The caller: CONDITION = 1; wake_up_process(p), or signal_wake_up(p).  It
\* holds a reference to p.
wake_up_process(c, p) ==
  /\ pc[c] = "run" /\ curr[c] # p /\ state[p] # "FREE"
  /\ \/ /\ "normal" \in Wakers
        /\ cond' = cond \cup {p}
        /\ goto(c, "ttwu_normal") /\ UNCHANGED sig
     \/ /\ "signal" \in Wakers
        /\ sig' = sig \cup {p}
        /\ goto(c, "ttwu_signal") /\ UNCHANGED cond
  /\ tsk' = [tsk EXCEPT ![c] = p]
  /\ UNCHANGED <<state, on_rq, on_cpu, cpu, contrib, remote, phase, puts, curr,
                 wake_list, counters, saved>>

\* The shortcut for p == current: no lock is taken.
wake_up_current(c, p) ==
  /\ running(c, p)
  /\ \/ /\ "normal" \in Wakers
        /\ cond' = cond \cup {p}
        /\ state' = [state EXCEPT ![p] = IF @ \in Sleeping THEN "RUNNING" ELSE @]
        /\ UNCHANGED sig
     \/ /\ "signal" \in Wakers
        /\ sig' = sig \cup {p}
        /\ state' = [state EXCEPT ![p] =
                       IF @ = "INTERRUPTIBLE" THEN "RUNNING" ELSE @]
        /\ UNCHANGED cond
  /\ UNCHANGED <<on_rq, on_cpu, cpu, contrib, remote, phase, puts, curr,
                 wake_list, counters, pc, tsk, saved>>

\* The states that the wakeup on c may wake: TASK_NORMAL or TASK_INTERRUPTIBLE.
wake_mask(c) == IF pc[c] = "ttwu_normal" THEN Sleeping ELSE {"INTERRUPTIBLE"}

\* Take p->pi_lock; ttwu_state_match() or give up.
try_to_wake_up(c) ==
  LET p == tsk[c] IN
  /\ pc[c] \in {"ttwu_normal", "ttwu_signal"}
  /\ pi_lock_free(p)
  /\ IF state[p] \in wake_mask(c) THEN goto(c, "ttwu") /\ UNCHANGED tsk
                                  ELSE return(c)
  /\ UNCHANGED <<state, on_rq, on_cpu, cpu, taskVars, curr, wake_list,
                 counters, saved>>

\* Mutant: TASK_WAKING is not stored.
ttwu_read_on_rq_unmarked(c) ==
  /\ pc[c] = "ttwu"
  /\ goto(c, IF on_rq[tsk[c]] # 0 THEN "ttwu_runnable" ELSE "ttwu_on_cpu")
  /\ UNCHANGED <<state, on_rq, on_cpu, cpu, taskVars, curr, wake_list, counters,
                 tsk, saved>>

\* READ_ONCE(p->on_rq): 0 makes p WAKING, otherwise ttwu_runnable() is called.
ttwu_read_on_rq(c) ==
  LET p == tsk[c] IN
  /\ pc[c] = "ttwu"
  /\ IF on_rq[p] # 0
     THEN goto(c, "ttwu_runnable") /\ UNCHANGED state
     ELSE /\ state' = [state EXCEPT ![p] = "WAKING"]
          /\ goto(c, "ttwu_on_cpu")
  /\ UNCHANGED <<on_rq, on_cpu, cpu, taskVars, curr, wake_list, counters, tsk,
                 saved>>

\* Mutant: a task that blocked while ttwu_runnable() waited for rq->lock is given
\* up.
ttwu_runnable_done(c) ==
  LET p == tsk[c] IN
  /\ pc[c] = "ttwu_runnable"
  /\ on_rq[p] # 2 /\ rq_lock_free(cpu[p])
  /\ state' = [state EXCEPT ![p] = IF on_rq[p] = 1 THEN "RUNNING" ELSE @]
  /\ return(c)
  /\ UNCHANGED <<on_rq, on_cpu, cpu, taskVars, curr, wake_list, counters, saved>>

\* ttwu_runnable(): __task_rq_lock() waits out a migration and rq->lock, then
\* the task is found queued and made RUNNING, or it has blocked meanwhile.
ttwu_runnable(c) ==
  LET p == tsk[c] IN
  /\ pc[c] = "ttwu_runnable"
  /\ on_rq[p] # 2 /\ rq_lock_free(cpu[p])
  /\ IF on_rq[p] = 1
     THEN state' = [state EXCEPT ![p] = "RUNNING"] /\ return(c)
     ELSE /\ state' = [state EXCEPT ![p] = "WAKING"]
          /\ goto(c, "ttwu_on_cpu") /\ UNCHANGED tsk
  /\ UNCHANGED <<on_rq, on_cpu, cpu, taskVars, curr, wake_list, counters, saved>>

\* Mutant: sched_remote_wakeup is not recorded.
ttwu_queue_wakelist_unrecorded(c, p, migrated) ==
  /\ cpu[p] # c
  /\ wake_list' = [wake_list EXCEPT ![cpu[p]] = @ \cup {p}]
  /\ return(c)
  /\ UNCHANGED <<state, on_rq, on_cpu, cpu, contrib, remote, phase, cond, sig,
                 puts, curr, counters, saved>>

\* __ttwu_queue_wakelist(): the enqueue is left to the target's IPI.  Whether
\* ttwu_queue_cond() wants it depends on the topology and is left open.
ttwu_queue_wakelist(c, p, migrated) ==
  /\ cpu[p] # c
  /\ wake_list' = [wake_list EXCEPT ![cpu[p]] = @ \cup {p}]
  /\ remote' = IF migrated THEN remote \cup {p} ELSE remote \ {p}
  /\ return(c)
  /\ UNCHANGED <<state, on_rq, on_cpu, cpu, contrib, phase, cond, sig, puts,
                 curr, counters, saved>>

\* Mutant: no smp_cond_load_acquire(&p->on_cpu, !VAL).
ttwu_on_cpu_nowait(c) ==
  LET p == tsk[c] IN
  /\ pc[c] = "ttwu_on_cpu"
  /\ \E k \in CPUs :
       /\ cpu' = [cpu EXCEPT ![p] = k]
       /\ goto(c, IF k = cpu[p] THEN "ttwu_queue" ELSE "ttwu_migrated")
       /\ nr_iowait' = [nr_iowait EXCEPT ![cpu[p]] =
                          @ - (IF k # cpu[p] /\ in_iowait(p) THEN 1 ELSE 0)]
  /\ UNCHANGED <<state, on_rq, on_cpu, taskVars, curr, wake_list,
                 nr_uninterruptible, tsk, saved>>

\* if (p->on_cpu && ttwu_queue_wakelist(p, task_cpu(p), ... | WF_ON_CPU)),
\* else wait for !p->on_cpu, select_task_rq() and set_task_cpu().
ttwu_on_cpu(c) ==
  LET p == tsk[c] IN
  /\ pc[c] = "ttwu_on_cpu"
  /\ \/ p \in on_cpu /\ ttwu_queue_wakelist(c, p, FALSE)
     \/ /\ p \notin on_cpu
        /\ \E k \in CPUs :
             /\ cpu' = [cpu EXCEPT ![p] = k]
             /\ goto(c, IF k = cpu[p] THEN "ttwu_queue" ELSE "ttwu_migrated")
             /\ nr_iowait' = [nr_iowait EXCEPT ![cpu[p]] =
                                @ - (IF k # cpu[p] /\ in_iowait(p) THEN 1 ELSE 0)]
        /\ UNCHANGED <<state, on_rq, on_cpu, taskVars, curr, wake_list,
                       nr_uninterruptible, tsk, saved>>

\* ttwu_do_activate() for the tasks in S, all enqueued on k; M are those whose
\* wakeup had WF_MIGRATED.
ttwu_do_activate(k, S, M) ==
  /\ nr_uninterruptible' = nr_uninterruptible - Cardinality(S \cap contrib)
  /\ nr_iowait' = [nr_iowait EXCEPT ![k] =
                     @ - Cardinality({p \in S \ M : in_iowait(p)})]
  /\ on_rq' = [p \in Tasks |-> IF p \in S THEN 1 ELSE on_rq[p]]
  /\ state' = [p \in Tasks |-> IF p \in S THEN "RUNNING" ELSE state[p]]
  /\ UNCHANGED <<on_cpu, cpu, taskVars, curr, saved>>

\* ttwu_queue(): by the wake list, or under the target's rq->lock.
ttwu_queue(c) ==
  LET p == tsk[c]
      migrated == pc[c] = "ttwu_migrated" IN
  /\ pc[c] \in {"ttwu_queue", "ttwu_migrated"}
  /\ \/ ttwu_queue_wakelist(c, p, migrated)
     \/ /\ rq_lock_free(cpu[p])
        /\ ttwu_do_activate(cpu[p], {p}, IF migrated THEN {p} ELSE {})
        /\ return(c)
        /\ UNCHANGED wake_list

\* sched_ttwu_pending(): the IPI empties the wake list under rq->lock.
sched_ttwu_pending(c) ==
  /\ pc[c] = "run" /\ wake_list[c] # {}
  /\ ttwu_do_activate(c, wake_list[c], wake_list[c] \cap remote)
  /\ wake_list' = [wake_list EXCEPT ![c] = {}]
  /\ UNCHANGED <<pc, tsk>>

-----------------------------------------------------------------------------
(* New tasks and migration.                                                *)

\* copy_process() as far as the scheduler sees it (dup_task_struct(),
\* sched_fork(), sched_cgroup_fork()): the bits of the parent are copied.
sched_fork(c, p) ==
  LET inherit(S) == IF curr[c] \in S THEN S \cup {p} ELSE S \ {p} IN
  /\ pc[c] = "run" /\ state[p] = "FREE"
  /\ curr[c] # Idle => state[curr[c]] = "RUNNING"
  /\ state' = [state EXCEPT ![p] = "NEW"]
  /\ cpu' = [cpu EXCEPT ![p] = c]
  /\ contrib' = inherit(contrib)
  /\ remote' = inherit(remote)
  /\ UNCHANGED <<on_rq, on_cpu, phase, cond, sig, puts, curr, wake_list,
                 counters, pc, tsk, saved>>

\* The last reference to a dead task is gone: the memory can be used again.
free_task(p) ==
  /\ state[p] = "DEAD" /\ puts[p] > 0
  /\ \A c \in CPUs : tsk[c] # p
  /\ state' = [state EXCEPT ![p] = "FREE"]
  /\ cond' = cond \ {p}
  /\ sig' = sig \ {p}
  /\ puts' = [puts EXCEPT ![p] = 0]
  /\ UNCHANGED <<on_rq, on_cpu, cpu, contrib, remote, phase, curr, wake_list,
                 counters, pc, tsk, saved>>

wake_up_new_task(c, p) ==
  /\ pc[c] = "run" /\ state[p] = "NEW" /\ pi_lock_free(p)
  /\ state' = [state EXCEPT ![p] = "RUNNING"]
  /\ \E k \in CPUs : cpu' = [cpu EXCEPT ![p] = k]
  /\ tsk' = [tsk EXCEPT ![c] = p]
  /\ goto(c, "new")
  /\ UNCHANGED <<on_rq, on_cpu, taskVars, curr, wake_list, counters, saved>>

\* Leave one runqueue with rq->lock held: on_rq = MIGRATING, set_task_cpu().
\* move_queued_task(), from the stopper of the task's CPU under p->pi_lock ...
move_queued_task(c, p) ==
  /\ pc[c] = "run" /\ cpu[p] = c /\ on_rq[p] = 1 /\ p \notin on_cpu
  /\ pi_lock_free(p)
  /\ on_rq' = [on_rq EXCEPT ![p] = 2]
  /\ \E k \in CPUs \ {c} : cpu' = [cpu EXCEPT ![p] = k]
  /\ tsk' = [tsk EXCEPT ![c] = p]
  /\ goto(c, "moving")
  /\ UNCHANGED <<state, on_cpu, taskVars, curr, wake_list, counters, saved>>

\* ... and detach_task() of the load balancer, which pulls to its own CPU
\* without p->pi_lock.
detach_task(c, p) ==
  /\ pc[c] = "run" /\ cpu[p] # c /\ on_rq[p] = 1 /\ p \notin on_cpu
  /\ rq_lock_free(cpu[p])
  /\ on_rq' = [on_rq EXCEPT ![p] = 2]
  /\ cpu' = [cpu EXCEPT ![p] = c]
  /\ tsk' = [tsk EXCEPT ![c] = p]
  /\ goto(c, "attach")
  /\ UNCHANGED <<state, on_cpu, taskVars, curr, wake_list, counters, saved>>

\* activate_task() under the rq->lock of task_cpu(p): the end of
\* wake_up_new_task(), of move_queued_task() and of the load balancer's pull.
activate_task(c) ==
  LET p == tsk[c] IN
  /\ pc[c] \in {"new", "moving", "attach"}
  /\ rq_lock_free(cpu[p])
  /\ on_rq' = [on_rq EXCEPT ![p] = 1]
  /\ return(c)
  /\ UNCHANGED <<state, on_cpu, cpu, taskVars, curr, wake_list, counters, saved>>

Next ==
  \/ \E c \in CPUs :
       \/ preempt_schedule(c) \/ newidle_balance(c)
       \/ \E next \in Tasks \cup {Idle} : pick_next_task(c, next)
       \/ finish_task(c) \/ finish_lock_switch(c)
       \/ try_to_wake_up(c) \/ ttwu_read_on_rq(c) \/ ttwu_runnable(c)
       \/ ttwu_on_cpu(c) \/ ttwu_queue(c) \/ sched_ttwu_pending(c)
       \/ activate_task(c)
       \/ \E p \in Tasks :
            \/ set_current_state(c, p) \/ check_condition(c, p) \/ resume(c, p)
            \/ do_task_dead(c, p) \/ schedule(c, p)
            \/ wake_up_process(c, p) \/ wake_up_current(c, p)
            \/ sched_fork(c, p) \/ wake_up_new_task(c, p)
            \/ move_queued_task(c, p) \/ detach_task(c, p)
  \/ \E p \in Tasks : free_task(p)

Spec == Init /\ [][Next]_vars

\* The steps that run with interrupts off.
irqs_off(c) ==
  \/ newidle_balance(c) \/ finish_task(c) \/ finish_lock_switch(c)
  \/ \E next \in Tasks \cup {Idle} : pick_next_task(c, next)
  \/ try_to_wake_up(c) \/ ttwu_read_on_rq(c) \/ ttwu_runnable(c)
  \/ ttwu_on_cpu(c) \/ ttwu_queue(c) \/ activate_task(c)

\* Code that runs with interrupts off runs to its end, spinning on queued
\* spinlocks that serve their waiters in order; the wakeup IPI is taken when
\* interrupts come back on.  Nothing is assumed of the tasks themselves.
Fairness == \A c \in CPUs : /\ SF_vars(irqs_off(c))
                            /\ SF_vars(sched_ttwu_pending(c))

FairSpec == Spec /\ Fairness

-----------------------------------------------------------------------------
(* Properties.                                                             *)

\* The registers or the stack of c are those of p: p is curr, or it is prev and
\* finish_task() has not run yet.
executes(c, p) == curr[c] = p \/ (pc[c] = "switch" /\ tsk[c] = p)
executing(p) == {c \in CPUs : executes(c, p)}

\* No task is ever executed by two CPUs at once: a wakeup or a migration can
\* only put a task on another runqueue after the CPU it ran on has left its
\* stack, the point of the on_cpu handshake between finish_task() and
\* try_to_wake_up().
OneStackOneCpu ==
  \A p \in Tasks : \A c, d \in executing(p) : c = d

\* on_cpu says exactly that, and the CPU is task_cpu(p) (the comment "p->on_cpu"
\* in the serialization rules).
OnCpuExact ==
  \A p \in Tasks :
    /\ p \in on_cpu <=> executing(p) # {}
    /\ \A c \in executing(p) : cpu[p] = c

\* A task on a wake list is WAKING, off every runqueue and on the list of its
\* own CPU only, and by the time the IPI is served it has left its CPU: the
\* WARN_ON_ONCEs of sched_ttwu_pending() do not fire.
WakeListSound ==
  \A c \in CPUs : \A p \in wake_list[c] :
    /\ state[p] = "WAKING" /\ on_rq[p] = 0 /\ cpu[p] = c
    /\ pc[c] = "run" => p \notin on_cpu

\* try_to_wake_up() spins for !p->on_cpu with p->pi_lock held and interrupts
\* off; the CPU it waits for is another one, inside __schedule(), where nothing
\* needs a pi_lock: the spin ends.
SpinEnds ==
  \A c, d \in CPUs :
    pc[c] = "ttwu_on_cpu" /\ d \in executing(tsk[c]) =>
      c # d /\ pc[d] \in RqLocked \cup {"newidle"}

\* A wakeup of p that was at l has not reached its end.
waker(p, l) ==
  \E c \in CPUs : tsk[c] = p /\ pc[c] \in {l, "ttwu", "ttwu_runnable"}

\* No wakeup is lost: a task that is blocked although its condition holds, or a
\* signal is pending that its state admits, has a waker on the way to it.
WakeupInFlight ==
  \A p \in Tasks :
    on_rq[p] = 0 /\ state[p] \in Sleeping =>
      /\ p \in cond => waker(p, "ttwu_normal")
      /\ p \in sig /\ state[p] = "INTERRUPTIBLE" => waker(p, "ttwu_signal")

\* The counters do not drift, through wakeups that migrate and wakeups that an IPI
\* finishes: rq->nr_iowait of each CPU counts the tasks blocked in io_schedule()
\* there, and the sum of rq->nr_uninterruptible, from which the load average comes,
\* the tasks blocked uninterruptibly.
CountersExact ==
  /\ \A c \in CPUs :
       nr_iowait[c] = Cardinality(
         {p \in Tasks : /\ in_iowait(p) /\ on_rq[p] = 0 /\ cpu[p] = c
                        /\ ~(p \in wake_list[c] /\ p \in remote)
                        /\ \A d \in CPUs :
                             ~(pc[d] = "ttwu_migrated" /\ tsk[d] = p)})
  /\ nr_uninterruptible = Cardinality(
       {p \in contrib : on_rq[p] = 0
                      /\ state[p] \in {"UNINTERRUPTIBLE", "WAKING"}})

\* finish_task_switch() drops the scheduler's reference once, for a task that
\* no CPU executes or will execute.
ReleasedOnce ==
  \A p \in Tasks :
    puts[p] > 0 => /\ puts[p] = 1 /\ state[p] = "DEAD"
                   /\ on_rq[p] = 0 /\ executing(p) = {}

\* A dead task stays dead until its memory is reused: no wakeup in flight
\* stores TASK_RUNNING over TASK_DEAD (what set_special_state() is for).
DeadStaysDead ==
  [][\A p \in Tasks : state[p] = "DEAD" => state'[p] \in {"DEAD", "FREE"}]_vars

-----------------------------------------------------------------------------
(* The inductive invariant behind the safety properties.                   *)

\* What the local variable tsk[c] is at each point of the code.
LocalsInv ==
  \A c \in CPUs :
    /\ pc[c] = "run" => tsk[c] = Idle
    /\ pc[c] \in {"pick", "repick", "newidle"} => tsk[c] = curr[c]
    /\ pc[c] = "switch" => tsk[c] # curr[c]
    /\ pc[c] \in PiLocked \cup {"ttwu_normal", "ttwu_signal", "attach"} =>
         tsk[c] \in Tasks
    /\ saved[c] = "DEAD" => pc[c] = "finish" /\ tsk[c] \in Tasks

\* A pi_lock has one holder, a task one migration under way.
LocksInv ==
  \A c, d \in CPUs :
    tsk[c] = tsk[d] =>
      /\ pc[c] \in PiLocked /\ pc[d] \in PiLocked => c = d
      /\ pc[c] \in {"moving", "attach"} /\ pc[d] \in {"moving", "attach"} => c = d

\* An executed task is on its own CPU's queue unless __schedule() is blocking it.
ExecInv ==
  \A p \in Tasks :
    /\ p \in on_cpu => executes(cpu[p], p)
    /\ \A c \in CPUs :
         /\ executes(c, p) => /\ p \in on_cpu /\ cpu[p] = c /\ on_rq[p] # 2
                             /\ state[p] \notin {"FREE", "NEW"}
         /\ curr[c] = p /\ pc[c] \notin {"pick", "repick", "newidle"} =>
              on_rq[p] = 1

\* on_rq, the state and the wake lists agree.
QueueInv ==
  \A p \in Tasks :
    /\ on_rq[p] # 0 => state[p] \notin {"FREE", "NEW", "WAKING"}
    /\ state[p] = "FREE" => \A c \in CPUs : tsk[c] # p
    /\ \A c \in CPUs :
         /\ p \in wake_list[c] =>
              state[p] = "WAKING" /\ on_rq[p] = 0 /\ cpu[p] = c
         /\ pc[c] \in {"moving", "attach"} /\ tsk[c] = p => on_rq[p] = 2

\* What a wakeup in flight knows about its task.
TtwuInv ==
  \A c \in CPUs : \A p \in Tasks :
    tsk[c] = p =>
      /\ pc[c] \in {"ttwu", "ttwu_runnable"} =>
           /\ state[p] \in Sleeping \cup {"RUNNING"}
           /\ on_rq[p] = 0 => state[p] \in Sleeping
      /\ pc[c] \in {"ttwu_on_cpu", "ttwu_queue", "ttwu_migrated"} =>
           /\ state[p] = "WAKING" /\ on_rq[p] = 0
           /\ \A d \in CPUs : p \notin wake_list[d]
      /\ pc[c] \in {"ttwu_queue", "ttwu_migrated"} => p \notin on_cpu
      /\ pc[c] = "new" => state[p] = "RUNNING" /\ on_rq[p] = 0 /\ p \notin on_cpu

\* The way of a dead task: running, switched out, its reference dropped once.
DeadInv ==
  \A p \in Tasks :
    /\ state[p] = "DEAD" => phase[p] = "work"
    /\ state[p] = "DEAD" /\ on_rq[p] # 0 =>
         curr[cpu[p]] = p /\ pc[cpu[p]] \notin RqLocked \cup {"newidle"}
    /\ puts[p] # 0 => /\ puts[p] = 1 /\ state[p] = "DEAD"
                      /\ on_rq[p] = 0 /\ p \notin on_cpu
    /\ \A c \in CPUs :
         tsk[c] = p /\ saved[c] = "DEAD" =>
           /\ state[p] = "DEAD" /\ on_rq[p] = 0 /\ p \notin on_cpu /\ puts[p] = 0
           /\ \A d \in CPUs : tsk[d] = p /\ saved[d] = "DEAD" => c = d

\* WakeupInFlight, from the moment the condition has been found false.
CondInv ==
  \A p \in Tasks :
    state[p] \in Sleeping =>
      /\ p \in cond /\ (on_rq[p] = 0 \/ phase[p] = "checked") =>
           waker(p, "ttwu_normal")
      /\ p \in sig /\ on_rq[p] = 0 /\ state[p] = "INTERRUPTIBLE" =>
           waker(p, "ttwu_signal")

\* The conjunction TLAPS proves inductive; TLC checks it on every reachable
\* state of the instance.
IndInv == /\ TypeOK /\ LocalsInv /\ LocksInv /\ ExecInv /\ QueueInv /\ TtwuInv
          /\ DeadInv /\ CondInv
=============================================================================
