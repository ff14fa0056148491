------------------------------ MODULE Hotplug -------------------------------
(***************************************************************************)
(* Taking a CPU down and up again (core.c): sched_cpu_deactivate() makes   *)
(* wakeups avoid it, balance_push() hands every ordinary task it switches  *)
(* to on to the stopper, which moves it elsewhere, and the CPU's hotplug   *)
(* thread waits in sched_cpu_wait_empty() until nothing is left.           *)
(*                                                                         *)
(* Sections under rq->lock are one step.  A wakeup picks its CPU in one    *)
(* step and enqueues in another.  CPUs outside Pluggable stay up, and what *)
(* runs there is left open.                                                *)
(***************************************************************************)
EXTENDS Integers, FiniteSets

CONSTANTS CPUs, Pluggable, Tasks,
          Kind,             \* "user", "kthread", or "percpu"
          Mask,             \* the initial p->cpus_mask
          Idle, Stop, Cpuhp, NULL,
          Busy,             \* whether dl_cpu_busy() may refuse
          Splices,          \* bound on __sched_setscheduler() calls
          MaxPins, MaxDowns \* bounds on migrate_disable() and on cpu_down()

ASSUME HotplugAssumption ==
  /\ IsFiniteSet(CPUs) /\ Pluggable \subseteq CPUs /\ CPUs # Pluggable
  /\ Kind \in [Tasks -> {"user", "kthread", "percpu"}]
  /\ Mask \in [Tasks -> (SUBSET CPUs) \ {{}}]
  /\ {Idle, Stop, Cpuhp, NULL} \cap Tasks = {}
  /\ Busy \in BOOLEAN /\ {Splices, MaxPins, MaxDowns} \subseteq Nat

VARIABLES cpu, st,          \* task_cpu(); "queued", "sleep" or "waking"
          pinned, pins,     \* tasks in a migrate_disable() section
          mask,             \* p->cpus_mask
          curr, push_work,  \* rq->curr; the task the stopper is to push
          push,             \* the CPUs whose balance_callback is balance_push
          spliced, splices, \* a CPU whose callbacks a setscheduler() took off
          active, online, dying,
          phase,            \* how far the CPU's hotplug thread is
          runnable,         \* the CPUs whose hotplug thread is runnable
          waiting,          \* the CPUs whose hotplug_wait has a waiter
          downs

taskVars == <<cpu, st, pinned, pins, mask>>
cpuVars == <<active, online, dying, downs>>
runVars == <<curr, push_work, runnable>>
cbVars == <<push, spliced, splices>>
vars == <<taskVars, cpuVars, runVars, cbVars, phase, waiting>>

queue(c) == {t \in Tasks : cpu[t] = c /\ st[t] = "queued"}

rq_has_pinned_tasks(c) == \E t \in pinned : cpu[t] = c

\* The types of the variables.
TypeOK ==
  /\ cpu \in [Tasks -> CPUs] /\ st \in [Tasks -> {"queued", "sleep", "waking"}]
  /\ pinned \subseteq Tasks /\ pins \in 0..MaxPins /\ mask \in [Tasks -> SUBSET CPUs]
  /\ curr \in [Pluggable -> Tasks \cup {Idle, Stop, Cpuhp}]
  /\ push_work \in [Pluggable -> Tasks \cup {NULL}]
  /\ push \subseteq Pluggable /\ spliced \in Pluggable \cup {NULL} /\ splices \in 0..Splices
  /\ {active, online} \subseteq SUBSET CPUs /\ {dying, runnable, waiting} \subseteq SUBSET Pluggable
  /\ phase \in [Pluggable -> {"up", "down", "deactivating", "sync", "synced", "inactive",
                              "parked", "empty", "dead", "starting"}]
  /\ downs \in 0..MaxDowns

Init ==
  /\ cpu \in [Tasks -> CPUs] /\ \A t \in Tasks : cpu[t] \in Mask[t]
  /\ st = [t \in Tasks |-> "sleep"] /\ pinned = {} /\ pins = 0 /\ mask = Mask
  /\ curr = [c \in Pluggable |-> Idle] /\ push_work = [c \in Pluggable |-> NULL]
  /\ push = {} /\ spliced = NULL /\ splices = 0
  /\ active = CPUs /\ online = CPUs /\ dying = {}
  /\ phase = [c \in Pluggable |-> "up"] /\ runnable = {} /\ waiting = {} /\ downs = 0

-----------------------------------------------------------------------------
(* Where a task may go                                                     *)

is_cpu_allowed(t, c) ==
  /\ IF t \in pinned THEN c = cpu[t] ELSE c \in mask[t]
  /\ IF t \in pinned \/ Kind[t] = "percpu" THEN c \in online
     ELSE IF Kind[t] = "user" THEN c \in active
     ELSE c \in online \ dying

\* An allowed CPU; when there is none, the mask gives way.
select_fallback_rq(t, c) ==
  LET fits == {d \in CPUs : is_cpu_allowed(t, d)}
  IN IF fits # {} THEN c \in fits /\ UNCHANGED mask
     ELSE c \in active /\ mask' = [mask EXCEPT ![t] = CPUs]

\* The class's own choice is only taken when it is allowed, so the outcome is
\* always one that the fallback could give.
select_task_rq(t, c) == select_fallback_rq(t, c)

\* try_to_wake_up() under p->pi_lock, which ends in an RCU read section.
ttwu_select(t) ==
  /\ st[t] = "sleep"
  /\ Kind[t] = "percpu" => \A c \in Mask[t] \cap Pluggable : phase[c] \notin {"parked", "empty", "dead"}
  /\ \E c \in CPUs : select_task_rq(t, c) /\ cpu' = [cpu EXCEPT ![t] = c]
  /\ st' = [st EXCEPT ![t] = "waking"]
  /\ UNCHANGED <<pinned, pins, cpuVars, runVars, cbVars, phase, waiting>>

ttwu_queue(t) ==
  /\ st[t] = "waking" /\ st' = [st EXCEPT ![t] = "queued"]
  /\ UNCHANGED <<cpu, pinned, pins, mask, cpuVars, runVars, cbVars, phase, waiting>>

-----------------------------------------------------------------------------
(* The scheduler on a CPU that can be unplugged                            *)

\* Mutant: the last task leaving does not wake the hotplug thread.
balance_push_silent(c, next, h) ==
  LET acts == c \in push /\ c \in dying
      stays == next \notin Tasks \/ next \in pinned \/ Kind[next] = "percpu"
  IN /\ runnable' = IF h THEN runnable \cup {c} ELSE runnable \ {c}
     /\ push_work' = IF acts /\ ~ stays THEN [push_work EXCEPT ![c] = next] ELSE push_work

\* balance_push() after the switch to next; h is whether the hotplug thread is
\* runnable then.  The callback puts itself back each time it runs.
balance_push(c, next, h) ==
  LET acts == c \in push /\ c \in dying
      stays == next \notin Tasks \/ next \in pinned \/ Kind[next] = "percpu"
      wakes == acts /\ next = Idle /\ ~ rq_has_pinned_tasks(c) /\ c \in waiting
  IN /\ runnable' = IF h \/ wakes THEN runnable \cup {c} ELSE runnable \ {c}
     /\ push_work' = IF acts /\ ~ stays THEN [push_work EXCEPT ![c] = next] ELSE push_work

\* __schedule() with q queued on c, up to the balance callbacks.
schedule(c, q, h) ==
  \E next \in IF push_work[c] # NULL THEN {Stop}
              ELSE IF q = {} /\ ~ h THEN {Idle}
              ELSE q \cup (IF h THEN {Cpuhp} ELSE {}) :
    curr' = [curr EXCEPT ![c] = next] /\ balance_push(c, next, h)

\* A preemption, or the idle task or the stopper giving way.
preempt(c) ==
  /\ c \in online /\ phase[c] # "dead"
  /\ curr[c] = Idle => queue(c) # {} \/ c \in runnable \/ push_work[c] # NULL
  /\ curr[c] = Stop => push_work[c] = NULL
  /\ schedule(c, queue(c), c \in runnable)
  /\ UNCHANGED <<taskVars, cpuVars, cbVars, phase, waiting>>

\* The running task blocks; elsewhere any queued one may.
block(t) ==
  /\ st[t] = "queued" /\ st' = [st EXCEPT ![t] = "sleep"]
  /\ IF cpu[t] \in Pluggable
     THEN /\ curr[cpu[t]] = t /\ push_work[cpu[t]] = NULL
          /\ schedule(cpu[t], queue(cpu[t]) \ {t}, cpu[t] \in runnable)
     ELSE UNCHANGED runVars
  /\ UNCHANGED <<cpu, pinned, pins, mask, cpuVars, cbVars, phase, waiting>>

\* The running task enters or leaves a migrate_disable() section.
migrate_disable(t) ==
  /\ cpu[t] \in Pluggable /\ curr[cpu[t]] = t /\ push_work[cpu[t]] = NULL
  /\ t \notin pinned /\ Kind[t] # "percpu" /\ pins < MaxPins
  /\ pinned' = pinned \cup {t} /\ pins' = pins + 1
  /\ UNCHANGED <<cpu, st, mask, cpuVars, runVars, cbVars, phase, waiting>>

migrate_enable(t) ==
  /\ t \in pinned /\ curr[cpu[t]] = t
  /\ pinned' = pinned \ {t}
  /\ UNCHANGED <<cpu, st, pins, mask, cpuVars, runVars, cbVars, phase, waiting>>

\* Another CPU pulls a waiting task, or its affinity is changed.
pull_task(t) ==
  /\ st[t] = "queued" /\ cpu[t] \in Pluggable /\ curr[cpu[t]] # t
  /\ t \notin pinned /\ Kind[t] # "percpu"
  /\ \E c \in mask[t] \cap active : c # cpu[t] /\ cpu' = [cpu EXCEPT ![t] = c]
  /\ UNCHANGED <<st, pinned, pins, mask, cpuVars, runVars, cbVars, phase, waiting>>

\* __balance_push_cpu_stop(), if the task is still queued here.
balance_push_cpu_stop(c) ==
  /\ curr[c] = Stop /\ push_work[c] # NULL
  /\ push_work' = [push_work EXCEPT ![c] = NULL]
  /\ LET t == push_work[c]
     IN IF t \in queue(c)
        THEN \E d \in CPUs : select_fallback_rq(t, d) /\ cpu' = [cpu EXCEPT ![t] = d]
        ELSE UNCHANGED <<cpu, mask>>
  /\ UNCHANGED <<st, pinned, pins, cpuVars, curr, runnable, cbVars, phase, waiting>>

-----------------------------------------------------------------------------
(* Balance callbacks across a lock break                                   *)

\* __sched_setscheduler() on another CPU takes the callbacks of c off its list
\* and drops rq->lock ...
splice_balance_callbacks(c) ==
  /\ splices < Splices /\ spliced = NULL /\ c \in push
  /\ spliced' = c /\ splices' = splices + 1 /\ push' = push \ {c}
  /\ UNCHANGED <<taskVars, cpuVars, runVars, phase, waiting>>

\* ... and runs them later: balance_push() only puts itself back.
balance_callbacks ==
  /\ spliced # NULL /\ push' = push \cup {spliced} /\ spliced' = NULL
  /\ UNCHANGED <<taskVars, cpuVars, runVars, splices, phase, waiting>>

-----------------------------------------------------------------------------
(* The hotplug thread of c: it runs on c itself                            *)

balance_push_set(c, on) == push' = IF on THEN push \cup {c} ELSE push \ {c}

\* cpu_down() starts it.
cpu_down(c) ==
  /\ phase[c] = "up" /\ downs < MaxDowns /\ downs' = downs + 1
  /\ dying' = dying \cup {c} /\ runnable' = runnable \cup {c}
  /\ phase' = [phase EXCEPT ![c] = "down"]
  /\ UNCHANGED <<taskVars, curr, push_work, cbVars, active, online, waiting>>

\* sched_cpu_deactivate() up to synchronize_rcu(), in which it blocks.
sched_cpu_deactivate(c) ==
  /\ curr[c] = Cpuhp /\ phase[c] = "down"
  /\ phase' = [phase EXCEPT ![c] = "deactivating"]
  /\ active' = active \ {c} /\ balance_push_set(c, TRUE)
  /\ UNCHANGED <<taskVars, runVars, spliced, splices, online, dying, downs, waiting>>

synchronize_rcu(c) ==
  /\ curr[c] = Cpuhp /\ phase[c] = "deactivating"
  /\ phase' = [phase EXCEPT ![c] = "sync"]
  /\ schedule(c, queue(c), FALSE)
  /\ UNCHANGED <<taskVars, cpuVars, cbVars, waiting>>

\* The wakeups that may have seen c active are over.
grace_period(c) ==
  /\ phase[c] = "sync"
  /\ \A t \in Tasks : st[t] = "waking" /\ cpu[t] = c => is_cpu_allowed(t, c)
  /\ phase' = [phase EXCEPT ![c] = "synced"] /\ runnable' = runnable \cup {c}
  /\ UNCHANGED <<taskVars, cpuVars, curr, push_work, cbVars, waiting>>

\* The rest of sched_cpu_deactivate(); when a deadline reservation needs the
\* CPU, cpuset_cpu_inactive() refuses and the CPU stays.
cpuset_cpu_inactive(c) ==
  /\ curr[c] = Cpuhp /\ phase[c] = "synced"
  /\ \/ /\ phase' = [phase EXCEPT ![c] = "inactive"]
        /\ UNCHANGED <<active, dying, push>>
     \/ /\ Busy /\ phase' = [phase EXCEPT ![c] = "up"]
        /\ balance_push_set(c, FALSE) /\ active' = active \cup {c} /\ dying' = dying \ {c}
  /\ UNCHANGED <<taskVars, runVars, spliced, splices, online, downs, waiting>>

\* The thread sleeps again when the CPU was given back (kernel/cpu.c, external).
cpuhp_thread_sleep(c) ==
  /\ curr[c] = Cpuhp /\ phase[c] = "up"
  /\ schedule(c, queue(c), FALSE)
  /\ UNCHANGED <<taskVars, cpuVars, cbVars, phase, waiting>>

\* The per-CPU kthreads are parked by their own callbacks.
park_threads(c) ==
  /\ curr[c] = Cpuhp /\ phase[c] = "inactive"
  /\ \A t \in Tasks : Kind[t] = "percpu" /\ cpu[t] = c => st[t] = "sleep"
  /\ phase' = [phase EXCEPT ![c] = "parked"]
  /\ UNCHANGED <<taskVars, cpuVars, runVars, cbVars, waiting>>

\* Mutant: a task that sleeps in a migrate_disable() section is overlooked.
quiescent_unpinned(c) == queue(c) = {}

\* rq->nr_running == 1, the thread itself, and no pinned task.
quiescent(c) == queue(c) = {} /\ ~ rq_has_pinned_tasks(c)

\* balance_hotplug_wait(): one turn of rcuwait_wait_event().
balance_hotplug_wait(c) ==
  /\ curr[c] = Cpuhp /\ phase[c] = "parked"
  /\ IF quiescent(c)
     THEN /\ phase' = [phase EXCEPT ![c] = "empty"] /\ waiting' = waiting \ {c}
          /\ UNCHANGED runVars
     ELSE /\ waiting' = waiting \cup {c}
          /\ schedule(c, queue(c), FALSE)
          /\ UNCHANGED phase
  /\ UNCHANGED <<taskVars, cpuVars, cbVars>>

\* The thread is parked and the stopper runs sched_cpu_dying().
sched_cpu_dying(c) ==
  /\ phase[c] = "empty" /\ phase' = [phase EXCEPT ![c] = "dead"]
  /\ online' = online \ {c} /\ runnable' = runnable \ {c}
  /\ curr' = [curr EXCEPT ![c] = Idle]
  /\ UNCHANGED <<taskVars, push_work, cbVars, active, dying, downs, waiting>>

sched_cpu_starting(c) ==
  /\ phase[c] = "dead" /\ phase' = [phase EXCEPT ![c] = "starting"]
  /\ online' = online \cup {c} /\ dying' = dying \ {c}
  /\ UNCHANGED <<taskVars, runVars, cbVars, active, downs, waiting>>

sched_cpu_activate(c) ==
  /\ phase[c] = "starting" /\ phase' = [phase EXCEPT ![c] = "up"]
  /\ balance_push_set(c, FALSE) /\ active' = active \cup {c}
  /\ UNCHANGED <<taskVars, runVars, spliced, splices, online, dying, downs, waiting>>

-----------------------------------------------------------------------------
Step(c) ==
  \/ preempt(c) \/ balance_push_cpu_stop(c) \/ splice_balance_callbacks(c)
  \/ cpu_down(c) \/ sched_cpu_deactivate(c) \/ synchronize_rcu(c) \/ grace_period(c)
  \/ cpuset_cpu_inactive(c) \/ cpuhp_thread_sleep(c) \/ park_threads(c)
  \/ balance_hotplug_wait(c)
  \/ sched_cpu_dying(c) \/ sched_cpu_starting(c) \/ sched_cpu_activate(c)

Next ==
  \/ \E t \in Tasks : \/ ttwu_select(t) \/ ttwu_queue(t) \/ block(t) \/ pull_task(t)
                      \/ migrate_disable(t) \/ migrate_enable(t)
  \/ \E c \in Pluggable : Step(c)
  \/ balance_callbacks

Spec == Init /\ [][Next]_vars

runs(c, next) == preempt(c) /\ curr'[c] = next

PerCpu == {t \in Tasks : Kind[t] = "percpu"}

\* The tick preempts, the stopper and the grace period finish, the hotplug
\* thread and every task that is queued again and again get to run and go on; a
\* task leaves its migrate_disable() section and is woken in it, a per-CPU kthread
\* blocks when it is to be parked, and __sched_setscheduler(), which has preemption
\* off from the splice on, runs the callbacks it took.
Fairness ==
  /\ \A c \in Pluggable :
       /\ WF_vars(preempt(c))
       /\ WF_vars(balance_push_cpu_stop(c) \/ sched_cpu_dying(c) \/ grace_period(c))
       /\ SF_vars(sched_cpu_deactivate(c) \/ synchronize_rcu(c) \/ cpuset_cpu_inactive(c)
                  \/ park_threads(c) \/ balance_hotplug_wait(c))
       /\ SF_vars(runs(c, Cpuhp))
       /\ \A t \in Tasks : SF_vars(runs(c, t))
  /\ \A t \in Tasks : WF_vars(ttwu_queue(t) \/ (t \in pinned /\ ttwu_select(t)))
  /\ \A t \in Tasks \ PerCpu : SF_vars(migrate_enable(t))
  /\ \A t \in PerCpu : SF_vars(block(t))
  /\ WF_vars(balance_callbacks)

FairSpec == Spec /\ Fairness

-----------------------------------------------------------------------------
\* A CPU that is gone has nothing queued, nobody pinned to it and no wakeup on
\* its way ("Dying CPU not properly vacated!", core.c:9246).
Vacated ==
  \A c \in Pluggable : phase[c] = "dead" =>
    \A t \in Tasks : cpu[t] = c => st[t] = "sleep" /\ t \notin pinned

\* From the grace period on, an outgoing CPU that switches to a task that is
\* neither pinned nor a per-CPU kthread has handed it to the stopper: "this CPU
\* will refuse to run any task that is not: migrate_disable() or
\* KTHREAD_IS_PER_CPU, and will actively push those tasks away" (core.c:9113).
RefusesStep ==
  \A c \in Pluggable :
    /\ phase[c] \in {"synced", "inactive", "parked"}
    /\ curr'[c] # curr[c] /\ curr'[c] \in Tasks \ pinned' /\ Kind[curr'[c]] # "percpu"
    => push_work'[c] = curr'[c]

RefusesTasks == [][RefusesStep]_vars

\* The one exception: until a __sched_setscheduler() takes balance_push off the
\* list, every such task is handed over.
RefusesUnspliced == [][splices = 0 => RefusesStep]_vars

\* The hotplug thread waits, the last task has vanished and the CPU is idle, but
\* it switched to the idle task while a __sched_setscheduler() on another CPU had
\* balance_push off the list: nobody has woken the thread.
WakeupMissed(c) ==
  /\ spliced = c /\ curr[c] = Idle /\ quiescent(c)
  /\ c \in waiting \ runnable

\* A CPU on its way down gets there, or is given back: the hotplug thread that
\* waits for the last task to vanish is woken when it has, except when the CPU
\* goes idle in the middle of a splice (balance_push(), core.c:8873-8906, is then
\* not there to call rcuwait_wake_up()).
DownEnds ==
  \A c \in Pluggable :
    phase[c] = "deactivating" ~> phase[c] \in {"dead", "up"} \/ WakeupMissed(c)
=============================================================================
