------------------------------ MODULE Priority ------------------------------
(***************************************************************************)
(* The priority of a task: my_set_process_priority() and its hook in       *)
(* __schedule(), against nice(), setpriority(), sched_setscheduler(),      *)
(* priority inheritance and fork() (Project 2: core.c, fork.c,             *)
(* my_set_process_priority.c).                                             *)
(*                                                                         *)
(* A section under rq->lock is one step.  What a system call reads before  *)
(* it takes the lock is kept in op[a], a being the task that makes the     *)
(* call; a acts while it is some CPU's curr.  p->pi_lock is held across    *)
(* steps only inside rt_mutex_setprio().  SCHED_DEADLINE, SCHED_IDLE (whose *)
(* weight is a constant), permissions and SCHED_FLAG_KEEP_PARAMS are left  *)
(* out; a refused call changes nothing.                                    *)
(***************************************************************************)
EXTENDS Integers

CONSTANTS Tasks, CPUs,
          None,         \* no task, no donor
          Init_task,    \* the task that exists at the start
          NicePrios,    \* NICE_TO_PRIO() of the nice values that are asked for
          Increments,   \* arguments of nice()
          FixedPrios,   \* arguments of my_set_process_priority()
          Resets,       \* values of SCHED_RESET_ON_FORK
          RtPrios,      \* sched_priority values for SCHED_FIFO
          DonorPrios    \* prio of the tasks that wait for an rt_mutex

MAX_RT_PRIO == 100
DEFAULT_PRIO == 120

ASSUME PrioAssumption ==
  /\ Init_task \in Tasks /\ None \notin Tasks \cup Int
  /\ Resets \subseteq BOOLEAN
  /\ NicePrios \subseteq MAX_RT_PRIO..139
  /\ FixedPrios \subseteq Int /\ Increments \subseteq Int
  /\ RtPrios \subseteq 1..99
  /\ DonorPrios \subseteq 0..139

VARIABLES task,         \* the scheduling fields of each task_struct
          alive,        \* tasks that copy_process() has published
          curr,         \* rq->curr
          op,           \* the system call each task is in
          reniced,      \* ghost: tasks given a nice value since their dispatch
          stale         \* ghost: static_prio stored by the hook alone

vars == <<task, alive, curr, op, reniced, stale>>

Policies == {"NORMAL", "FIFO"}
rt_policy(policy) == policy = "FIFO"
fair_policy(policy) == policy = "NORMAL"
rt_prio(prio) == prio < MAX_RT_PRIO
class_of(prio) == IF rt_prio(prio) THEN "rt" ELSE "fair"

\* The nice value is kept as its static priority throughout.
__normal_prio(policy, rt, nice) ==
  IF rt_policy(policy) THEN MAX_RT_PRIO - 1 - rt ELSE nice

\* set_load_weight(): the entry of sched_prio_to_weight[] that se.load is set to.
set_load_weight(static_prio) == static_prio - MAX_RT_PRIO

\* __rt_effective_prio()
effective(donor, prio) == IF donor # None /\ donor < prio THEN donor ELSE prio

\* effective_prio(): a real-time prio, of the task or of its donor, is kept.
effective_prio(prio, normal) == IF rt_prio(prio) THEN prio ELSE normal

\* __setscheduler_params(): the nice value counts for a fair policy only.
__setscheduler_params(t, policy, rt, nice) ==
  LET static == IF fair_policy(policy) THEN nice ELSE t.static_prio IN
  [t EXCEPT !.policy = policy, !.static_prio = static, !.rt_priority = rt,
            !.normal_prio = __normal_prio(policy, rt, static),
            !.load = set_load_weight(static)]

valid_fixed(x) == x \in 101..139

Idle == [pc |-> "user"]
running(a) == \E c \in CPUs : curr[c] = a
at(a, l) == a \in alive /\ running(a) /\ op[a].pc = l
pi_lock_free(p) == \A a \in Tasks : ~(op[a].pc = "setprio" /\ op[a].t = p)
return(a) == op' = [op EXCEPT ![a] = Idle]

new_task == [policy |-> "NORMAL", static_prio |-> DEFAULT_PRIO,
             normal_prio |-> DEFAULT_PRIO, prio |-> DEFAULT_PRIO,
             rt_priority |-> 0, load |-> set_load_weight(DEFAULT_PRIO),
             class |-> "fair", pi_top_task |-> None, reset_on_fork |-> FALSE,
             my_fixed_priority |-> 0]

Init ==
  /\ task = [p \in Tasks |-> new_task]
  /\ alive = {Init_task}
  /\ curr = [c \in CPUs |-> None]
  /\ op = [p \in Tasks |-> Idle]
  /\ reniced = {}
  /\ stale = {}

-----------------------------------------------------------------------------
(* my_set_process_priority() and __schedule().                             *)

\* Up to the call of schedule(); an argument out of range returns 0.
my_set_process_priority(a, x) ==
  /\ at(a, "user")
  /\ valid_fixed(x)
  /\ task' = [task EXCEPT ![a].my_fixed_priority = x]
  /\ op' = [op EXCEPT ![a] = [pc |-> "resched"]]
  /\ UNCHANGED <<alive, curr, reniced, stale>>

\* Mutant: the hook inside if (prev != next).
__schedule_switch_only(c, next) ==
  LET prev == curr[c]
      hook == /\ next # None /\ next # prev
              /\ valid_fixed(task[next].my_fixed_priority)
  IN
  /\ next \in alive \cup {None}
  /\ next # None => \A d \in CPUs \ {c} : curr[d] # next
  /\ prev # None => op[prev].pc # "setprio"
  /\ curr' = [curr EXCEPT ![c] = next]
  /\ op' = IF prev # None /\ op[prev].pc = "resched"
           THEN [op EXCEPT ![prev] = Idle] ELSE op
  /\ task' = IF hook THEN [task EXCEPT ![next].static_prio =
                             task[next].my_fixed_priority] ELSE task
  /\ stale' = IF task' # task THEN stale \cup {next} ELSE stale
  /\ reniced' = reniced \ {next}
  /\ UNCHANGED alive

\* __schedule() on c from pick_next_task() on, next on c's queue: the hook comes
\* before prev != next is looked at.  A task in rt_mutex_setprio() has
\* interrupts off.
__schedule(c, next) ==
  LET prev == curr[c]
      hook == next # None /\ task[next].static_prio # 0
                          /\ valid_fixed(task[next].my_fixed_priority)
  IN
  /\ next \in alive \cup {None}
  /\ next # None => \A d \in CPUs \ {c} : curr[d] # next
  /\ prev # None => op[prev].pc # "setprio"
  /\ curr' = [curr EXCEPT ![c] = next]
  /\ op' = IF prev # None /\ op[prev].pc = "resched"
           THEN [op EXCEPT ![prev] = Idle] ELSE op
  /\ task' = IF hook THEN [task EXCEPT ![next].static_prio =
                             task[next].my_fixed_priority] ELSE task
  /\ stale' = IF task' # task THEN stale \cup {next} ELSE stale
  /\ reniced' = reniced \ {next}
  /\ UNCHANGED alive

-----------------------------------------------------------------------------
(* nice(), setpriority() and set_user_nice().                              *)

\* sys_nice() computes its new value from task_nice(current).
nice(a, increment) ==
  /\ at(a, "user")
  /\ LET n == task[a].static_prio + increment IN
     op' = [op EXCEPT ![a] =
              [pc |-> "set_user_nice", t |-> a,
               nice |-> IF n < 100 THEN 100 ELSE IF n > 139 THEN 139 ELSE n]]
  /\ UNCHANGED <<task, alive, curr, reniced, stale>>

\* sys_setpriority() (external) passes the value it was given.
setpriority(a, p, n) ==
  /\ at(a, "user") /\ p \in alive
  /\ op' = [op EXCEPT ![a] = [pc |-> "set_user_nice", t |-> p, nice |-> n]]
  /\ UNCHANGED <<task, alive, curr, reniced, stale>>

\* The early return of set_user_nice(), before any lock.
set_user_nice_check(a) ==
  /\ at(a, "set_user_nice")
  /\ IF task[op[a].t].static_prio = op[a].nice
     THEN return(a)
     ELSE op' = [op EXCEPT ![a].pc = "nice_locked"]
  /\ UNCHANGED <<task, alive, curr, reniced, stale>>

\* Mutant: no set_load_weight().
set_user_nice_unweighted(a) ==
  LET p == op[a].t IN
  /\ at(a, "nice_locked") /\ pi_lock_free(p)
  /\ task' = [task EXCEPT ![p].static_prio = op[a].nice,
                          ![p].normal_prio = op[a].nice,
                          ![p].prio = op[a].nice]
  /\ stale' = stale \ {p}
  /\ reniced' = reniced \cup {p}
  /\ return(a)
  /\ UNCHANGED <<alive, curr>>

\* Its section under task_rq_lock().
set_user_nice(a) ==
  LET p == op[a].t
      n == op[a].nice
      policy == task[p].policy IN
  /\ at(a, "nice_locked") /\ pi_lock_free(p)
  /\ IF rt_policy(policy)
     THEN task' = [task EXCEPT ![p].static_prio = n] /\ UNCHANGED stale
     ELSE /\ task' = [task EXCEPT
               ![p].static_prio = n,
               ![p].load = set_load_weight(n),
               ![p].normal_prio = __normal_prio(policy, 0, n),
               ![p].prio = effective_prio(@, n)]
          /\ stale' = stale \ {p}
  /\ reniced' = reniced \cup {p}
  /\ return(a)
  /\ UNCHANGED <<alive, curr>>

-----------------------------------------------------------------------------
(* sched_setscheduler() and sched_setparam().                              *)

\* _sched_setscheduler() fills in sched_nice from p->static_prio;
\* sched_setparam() leaves the policy to __sched_setscheduler().
_sched_setscheduler(a, p, policy, rt, reset) ==
  /\ at(a, "user") /\ p \in alive
  /\ op' = [op EXCEPT ![a] =
              [pc |-> "recheck", t |-> p, policy |-> policy, rt |-> rt,
               nice |-> task[p].static_prio, reset |-> reset, old |-> FALSE]]
  /\ UNCHANGED <<task, alive, curr, reniced, stale>>

\* recheck: the policy and reset_on_fork of SETPARAM_POLICY are read without the
\* lock; then the arguments are validated.
__sched_setscheduler_recheck(a) ==
  LET p == op[a].t
      keep == op[a].policy = "SETPARAM"
      policy == IF keep THEN task[p].policy ELSE op[a].policy IN
  /\ at(a, "recheck")
  /\ IF rt_policy(policy) # (op[a].rt # 0)
     THEN return(a)
     ELSE op' = [op EXCEPT ![a].pc = "sched_locked", ![a].policy = policy,
                           ![a].old = keep,
                           ![a].reset = IF keep THEN task[p].reset_on_fork ELSE @]
  /\ UNCHANGED <<task, alive, curr, reniced, stale>>

\* Mutant: only rq->lock is taken, not p->pi_lock.
__sched_setscheduler_rq_lock(a) ==
  LET p == op[a].t
      normal == __normal_prio(op[a].policy, op[a].rt, op[a].nice)
      prio == effective(task[p].pi_top_task, normal) IN
  /\ at(a, "sched_locked")
  /\ task' = [task EXCEPT ![p] = [@ EXCEPT
                !.policy = op[a].policy, !.static_prio = op[a].nice,
                !.rt_priority = op[a].rt, !.normal_prio = normal,
                !.load = set_load_weight(op[a].nice),
                !.prio = prio, !.class = class_of(prio)]]
  /\ stale' = stale \ {p}
  /\ return(a)
  /\ UNCHANGED <<alive, curr, reniced>>

\* The section under task_rq_lock(): __setscheduler_params() and
\* __setscheduler_prio().
__sched_setscheduler(a) ==
  LET p == op[a].t
      t == task[p]
      policy == op[a].policy
      new == __setscheduler_params(t, policy, op[a].rt, op[a].nice)
      prio == effective(t.pi_top_task, new.normal_prio) IN
  /\ at(a, "sched_locked") /\ pi_lock_free(p)
  /\ \/ /\ policy = t.policy
        /\ fair_policy(policy) => op[a].nice = t.static_prio
        /\ rt_policy(policy) => op[a].rt = t.rt_priority
        /\ task' = [task EXCEPT ![p].reset_on_fork = op[a].reset]
        /\ return(a)
        /\ UNCHANGED <<reniced, stale>>
     \/ /\ \/ policy # t.policy
           \/ fair_policy(policy) /\ op[a].nice # t.static_prio
           \/ rt_policy(policy) /\ op[a].rt # t.rt_priority
        /\ IF op[a].old /\ policy # t.policy
           THEN /\ op' = [op EXCEPT ![a].pc = "recheck", ![a].policy = "SETPARAM"]
                /\ UNCHANGED <<task, reniced, stale>>
           ELSE /\ task' = [task EXCEPT ![p] = [new EXCEPT
                     !.prio = prio, !.class = class_of(prio),
                     !.reset_on_fork = op[a].reset]]
                /\ reniced' = IF fair_policy(policy) THEN reniced \cup {p}
                                                     ELSE reniced
                /\ stale' = stale \ {p}
                /\ return(a)
  /\ UNCHANGED <<alive, curr>>

-----------------------------------------------------------------------------
(* Priority inheritance.                                                   *)

\* The rt_mutex code holds p->pi_lock; rt_mutex_setprio() computes the new prio
\* from p->normal_prio before it takes rq->lock.
rt_mutex_setprio_entry(a, p, donor) ==
  LET prio == effective(donor, task[p].normal_prio) IN
  /\ at(a, "user") /\ p \in alive /\ pi_lock_free(p)
  /\ ~(task[p].pi_top_task = donor /\ prio = task[p].prio)
  /\ op' = [op EXCEPT ![a] = [pc |-> "setprio", t |-> p, donor |-> donor,
                              prio |-> prio]]
  /\ UNCHANGED <<task, alive, curr, reniced, stale>>

rt_mutex_setprio(a) ==
  LET p == op[a].t IN
  /\ at(a, "setprio")
  /\ task' = [task EXCEPT ![p].pi_top_task = op[a].donor,
                          ![p].prio = op[a].prio,
                          ![p].class = IF op[a].prio = task[p].prio THEN @
                                       ELSE class_of(op[a].prio)]
  /\ return(a)
  /\ UNCHANGED <<alive, curr, reniced, stale>>

-----------------------------------------------------------------------------
(* fork().                                                                 *)

\* dup_task_struct() copies the parent (in one step), rt_mutex_init_task()
\* forgets the donor.
dup_task_struct(a, p) ==
  /\ at(a, "user") /\ p \in Tasks \ alive
  /\ \A b \in Tasks : op[b].pc \in {"forking", "forked"} => op[b].t # p
  /\ task' = [task EXCEPT ![p] = [task[a] EXCEPT !.pi_top_task = None]]
  /\ op' = [op EXCEPT ![a] = [pc |-> "forking", t |-> p]]
  /\ stale' = IF a \in stale THEN stale \cup {p} ELSE stale
  /\ UNCHANGED <<alive, curr, reniced>>

\* Mutant: reset_on_fork leaves p->normal_prio as it was copied.
sched_fork_normal_prio_kept(a) ==
  LET p == op[a].t IN
  /\ at(a, "forking")
  /\ task' = [task EXCEPT ![p] =
       IF @.reset_on_fork
       THEN [@ EXCEPT !.policy = "NORMAL", !.static_prio = DEFAULT_PRIO,
                      !.rt_priority = 0, !.prio = DEFAULT_PRIO, !.class = "fair",
                      !.load = set_load_weight(DEFAULT_PRIO),
                      !.reset_on_fork = FALSE]
       ELSE [@ EXCEPT !.prio = task[a].normal_prio,
                      !.class = class_of(task[a].normal_prio)]]
  /\ op' = [op EXCEPT ![a].pc = "forked"]
  /\ UNCHANGED <<alive, curr, reniced, stale>>

\* sched_fork(): the child starts with the normal priority of its parent.
sched_fork(a) ==
  LET p == op[a].t
      t == task[p]
      static == IF rt_policy(t.policy) \/ t.static_prio < DEFAULT_PRIO
                THEN DEFAULT_PRIO ELSE t.static_prio
      policy == IF rt_policy(t.policy) THEN "NORMAL" ELSE t.policy
      prio == IF t.reset_on_fork THEN static ELSE task[a].normal_prio IN
  /\ at(a, "forking")
  /\ task' = [task EXCEPT ![p] =
       IF t.reset_on_fork
       THEN [t EXCEPT !.policy = policy, !.static_prio = static,
                      !.rt_priority = IF rt_policy(t.policy) THEN 0 ELSE @,
                      !.normal_prio = static, !.prio = prio,
                      !.load = set_load_weight(static),
                      !.class = class_of(prio), !.reset_on_fork = FALSE]
       ELSE [t EXCEPT !.prio = prio, !.class = class_of(prio)]]
  /\ stale' = IF t.reset_on_fork THEN stale \ {p} ELSE stale
  /\ op' = [op EXCEPT ![a].pc = "forked"]
  /\ UNCHANGED <<alive, curr, reniced>>

\* The end of copy_process(), and wake_up_new_task().
copy_process(a) ==
  /\ at(a, "forked")
  /\ task' = [task EXCEPT ![op[a].t].my_fixed_priority = 0]
  /\ alive' = alive \cup {op[a].t}
  /\ return(a)
  /\ UNCHANGED <<curr, reniced, stale>>

Next ==
  \/ \E c \in CPUs, next \in Tasks \cup {None} : __schedule(c, next)
  \/ \E a \in Tasks :
       \/ \E x \in FixedPrios : my_set_process_priority(a, x)
       \/ \E increment \in Increments : nice(a, increment)
       \/ \E p \in Tasks, n \in NicePrios : setpriority(a, p, n)
       \/ set_user_nice_check(a) \/ set_user_nice(a)
       \/ \E p \in Tasks, policy \in Policies \cup {"SETPARAM"},
             rt \in RtPrios \cup {0}, reset \in Resets :
            _sched_setscheduler(a, p, policy, rt, reset)
       \/ __sched_setscheduler_recheck(a) \/ __sched_setscheduler(a)
       \/ \E p \in Tasks, donor \in DonorPrios \cup {None} :
            rt_mutex_setprio_entry(a, p, donor)
       \/ rt_mutex_setprio(a)
       \/ \E p \in Tasks : dup_task_struct(a, p)
       \/ sched_fork(a) \/ copy_process(a)

Spec == Init /\ [][Next]_vars
-----------------------------------------------------------------------------
(* Properties.                                                             *)

task_struct == [policy : Policies, static_prio : 100..139,
                normal_prio : 0..139, prio : 0..139,
                rt_priority : 0..99, load : 0..39,
                class : {"rt", "fair"}, pi_top_task : 0..139 \cup {None},
                reset_on_fork : BOOLEAN, my_fixed_priority : {0} \cup 101..139]

TypeOK ==
  /\ task \in [Tasks -> task_struct]
  /\ alive \subseteq Tasks /\ reniced \subseteq Tasks /\ stale \subseteq Tasks
  /\ curr \in [CPUs -> alive \cup {None}]
  /\ \A a \in Tasks : op[a].pc \in {"user", "resched"} \/ op[a].t \in Tasks

\* What the hook promises: a task with a fixed priority runs with it as its
\* static_prio from every dispatch on, the dispatch that my_set_process_priority()
\* forces included, until somebody gives it a nice value: a sched_setscheduler() to
\* SCHED_NORMAL, which stores the one it read before the lock, counts.
FixedUnlessReniced ==
  \A p \in alive \ reniced :
    /\ valid_fixed(task[p].my_fixed_priority)
    /\ running(p) /\ op[p].pc # "resched"
    => task[p].static_prio = task[p].my_fixed_priority

\* Whoever changes nice value, policy or RT priority keeps the load weight and
\* normal_prio in step with them; only the hook leaves them behind, and the next
\* call that gets past the early return of set_user_nice() or
\* __sched_setscheduler() repairs that.
LoadInStep ==
  \A p \in alive \ stale :
    LET t == task[p] IN
    /\ t.normal_prio = __normal_prio(t.policy, t.rt_priority, t.static_prio)
    /\ fair_policy(t.policy) => t.load = set_load_weight(t.static_prio)

\* A task boosted to a real-time priority keeps the boost through every change
\* of its own parameters, although rt_mutex_setprio() uses a normal_prio that it
\* read before rq->lock.
BoostKept ==
  \A p \in alive :
    LET t == task[p] IN
    t.pi_top_task # None /\ rt_prio(t.pi_top_task) =>
      t.prio = effective(t.pi_top_task, t.normal_prio)
=============================================================================
