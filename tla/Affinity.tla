------------------------------ MODULE Affinity ------------------------------
(***************************************************************************)
(* Changing the CPUs a task may run on (core.c): set_cpus_allowed_ptr() by  *)
(* several callers at once, among them the task itself, with               *)
(* affine_move_task(), the stopper's migration_cpu_stop() and              *)
(* push_cpu_stop(), migrate_disable(), and everything else that moves the  *)
(* task: wakeups, load balancing, sched_exec().                            *)
(*                                                                         *)
(* There is one task p.  The section of a caller under p->pi_lock and      *)
(* rq->lock is one step.  pend[q] is the struct set_affinity_pending on    *)
(* the stack of the caller q.                                              *)
(***************************************************************************)
EXTENDS Integers, FiniteSets

CONSTANTS CPUs, Callers, Self, NULL,
          Nesting    \* bound on the nesting of migrate_disable()

ASSUME CallersAssumption ==
  /\ Self \in Callers /\ NULL \notin Callers \cup CPUs
  /\ IsFiniteSet(Callers) /\ Nesting \in Nat

VARIABLES loc,       \* run, queue, block, wake (on a wake list)
          cpu,       \* task_cpu(p)
          mask,      \* p->cpus_mask
          ptr,       \* p->cpus_ptr: NULL for &p->cpus_mask, or one CPU
          disabled,  \* p->migration_disabled
          enabling,  \* where p is in migrate_enable()
          en_pend,   \* its pending
          mdf_push,  \* p->migration_flags & MDF_PUSH
          nr_pinned, \* rq->nr_pinned
          push_busy, \* the CPUs with rq->push_busy, push_work queued
          migration_pending,
          pend,      \* the requests on the callers' stacks
          pc, use,   \* per caller: where it is, and its pending
          kick_cpu,  \* per caller: where it will queue the stop work
          work,      \* per request: the CPU its stop_work is queued on
          stopper,   \* per CPU: what the stopper has left to do, and for whom
          exec       \* sched_exec(): where its stop work is, and dest_cpu

taskVars == <<ptr, disabled, enabling, en_pend, mdf_push, nr_pinned, exec>>
callVars == <<pc, use, kick_cpu>>
vars == <<loc, cpu, mask, taskVars, push_busy, migration_pending, pend, callVars,
          work, stopper>>

Request == [refs : 0..Cardinality(Callers), stop_pending : BOOLEAN,
            done : BOOLEAN, dest : CPUs]

TypeOK ==
  /\ loc \in {"run", "queue", "block", "wake"}
  /\ cpu \in CPUs
  /\ mask \in (SUBSET CPUs) \ {{}}
  /\ ptr \in CPUs \cup {NULL}
  /\ disabled \in 0..Nesting
  /\ enabling \in {"no", "stop", "complete", "clear"}
  /\ en_pend \in Callers \cup {NULL}
  /\ mdf_push \in BOOLEAN
  /\ nr_pinned \in [CPUs -> 0..1]
  /\ push_busy \subseteq CPUs
  /\ migration_pending \in Callers \cup {NULL}
  /\ pend \in [Callers -> Request]
  /\ pc \in [Callers -> {"idle", "stop", "complete", "complete_return", "wait",
                         "drain", "exec"}]
  /\ use \in [Callers -> Callers \cup {NULL}]
  /\ kick_cpu \in [Callers -> CPUs \cup {NULL}]
  /\ work \in [Callers -> CPUs \cup {NULL}]
  /\ stopper \in [CPUs -> [todo : {"idle", "complete", "chase"},
                           req : Callers \cup {NULL}]]
  /\ exec \in [at : CPUs \cup {NULL}, dest : CPUs \cup {NULL}]

NoExec == [at |-> NULL, dest |-> NULL]
Idle == [todo |-> "idle", req |-> NULL]

Init ==
  /\ loc = "run"
  /\ cpu \in CPUs
  /\ mask = CPUs
  /\ ptr = NULL
  /\ disabled = 0
  /\ enabling = "no"
  /\ en_pend = NULL
  /\ mdf_push = FALSE
  /\ nr_pinned = [c \in CPUs |-> 0]
  /\ push_busy = {}
  /\ migration_pending = NULL
  /\ pend = [q \in Callers |-> [refs |-> 0, stop_pending |-> FALSE,
                                done |-> FALSE, dest |-> cpu]]
  /\ pc = [q \in Callers |-> "idle"]
  /\ use = [q \in Callers |-> NULL]
  /\ kick_cpu = [q \in Callers |-> NULL]
  /\ work = [q \in Callers |-> NULL]
  /\ stopper = [c \in CPUs |-> Idle]
  /\ exec = NoExec

is_cpu_allowed(c) == IF ptr = NULL THEN c \in mask ELSE c = ptr

\* A caller other than p runs on some other CPU; p calls when it runs.
executes(q) == q # Self \/ (loc = "run" /\ enabling = "no")

goto(q, l) == pc' = [pc EXCEPT ![q] = l]

-----------------------------------------------------------------------------
(* p is scheduled.                                                         *)

\* What p waits for in wait_for_completion(), wait_var_event(), stop_one_cpu().
sleeps ==
  CASE pc[Self] = "wait" -> ~pend[use[Self]].done
    [] pc[Self] = "drain" -> pend[Self].refs # 0
    [] pc[Self] = "exec" -> exec # NoExec
    [] OTHER -> TRUE

\* __schedule(): preempted or blocked; migrate_disable_switch().
schedule ==
  /\ loc = "run" /\ enabling = "no"
  /\ \/ loc' = "queue"
     \/ /\ pc[Self] \in {"idle", "wait", "drain", "exec"} /\ sleeps
        /\ loc' = "block"
  /\ ptr' = IF disabled > 0 /\ ptr = NULL THEN cpu ELSE ptr
  /\ UNCHANGED <<cpu, mask, disabled, enabling, en_pend, mdf_push, nr_pinned,
                 exec, push_busy, migration_pending, pend, callVars, work,
                 stopper>>

\* The stopper of c has something to do: it runs before every other task.
stopping(c) ==
  \/ \E q \in Callers : work[q] = c
  \/ stopper[c] # Idle
  \/ exec.at = c
  \/ c \in push_busy

pick_next_task ==
  /\ loc = "queue" /\ ~stopping(cpu)
  /\ loc' = "run"
  /\ UNCHANGED <<cpu, mask, taskVars, push_busy, migration_pending, pend,
                 callVars, work, stopper>>

\* try_to_wake_up() with select_task_rq(): on the queue, or on the wake list.
try_to_wake_up ==
  /\ loc = "block"
  /\ pc[Self] = "idle" \/ ~sleeps
  /\ loc' \in {"queue", "wake"}
  /\ \E c \in CPUs : is_cpu_allowed(c) /\ cpu' = c
  /\ UNCHANGED <<mask, taskVars, push_busy, migration_pending, pend, callVars,
                 work, stopper>>

sched_ttwu_pending ==
  /\ loc = "wake"
  /\ loc' = "queue"
  /\ UNCHANGED <<cpu, mask, taskVars, push_busy, migration_pending, pend,
                 callVars, work, stopper>>

\* can_migrate_task(), detach_task(), attach_task() (fair.c).
load_balance ==
  /\ loc = "queue"
  /\ \E c \in CPUs \ {cpu} : is_cpu_allowed(c) /\ cpu' = c
  /\ UNCHANGED <<loc, mask, taskVars, push_busy, migration_pending, pend,
                 callVars, work, stopper>>

-----------------------------------------------------------------------------
(* migrate_disable(), migrate_enable().                                    *)

migrate_disable ==
  /\ loc = "run" /\ enabling = "no" /\ pc[Self] = "idle"
  /\ disabled < Nesting
  /\ disabled' = disabled + 1
  /\ nr_pinned' = IF disabled = 0 THEN [nr_pinned EXCEPT ![cpu] = @ + 1]
                  ELSE nr_pinned
  /\ UNCHANGED <<loc, cpu, mask, ptr, enabling, en_pend, mdf_push, exec,
                 push_busy, migration_pending, pend, callVars, work, stopper>>

\* affine_move_task() for SCA_MIGRATE_ENABLE, p on a CPU of its mask ...
enable_allowed ==
  /\ cpu \in mask
  /\ push_busy' = IF mdf_push THEN push_busy \cup {cpu} ELSE push_busy
  /\ IF migration_pending # NULL /\ ~pend[migration_pending].stop_pending
     THEN /\ enabling' = "complete"
          /\ en_pend' = migration_pending
          /\ migration_pending' = NULL
     ELSE enabling' = "clear" /\ UNCHANGED <<en_pend, migration_pending>>
  /\ UNCHANGED <<pend, mdf_push>>

\* ... and not: the stopper will move it.  Without a request, WARN and -EINVAL.
enable_move ==
  /\ cpu \notin mask
  /\ IF migration_pending = NULL
     THEN enabling' = "clear" /\ UNCHANGED <<en_pend, pend, mdf_push>>
     ELSE /\ mdf_push' = FALSE
          /\ pend' = [pend EXCEPT ![migration_pending].stop_pending = TRUE]
          /\ IF pend[migration_pending].stop_pending
             THEN enabling' = "clear" /\ UNCHANGED en_pend
             ELSE enabling' = "stop" /\ en_pend' = migration_pending
  /\ UNCHANGED <<push_busy, migration_pending>>

\* Preemption is off from here to the end.
migrate_enable ==
  /\ loc = "run" /\ enabling = "no" /\ pc[Self] = "idle"
  /\ \/ /\ disabled > 1
        /\ disabled' = disabled - 1
        /\ UNCHANGED <<ptr, enabling, en_pend, mdf_push, push_busy,
                       migration_pending, pend>>
     \/ /\ disabled = 1 /\ ptr = NULL
        /\ enabling' = "clear"
        /\ UNCHANGED <<ptr, disabled, en_pend, mdf_push, push_busy,
                       migration_pending, pend>>
     \/ /\ disabled = 1 /\ ptr # NULL
        /\ ptr' = NULL
        /\ enable_allowed \/ enable_move
        /\ UNCHANGED disabled
  /\ UNCHANGED <<loc, cpu, mask, nr_pinned, exec, callVars, work, stopper>>

\* stop_one_cpu_nowait() or complete_all(), with the locks released.
migrate_enable_unlocked ==
  /\ \/ enabling = "stop" /\ work' = [work EXCEPT ![en_pend] = cpu]
                          /\ UNCHANGED pend
     \/ enabling = "complete" /\ pend' = [pend EXCEPT ![en_pend].done = TRUE]
                              /\ UNCHANGED work
  /\ enabling' = "clear"
  /\ en_pend' = NULL
  /\ UNCHANGED <<loc, cpu, mask, ptr, disabled, mdf_push, nr_pinned, exec,
                 push_busy, migration_pending, callVars, stopper>>

\* preempt_enable() lets the stopper in, if its wakeup has reached this CPU.
migrate_enable_clear ==
  /\ enabling = "clear"
  /\ enabling' = "no"
  /\ loc' \in {"run"} \cup (IF stopping(cpu) THEN {"queue"} ELSE {})
  /\ disabled' = 0
  /\ nr_pinned' = [nr_pinned EXCEPT ![cpu] = @ - 1]
  /\ UNCHANGED <<cpu, mask, ptr, en_pend, mdf_push, exec, push_busy,
                 migration_pending, pend, callVars, work, stopper>>

-----------------------------------------------------------------------------
(* __set_cpus_allowed_ptr(p, new), called by q; affine_move_task().        *)

\* "Can the task run on the task's current CPU?  If so, we're done": nobody waits.
already_allowed(q) ==
  /\ IF migration_pending # NULL /\ ~pend[migration_pending].stop_pending
     THEN /\ goto(q, "complete_return")
          /\ use' = [use EXCEPT ![q] = migration_pending]
          /\ migration_pending' = NULL
     ELSE UNCHANGED <<pc, use, migration_pending>>
  /\ UNCHANGED <<cpu, pend, kick_cpu>>

\* Install the request, or join the one that is there.
install(q, dest) ==
  IF migration_pending = NULL
  THEN [pend EXCEPT ![q] = [refs |-> 1, stop_pending |-> FALSE, done |-> FALSE,
                            dest |-> dest]]
  ELSE [pend EXCEPT ![migration_pending].refs = @ + 1,
                    ![migration_pending].dest = dest]

\* Mutant: every caller queues the stop work.
affine_move_task_restop(q, dest) ==
  LET r == IF migration_pending = NULL THEN q ELSE migration_pending
      new == install(q, dest) IN
  /\ use' = [use EXCEPT ![q] = r]
  /\ IF loc \in {"run", "wake"}
     THEN /\ pend' = [new EXCEPT ![r].stop_pending = TRUE]
          /\ migration_pending' = r
          /\ goto(q, "stop") /\ kick_cpu' = [kick_cpu EXCEPT ![q] = cpu]
          /\ UNCHANGED cpu
     ELSE /\ pend' = new
          /\ cpu' = IF disabled = 0 /\ loc = "queue" THEN dest ELSE cpu
          /\ IF disabled = 0 /\ ~new[r].stop_pending
             THEN migration_pending' = NULL /\ goto(q, "complete")
             ELSE migration_pending' = r /\ goto(q, "wait")
          /\ UNCHANGED kick_cpu

\* p is running or on a wake list: leave it to the stopper.  Otherwise move it
\* here, unless it has migration disabled.
affine_move_task(q, dest) ==
  LET r == IF migration_pending = NULL THEN q ELSE migration_pending
      new == install(q, dest) IN
  /\ use' = [use EXCEPT ![q] = r]
  /\ IF loc \in {"run", "wake"}
     THEN /\ pend' = [new EXCEPT ![r].stop_pending = TRUE]
          /\ migration_pending' = r
          /\ IF new[r].stop_pending
             THEN goto(q, "wait") /\ UNCHANGED kick_cpu
             ELSE goto(q, "stop") /\ kick_cpu' = [kick_cpu EXCEPT ![q] = cpu]
          /\ UNCHANGED cpu
     ELSE /\ pend' = new
          /\ cpu' = IF disabled = 0 /\ loc = "queue" THEN dest ELSE cpu
          /\ IF disabled = 0 /\ ~new[r].stop_pending
             THEN migration_pending' = NULL /\ goto(q, "complete")
             ELSE migration_pending' = r /\ goto(q, "wait")
          /\ UNCHANGED kick_cpu

\* set_cpus_allowed_common() by way of __do_set_cpus_allowed(), which takes p off its
\* runqueue and puts it back under rq->lock.
__do_set_cpus_allowed(new) == mask' = new

\* The same mask again, and -EBUSY for p itself with migration disabled, change
\* nothing.
set_cpus_allowed_ptr(q) ==
  /\ pc[q] = "idle" /\ executes(q)
  /\ \E new \in (SUBSET CPUs) \ {{}, mask} :
       /\ ~(q = Self /\ disabled > 0 /\ cpu \notin new)
       /\ __do_set_cpus_allowed(new)
       /\ IF cpu \in new THEN already_allowed(q)
          ELSE \E dest \in new : affine_move_task(q, dest)
  /\ UNCHANGED <<loc, taskVars, push_busy, work, stopper>>

\* The locks are released: stop_one_cpu_nowait() or complete_all().
set_cpus_allowed_ptr_unlocked(q) ==
  /\ executes(q)
  /\ \/ /\ pc[q] = "stop"
        /\ work' = [work EXCEPT ![use[q]] = kick_cpu[q]]
        /\ goto(q, "wait")
        /\ UNCHANGED <<pend, use>>
     \/ /\ pc[q] = "complete"
        /\ pend' = [pend EXCEPT ![use[q]].done = TRUE]
        /\ goto(q, "wait")
        /\ UNCHANGED <<work, use>>
     \/ /\ pc[q] = "complete_return"
        /\ pend' = [pend EXCEPT ![use[q]].done = TRUE]
        /\ goto(q, "idle")
        /\ use' = [use EXCEPT ![q] = NULL]
        /\ UNCHANGED work
  /\ kick_cpu' = [kick_cpu EXCEPT ![q] = NULL]
  /\ UNCHANGED <<loc, cpu, mask, taskVars, push_busy, migration_pending, stopper>>

\* wait_for_completion() returns; drop the reference.
wait_for_completion(q) ==
  /\ pc[q] = "wait" /\ executes(q) /\ pend[use[q]].done
  /\ pend' = [pend EXCEPT ![use[q]].refs = @ - 1]
  /\ use' = [use EXCEPT ![q] = NULL]
  /\ goto(q, "drain")
  /\ UNCHANGED <<loc, cpu, mask, taskVars, push_busy, migration_pending, kick_cpu,
                 work, stopper>>

\* Mutant: the owner does not wait for the callers that share its request.
wait_var_event_skipped(q) ==
  /\ pc[q] = "drain" /\ executes(q)
  /\ goto(q, "idle")
  /\ UNCHANGED <<loc, cpu, mask, taskVars, push_busy, migration_pending, pend, use,
                 kick_cpu, work, stopper>>

\* The owner of a request waits until all have seen the completion.
wait_var_event(q) ==
  /\ pc[q] = "drain" /\ executes(q) /\ pend[q].refs = 0
  /\ goto(q, "idle")
  /\ UNCHANGED <<loc, cpu, mask, taskVars, push_busy, migration_pending, pend, use,
                 kick_cpu, work, stopper>>

-----------------------------------------------------------------------------
(* The stoppers.                                                           *)

\* The stopper of c runs a work: it is idle, and p is not on its CPU.
may_stop(c) == stopper[c] = Idle /\ ~(loc = "run" /\ cpu = c)

\* flush_smp_call_function_from_idle(): the wake list of c.
flushed(c) == IF loc = "wake" /\ cpu = c THEN "queue" ELSE loc

\* __migrate_task(): the mask may have changed again.
__migrate_task(dest) ==
  cpu' = IF loc' = "queue" /\ is_cpu_allowed(dest) THEN dest ELSE cpu

\* Mutant: go after p even when it is where it may be.
stop_elsewhere_chase(c, q) ==
  /\ cpu # c
  /\ stopper' = [stopper EXCEPT ![c] = [todo |-> "chase", req |-> q]]
  /\ UNCHANGED <<cpu, pend, migration_pending>>

\* p is no longer on this runqueue: done if it is allowed where it is, else after
\* it.
stop_elsewhere(c, q) ==
  /\ cpu # c
  /\ IF is_cpu_allowed(cpu)
     THEN /\ pend' = [pend EXCEPT ![q].stop_pending = FALSE]
          /\ migration_pending' = NULL
          /\ stopper' = [stopper EXCEPT ![c] = [todo |-> "complete", req |-> q]]
     ELSE /\ stopper' = [stopper EXCEPT ![c] = [todo |-> "chase", req |-> q]]
          /\ UNCHANGED <<pend, migration_pending>>
  /\ UNCHANGED cpu

\* Mutant: migration_disabled is not looked at.
stop_here_forced(c, q) ==
  /\ cpu = c
  /\ pend' = [pend EXCEPT ![q].stop_pending = FALSE]
  /\ migration_pending' = NULL
  /\ stopper' = [stopper EXCEPT ![c] = [todo |-> "complete", req |-> q]]
  /\ IF cpu \in mask THEN UNCHANGED cpu
     ELSE cpu' = IF loc' = "queue" THEN pend[q].dest ELSE cpu

\* p is on this runqueue: bail out if migration is disabled.
stop_here(c, q) ==
  /\ cpu = c
  /\ pend' = [pend EXCEPT ![q].stop_pending = FALSE]
  /\ IF disabled > 0 THEN UNCHANGED <<cpu, migration_pending, stopper>>
     ELSE /\ migration_pending' = NULL
          /\ stopper' = [stopper EXCEPT ![c] = [todo |-> "complete", req |-> q]]
          /\ IF cpu \in mask THEN UNCHANGED cpu ELSE __migrate_task(pend[q].dest)

migration_cpu_stop(c, q) ==
  /\ work[q] = c /\ may_stop(c)
  /\ work' = [work EXCEPT ![q] = NULL]
  /\ loc' = flushed(c)
  /\ stop_here(c, q) \/ stop_elsewhere(c, q)
  /\ UNCHANGED <<mask, taskVars, push_busy, callVars>>

\* Its end, with the locks released: complete_all(), or queue the work again on
\* the CPU that p is on now.
migration_cpu_stop_unlocked(c) ==
  LET q == stopper[c].req IN
  /\ \/ stopper[c].todo = "complete" /\ pend' = [pend EXCEPT ![q].done = TRUE]
                                     /\ UNCHANGED work
     \/ stopper[c].todo = "chase" /\ work' = [work EXCEPT ![q] = cpu]
                                  /\ UNCHANGED pend
  /\ stopper' = [stopper EXCEPT ![c] = Idle]
  /\ UNCHANGED <<loc, cpu, mask, taskVars, push_busy, migration_pending, callVars>>

\* sched_exec(): the destination is chosen before the stopper runs, and no request
\* is installed.
sched_exec ==
  /\ loc = "run" /\ enabling = "no" /\ pc[Self] = "idle" /\ disabled = 0
  /\ \E dest \in CPUs \ {cpu} :
       is_cpu_allowed(dest) /\ exec' = [at |-> cpu, dest |-> dest]
  /\ goto(Self, "exec")
  /\ UNCHANGED <<loc, cpu, mask, ptr, disabled, enabling, en_pend, mdf_push,
                 nr_pinned, push_busy, migration_pending, pend, use, kick_cpu, work,
                 stopper>>

migration_cpu_stop_exec(c) ==
  /\ exec.at = c /\ may_stop(c)
  /\ exec' = NoExec
  /\ loc' = flushed(c)
  /\ IF cpu = c THEN __migrate_task(exec.dest) ELSE UNCHANGED cpu
  /\ UNCHANGED <<mask, ptr, disabled, enabling, en_pend, mdf_push, nr_pinned,
                 push_busy, migration_pending, pend, callVars, work, stopper>>

sched_exec_return ==
  /\ pc[Self] = "exec" /\ loc = "run" /\ exec = NoExec
  /\ goto(Self, "idle")
  /\ UNCHANGED <<loc, cpu, mask, taskVars, push_busy, migration_pending, pend, use,
                 kick_cpu, work, stopper>>

\* get_push_task() (sched.h of the classes): push p away from its CPU.
get_push_task ==
  /\ loc = "run" /\ disabled = 0 /\ cpu \notin push_busy
  /\ push_busy' = push_busy \cup {cpu}
  /\ UNCHANGED <<loc, cpu, mask, taskVars, migration_pending, pend, callVars, work,
                 stopper>>

\* push_cpu_stop(): find_lock_rq() may find a runqueue that p is allowed on.
push_cpu_stop(c) ==
  /\ c \in push_busy /\ may_stop(c)
  /\ push_busy' = push_busy \ {c}
  /\ mdf_push' = IF cpu = c THEN disabled > 0 ELSE mdf_push
  /\ \/ cpu' = cpu
     \/ /\ cpu = c /\ disabled = 0 /\ loc = "queue"
        /\ \E k \in CPUs : is_cpu_allowed(k) /\ cpu' = k
  /\ UNCHANGED <<loc, mask, ptr, disabled, enabling, en_pend, nr_pinned, exec,
                 migration_pending, pend, callVars, work, stopper>>

-----------------------------------------------------------------------------

Next ==
  \/ schedule \/ pick_next_task \/ try_to_wake_up \/ sched_ttwu_pending
  \/ load_balance \/ sched_exec \/ sched_exec_return \/ get_push_task
  \/ migrate_disable \/ migrate_enable \/ migrate_enable_unlocked
  \/ migrate_enable_clear
  \/ \E q \in Callers :
       \/ set_cpus_allowed_ptr(q) \/ set_cpus_allowed_ptr_unlocked(q)
       \/ wait_for_completion(q) \/ wait_var_event(q)
       \/ \E c \in CPUs : migration_cpu_stop(c, q)
  \/ \E c \in CPUs :
       migration_cpu_stop_unlocked(c) \/ migration_cpu_stop_exec(c)
       \/ push_cpu_stop(c)

Spec == Init /\ [][Next]_vars

\* The stopper takes the CPU from p.
preempt == schedule /\ stopping(cpu) /\ loc' = "queue"

\* The steps of a caller inside the call, and of the stopper of a CPU.
caller_step(q) ==
  set_cpus_allowed_ptr_unlocked(q) \/ wait_for_completion(q) \/ wait_var_event(q)

stopper_step(c) ==
  \/ \E q \in Callers : migration_cpu_stop(c, q)
  \/ migration_cpu_stop_unlocked(c) \/ migration_cpu_stop_exec(c)
  \/ push_cpu_stop(c)

\* Code with preemption off ends, a preemption that it held up happens then (the
\* interrupt that asks for it is not late for ever), stoppers run, p gets CPU time,
\* and p leaves its outermost migrate-disabled section: if it sleeps inside, it is
\* woken.
Fairness ==
  /\ WF_vars(preempt) /\ WF_vars(pick_next_task \/ sched_ttwu_pending)
  /\ WF_vars(try_to_wake_up /\ (disabled > 0 \/ pc[Self] # "idle"))
  /\ \A n \in 1..Nesting : SF_vars(migrate_enable /\ disabled = n)
  /\ WF_vars(migrate_enable_unlocked \/ migrate_enable_clear)
  /\ SF_vars(migrate_enable_clear /\ loc' = "queue")
  /\ \A q \in Callers : SF_vars(caller_step(q))
  /\ \A c \in CPUs : SF_vars(stopper_step(c))

FairSpec == Spec /\ Fairness

-----------------------------------------------------------------------------
(* Properties.                                                             *)

\* The WARN_ON_ONCE(is_migration_disabled(p)) of set_task_cpu(): nothing moves p
\* while it has migration disabled.
PinnedStays == [][disabled > 0 => cpu' = cpu]_vars

\* The request of a stop work stays installed until the work has run, and its owner
\* never leaves with it (the WARN_ON_ONCEs on stop_pending).
StopWorkStable ==
  \A q \in Callers : pend[q].stop_pending => migration_pending = q

\* The cpu_stop_work of a request is never queued while it is in use.
StopWorkOnce ==
  \A q \in Callers :
    Cardinality({c \in CPUs : work[q] = c})
    + Cardinality({c \in CPUs : stopper[c] = [todo |-> "chase", req |-> q]})
    + Cardinality({r \in Callers : pc[r] = "stop" /\ use[r] = q})
    + (IF enabling = "stop" /\ en_pend = q THEN 1 ELSE 0) <= 1

\* Requests live on the stack of their owner: whoever still refers to one, the
\* owner has not returned.
RequestAlive ==
  \A q \in Callers :
    \/ migration_pending = q \/ work[q] # NULL \/ en_pend = q
    \/ \E c \in CPUs : stopper[c].req = q
    \/ \E r \in Callers : use[r] = q
    => pc[q] \in {"stop", "complete", "wait", "drain"}

\* Every caller that waits returns.
CallersReturn ==
  \A q \in Callers : pc[q] = "wait" ~> pc[q] = "idle"
=============================================================================
