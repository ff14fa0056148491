----------------------------- MODULE WakeupLife -----------------------------
(***************************************************************************)
(* Wakeup implements TaskLife.                                             *)
(***************************************************************************)
EXTENDS Wakeup

\* The life that the fields of the task_struct stand for.  A task that
\* wake_up_new_task() has not enqueued yet is RUNNING, one that is WAKING is
\* still blocked, one that migrates is ready.
life_of(p) ==
  IF state[p] = "FREE" THEN "none"
  ELSE IF state[p] = "NEW" THEN "new"
  ELSE IF state[p] = "DEAD" THEN "dead"
  ELSE IF on_rq[p] = 0 /\ state[p] # "RUNNING" THEN "blocked"
  ELSE "ready"

Life == INSTANCE TaskLife WITH life <- [p \in Tasks |-> life_of(p)],
                               on <- [p \in Tasks |-> executing(p)],
                               want <- cond

\* Every step of __schedule(), try_to_wake_up(), fork and migration is a step of
\* TaskLife or invisible to the task: it never runs before it was woken, is never
\* woken while a CPU is still on its stack, blocks only by itself, and stays dead.
ImplementsTaskLife == Life!Spec

\* With the fairness of FairSpec the wakeup also arrives: a task that blocked
\* although its condition holds gets back on a runqueue.
BlockedIsWoken == Life!Woken
=============================================================================
