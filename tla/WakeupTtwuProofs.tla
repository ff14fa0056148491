-------------------------- MODULE WakeupTtwuProofs --------------------------
(*****************************************************************************)
(* IndInv of Wakeup is preserved by try_to_wake_up() up to p->on_cpu.  One   *)
(* lemma per action, under it one step per conjunct of the invariant.        *)
(*****************************************************************************)
EXTENDS Wakeup, TLAPS

USE TasksAssumption DEF Sleeping, States, RqLocked, PiLocked, PCs, taskVars,
                        counters, goto, return

\* A waker sets the condition or the signal.
LEMMA WakeUpProcessInv ==
  ASSUME IndInv, NEW c \in CPUs, NEW p \in Tasks, wake_up_process(c, p)
  PROVE  IndInv'
<1>1. TypeOK'
  BY DEF IndInv, TypeOK, wake_up_process
<1>2. LocalsInv'
  BY DEF IndInv, TypeOK, LocalsInv, wake_up_process
<1>3. LocksInv'
  BY DEF IndInv, TypeOK, LocksInv, wake_up_process
<1>4. ExecInv'
  BY DEF IndInv, TypeOK, ExecInv, executes, wake_up_process
<1>5. QueueInv'
  BY DEF IndInv, TypeOK, QueueInv, wake_up_process
<1>6. TtwuInv'
  BY DEF IndInv, TypeOK, TtwuInv, wake_up_process
<1>7. DeadInv'
  BY DEF IndInv, TypeOK, LocalsInv, DeadInv, wake_up_process
<1>8. CondInv'
  BY DEF IndInv, TypeOK, CondInv, waker, wake_up_process
<1> QED BY <1>1, <1>2, <1>3, <1>4, <1>5, <1>6, <1>7, <1>8 DEF IndInv

\* A task wakes itself.
LEMMA WakeUpCurrentInv ==
  ASSUME IndInv, NEW c \in CPUs, NEW p \in Tasks, wake_up_current(c, p)
  PROVE  IndInv'
<1>1. TypeOK'
  BY SMTT(60) DEF IndInv, TypeOK, wake_up_current, running
<1>2. LocalsInv'
  BY DEF IndInv, TypeOK, LocalsInv, wake_up_current, running
<1>3. LocksInv'
  BY DEF IndInv, TypeOK, LocksInv, wake_up_current, running
<1>4. ExecInv'
  BY DEF IndInv, TypeOK, ExecInv, executes, wake_up_current, running
<1>5. QueueInv'
  BY DEF IndInv, TypeOK, QueueInv, wake_up_current, running
<1>6. TtwuInv'
  BY SMTT(60) DEF IndInv, TypeOK, ExecInv, TtwuInv, executes, wake_up_current,
    running
<1>7. DeadInv'
  BY DEF IndInv, TypeOK, DeadInv, wake_up_current, running
<1>8. CondInv'
  BY DEF IndInv, TypeOK, CondInv, waker, wake_up_current, running
<1> QED BY <1>1, <1>2, <1>3, <1>4, <1>5, <1>6, <1>7, <1>8 DEF IndInv

\* A waker takes p->pi_lock.
LEMMA TryToWakeUpInv ==
  ASSUME IndInv, NEW c \in CPUs, try_to_wake_up(c)
  PROVE  IndInv'
<1>1. TypeOK'
  BY DEF IndInv, TypeOK, try_to_wake_up, pi_lock_free, wake_mask
<1>2. LocalsInv'
  BY DEF IndInv, TypeOK, LocalsInv, try_to_wake_up, pi_lock_free, wake_mask
<1>3. LocksInv'
  BY DEF IndInv, TypeOK, LocksInv, try_to_wake_up, pi_lock_free, wake_mask
<1>4. ExecInv'
  BY DEF IndInv, TypeOK, ExecInv, executes, try_to_wake_up, pi_lock_free,
         wake_mask
<1>5. QueueInv'
  BY DEF IndInv, TypeOK, QueueInv, try_to_wake_up, pi_lock_free, wake_mask
<1>6. TtwuInv'
  BY DEF IndInv, TypeOK, TtwuInv, try_to_wake_up, pi_lock_free, wake_mask
<1>7. DeadInv'
  BY DEF IndInv, TypeOK, DeadInv, try_to_wake_up, pi_lock_free, wake_mask
<1>8. CondInv'
  BY DEF IndInv, TypeOK, CondInv, waker, try_to_wake_up, pi_lock_free,
         wake_mask
<1> QED BY <1>1, <1>2, <1>3, <1>4, <1>5, <1>6, <1>7, <1>8 DEF IndInv

\* A waker reads p->on_rq.
LEMMA TtwuReadOnRqInv ==
  ASSUME IndInv, NEW c \in CPUs, ttwu_read_on_rq(c)
  PROVE  IndInv'
<1>1. TypeOK'
  BY DEF IndInv, TypeOK, ttwu_read_on_rq
<1>2. LocalsInv'
  BY DEF IndInv, TypeOK, LocalsInv, ttwu_read_on_rq
<1>3. LocksInv'
  BY DEF IndInv, TypeOK, LocksInv, ttwu_read_on_rq
<1>4. ExecInv'
  BY DEF IndInv, TypeOK, ExecInv, executes, ttwu_read_on_rq
<1>5. QueueInv'
  BY DEF IndInv, TypeOK, QueueInv, ttwu_read_on_rq
<1>6. TtwuInv'
  BY DEF IndInv, TypeOK, LocksInv, QueueInv, TtwuInv, ttwu_read_on_rq
<1>7. DeadInv'
  BY SMTT(60) DEF IndInv, TypeOK, TtwuInv, DeadInv, ttwu_read_on_rq
<1>8. CondInv'
  BY DEF IndInv, TypeOK, CondInv, waker, ttwu_read_on_rq
<1> QED BY <1>1, <1>2, <1>3, <1>4, <1>5, <1>6, <1>7, <1>8 DEF IndInv

\* A waker finds the task queued, or blocked after all.
LEMMA TtwuRunnableInv ==
  ASSUME IndInv, NEW c \in CPUs, ttwu_runnable(c)
  PROVE  IndInv'
<1>1. TypeOK'
  BY DEF IndInv, TypeOK, ttwu_runnable, rq_lock_free
<1>2. LocalsInv'
  BY DEF IndInv, TypeOK, LocalsInv, ttwu_runnable, rq_lock_free
<1>3. LocksInv'
  BY DEF IndInv, TypeOK, LocksInv, ttwu_runnable, rq_lock_free
<1>4. ExecInv'
  BY SMTT(60) DEF IndInv, TypeOK, ExecInv, executes, ttwu_runnable, rq_lock_free
<1>5. QueueInv'
  BY DEF IndInv, TypeOK, QueueInv, ttwu_runnable, rq_lock_free
<1>6. TtwuInv'
  BY DEF IndInv, TypeOK, LocksInv, QueueInv, TtwuInv, ttwu_runnable,
         rq_lock_free
<1>7. DeadInv'
  BY SMTT(60) DEF IndInv, TypeOK, TtwuInv, DeadInv, ttwu_runnable, rq_lock_free
<1>8. CondInv'
  BY DEF IndInv, TypeOK, CondInv, waker, ttwu_runnable, rq_lock_free
<1> QED BY <1>1, <1>2, <1>3, <1>4, <1>5, <1>6, <1>7, <1>8 DEF IndInv
=============================================================================
