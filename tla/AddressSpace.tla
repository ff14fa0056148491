---------------------------- MODULE AddressSpace ----------------------------
(***************************************************************************)
(* The life of an mm_struct: its two reference counts, the address space   *)
(* that a kernel thread borrows across context_switch(), and the vfork()   *)
(* handshake (Project 2/fork.c, core.c).                                   *)
(*                                                                         *)
(* Tasks run on CPUs in small steps; between two of them the CPU may       *)
(* switch, so that each task has its own program counter tpc[p] and the    *)
(* local variables mmarg[p] (an mm) and child[p] (a task).  An idle task   *)
(* is named by its CPU.                                                    *)
(***************************************************************************)
EXTENDS Integers, FiniteSets

CONSTANTS Users,        \* task_structs of processes and threads
          Kthreads,     \* kernel threads
          CPUs,         \* CPUs, and their idle tasks
          MMs,          \* mm_structs, init_mm excepted
          InitMm, None

ASSUME SetsAssumption ==
  /\ IsFiniteSet(Users \cup Kthreads \cup CPUs)
  /\ (Users \cup Kthreads) \cap CPUs = {} /\ Users \cap Kthreads = {}
  /\ None \notin Users \cup MMs \cup {InitMm} /\ InitMm \notin MMs

VARIABLES state,        \* the task_struct: free, forking, live, dead
          mm,           \* p->mm
          active_mm,    \* p->active_mm
          tpc, mmarg, child,
          exiting,      \* tasks past exit_mm()
          held,         \* what p got from get_task_mm()
          usage,        \* p->usage
          vfork_done,   \* p->vfork_done: whose completion, on whose stack
          done,         \* the tasks whose vfork completion is done
          curr,         \* rq->curr
          prev_mm,      \* rq->prev_mm
          mm_users, mm_count,
          phase,        \* the mm_struct: free, live, torn (by exit_mmap())
          work          \* mms with mmput_async_fn() scheduled

taskVars == <<state, mm, active_mm, tpc, mmarg, child, exiting, held, usage,
              vfork_done, done>>
cpuVars == <<curr, prev_mm>>
mmVars == <<mm_users, mm_count, phase, work>>
vars == <<taskVars, cpuVars, mmVars>>

Tasks == Users \cup Kthreads \cup CPUs
AllMMs == MMs \cup {InitMm}

TypeOK ==
  /\ state \in [Tasks -> {"free", "forking", "live", "dead"}]
  /\ mm \in [Tasks -> MMs \cup {None}]
  /\ active_mm \in [Tasks -> AllMMs \cup {None}]
  /\ tpc \in [Tasks -> {"user", "forked", "vfork_wait", "vfork_killed",
                        "exit_vfork", "exit_mm", "exec_vfork", "exec_mm",
                        "mmput", "teardown", "mmdrop", "dead"}]
  /\ mmarg \in [Tasks -> AllMMs \cup {None}]
  /\ child \in [Tasks -> Users \cup {None}]
  /\ exiting \subseteq Users
  /\ held \in [Tasks -> MMs \cup {None}]
  /\ usage \in [Tasks -> 0..2]
  /\ vfork_done \in [Tasks -> Users \cup {None}]
  /\ done \subseteq Users
  /\ curr \in [CPUs -> Tasks]
  /\ prev_mm \in [CPUs -> AllMMs \cup {None}]
  /\ mm_users \in [AllMMs -> Int]
  /\ mm_count \in [AllMMs -> Int]
  /\ phase \in [AllMMs -> {"free", "live", "torn"}]
  /\ work \subseteq MMs

\* One process is there, in an address space of its own; the idle tasks run,
\* each with a reference to init_mm (sched_init()).
Init ==
  /\ \E u \in Users, m \in MMs :
       /\ state = [p \in Tasks |-> IF p \in Users \ {u} THEN "free" ELSE "live"]
       /\ mm = [p \in Tasks |-> IF p = u THEN m ELSE None]
       /\ active_mm = [p \in Tasks |-> IF p = u THEN m
                                       ELSE IF p \in CPUs THEN InitMm ELSE None]
       /\ usage = [p \in Tasks |-> IF p \in Users \ {u} THEN 0 ELSE 1]
       /\ mm_users = [a \in AllMMs |-> IF a \in {m, InitMm} THEN 1 ELSE 0]
       /\ mm_count = [a \in AllMMs |-> IF a = m THEN 1
                                       ELSE IF a = InitMm THEN 1 + Cardinality(CPUs) ELSE 0]
       /\ phase = [a \in AllMMs |-> IF a \in {m, InitMm} THEN "live" ELSE "free"]
  /\ tpc = [p \in Tasks |-> "user"]
  /\ mmarg = [p \in Tasks |-> None]
  /\ child = [p \in Tasks |-> None]
  /\ exiting = {}
  /\ held = [p \in Tasks |-> None]
  /\ vfork_done = [p \in Tasks |-> None]
  /\ done = {}
  /\ curr = [c \in CPUs |-> c]
  /\ prev_mm = [c \in CPUs |-> None]
  /\ work = {}

-----------------------------------------------------------------------------
(* The CPU.                                                                *)

\* p runs on some CPU that is not inside finish_task_switch().
on(p) == \E c \in CPUs : curr[c] = p /\ prev_mm[c] = None

\* p waits in wait_for_completion_killable().
waiting(p) == tpc[p] = "vfork_wait" /\ p \notin done

mmdrop(m) ==
  /\ mm_count' = [mm_count EXCEPT ![m] = @ - 1]
  /\ phase' = [phase EXCEPT ![m] = IF mm_count'[m] = 0 THEN "free" ELSE @]

\* Mutant: no mmgrab() from user to kernel.
context_switch_ungrabbed(c, next) ==
  LET prev == curr[c] IN
  /\ prev_mm[c] = None
  /\ next # prev /\ state[next] = "live" /\ ~waiting(next)
  /\ next \in CPUs => next = c
  /\ \A d \in CPUs : curr[d] # next
  /\ active_mm' = [active_mm EXCEPT
                     ![next] = IF mm[next] = None THEN active_mm[prev] ELSE @,
                     ![prev] = IF mm[prev] = None THEN None ELSE @]
  /\ prev_mm' = [prev_mm EXCEPT ![c] = IF mm[next] # None /\ mm[prev] = None
                                       THEN active_mm[prev] ELSE None]
  /\ UNCHANGED mm_count
  /\ curr' = [curr EXCEPT ![c] = next]
  /\ state' = [state EXCEPT ![prev] = IF tpc[prev] = "dead" THEN "dead" ELSE @]
  /\ UNCHANGED <<mm, tpc, mmarg, child, exiting, held, usage, vfork_done, done,
                 mm_users, phase, work>>

\* To kernel: next borrows prev's active_mm, from user with a new reference, from
\* kernel with prev's.  From kernel to user: prev's reference is left in prev_mm.
\* A dead prev is released by finish_task_switch().
context_switch(c, next) ==
  LET prev == curr[c] IN
  /\ prev_mm[c] = None
  /\ next # prev /\ state[next] = "live" /\ ~waiting(next)
  /\ next \in CPUs => next = c
  /\ \A d \in CPUs : curr[d] # next
  /\ active_mm' = [active_mm EXCEPT
                     ![next] = IF mm[next] = None THEN active_mm[prev] ELSE @,
                     ![prev] = IF mm[prev] = None THEN None ELSE @]
  /\ prev_mm' = [prev_mm EXCEPT ![c] = IF mm[next] # None /\ mm[prev] = None
                                       THEN active_mm[prev] ELSE None]
  /\ mm_count' = [mm_count EXCEPT ![active_mm[prev]] =
                    @ + (IF mm[next] = None /\ mm[prev] # None THEN 1 ELSE 0)]
  /\ curr' = [curr EXCEPT ![c] = next]
  /\ state' = [state EXCEPT ![prev] = IF tpc[prev] = "dead" THEN "dead" ELSE @]
  /\ UNCHANGED <<mm, tpc, mmarg, child, exiting, held, usage, vfork_done, done,
                 mm_users, phase, work>>

\* if (mm) mmdrop_sched(mm), after rq->lock has been dropped.
finish_task_switch(c) ==
  /\ prev_mm[c] # None
  /\ mmdrop(prev_mm[c])
  /\ prev_mm' = [prev_mm EXCEPT ![c] = None]
  /\ UNCHANGED <<taskVars, curr, mm_users, work>>

-----------------------------------------------------------------------------
(* fork().                                                                 *)

\* mm_init(): a new mm_struct with one user and one reference.
mm_init(m) ==
  /\ phase[m] = "free"
  /\ phase' = [phase EXCEPT ![m] = "live"]
  /\ mm_users' = [mm_users EXCEPT ![m] = 1]
  /\ mm_count' = [mm_count EXCEPT ![m] = 1]

\* The child of dup_task_struct(), with the mm that copy_mm() gives it.
forking(p, q, m) ==
  /\ state' = [state EXCEPT ![q] = "forking"]
  /\ usage' = [usage EXCEPT ![q] = 1]
  /\ mm' = [mm EXCEPT ![q] = m]
  /\ active_mm' = [active_mm EXCEPT ![q] = m]
  /\ vfork_done' = [vfork_done EXCEPT ![q] = None]
  /\ tpc' = [tpc EXCEPT ![p] = "forked", ![q] = "user"]
  /\ child' = [child EXCEPT ![p] = q]
  /\ UNCHANGED mmarg

\* Mutant: CLONE_VM without mmget().
copy_mm_unshared(p, q) ==
  /\ on(p) /\ tpc[p] = "user" /\ state[q] = "free" /\ p \notin CPUs
  /\ forking(p, q, mm[p])
  /\ UNCHANGED <<mm_users, mm_count, phase, exiting, held, done, cpuVars,
                 work>>

\* copy_mm(): nothing to copy for a kernel thread, CLONE_VM, dup_mm(), or a
\* dup_mm() that fails in dup_mmap() and puts its half-made copy.
copy_mm(p, q) ==
  /\ on(p) /\ tpc[p] = "user" /\ state[q] = "free" /\ p \notin CPUs
  /\ \/ /\ mm[p] = None
        /\ forking(p, q, None)
        /\ UNCHANGED <<mm_users, mm_count, phase>>
     \/ /\ mm[p] # None
        /\ mm_users' = [mm_users EXCEPT ![mm[p]] = @ + 1]
        /\ forking(p, q, mm[p])
        /\ UNCHANGED <<mm_count, phase>>
     \/ \E m \in MMs : mm[p] # None /\ mm_init(m) /\ forking(p, q, m)
     \/ \E m \in MMs :
          /\ mm[p] # None /\ mm_init(m)
          /\ tpc' = [tpc EXCEPT ![p] = "mmput"]
          /\ mmarg' = [mmarg EXCEPT ![p] = m]
          /\ UNCHANGED <<state, usage, mm, active_mm, vfork_done, child>>
  /\ UNCHANGED <<exiting, held, done, cpuVars, work>>

\* bad_fork_cleanup_mm: a later step of copy_process() failed.
bad_fork_cleanup_mm(p) ==
  LET q == child[p] IN
  /\ on(p) /\ tpc[p] = "forked"
  /\ tpc' = [tpc EXCEPT ![p] = IF mm[q] = None THEN "user" ELSE "mmput"]
  /\ mmarg' = [mmarg EXCEPT ![p] = mm[q]]
  /\ mm' = [mm EXCEPT ![q] = None]
  /\ active_mm' = [active_mm EXCEPT ![q] = None]
  /\ state' = [state EXCEPT ![q] = "free"]
  /\ usage' = [usage EXCEPT ![q] = 0]
  /\ child' = [child EXCEPT ![p] = None]
  /\ UNCHANGED <<exiting, held, vfork_done, done, cpuVars, mmVars>>

\* copy_process() succeeded: wake_up_new_task(), and for CLONE_VFORK the
\* completion on the parent's stack.
kernel_clone(p) ==
  LET q == child[p] IN
  /\ on(p) /\ tpc[p] = "forked"
  /\ state' = [state EXCEPT ![q] = "live"]
  /\ \/ /\ p \in Users
        /\ vfork_done' = [vfork_done EXCEPT ![q] = p]
        /\ done' = done \ {p}
        /\ usage' = [usage EXCEPT ![q] = @ + 1]
        /\ tpc' = [tpc EXCEPT ![p] = "vfork_wait"]
        /\ UNCHANGED child
     \/ /\ tpc' = [tpc EXCEPT ![p] = "user"]
        /\ child' = [child EXCEPT ![p] = None]
        /\ UNCHANGED <<vfork_done, done, usage>>
  /\ UNCHANGED <<mm, active_mm, mmarg, exiting, held, cpuVars, mmVars>>

-----------------------------------------------------------------------------
(* vfork().                                                                *)

\* put_task_struct(q)
put_task_struct(q) ==
  /\ usage' = [usage EXCEPT ![q] = @ - 1]
  /\ state' = [state EXCEPT ![q] = IF usage[q] = 1 THEN "free" ELSE @]

\* A fatal signal ends wait_for_completion_killable().
killed(p) ==
  /\ tpc[p] = "vfork_wait" /\ p \notin done
  /\ tpc' = [tpc EXCEPT ![p] = "vfork_killed"]
  /\ UNCHANGED <<state, mm, active_mm, mmarg, child, exiting, held, usage,
                 vfork_done, done, cpuVars, mmVars>>

\* Mutant: a killed parent leaves child->vfork_done behind.
wait_for_vfork_done_unlinked(p) ==
  LET q == child[p] IN
  /\ on(p)
  /\ \/ tpc[p] = "vfork_wait" /\ p \in done
     \/ tpc[p] = "vfork_killed"
  /\ put_task_struct(q)
  /\ tpc' = [tpc EXCEPT ![p] = "user"]
  /\ child' = [child EXCEPT ![p] = None]
  /\ UNCHANGED <<mm, active_mm, mmarg, exiting, held, done, cpuVars, mmVars,
                 vfork_done>>

\* wait_for_vfork_done(), from the end of the wait on; a killed parent takes its
\* completion back under task_lock(child).
wait_for_vfork_done(p) ==
  LET q == child[p] IN
  /\ on(p)
  /\ \/ tpc[p] = "vfork_wait" /\ p \in done /\ UNCHANGED vfork_done
     \/ tpc[p] = "vfork_killed" /\ vfork_done' = [vfork_done EXCEPT ![q] = None]
  /\ put_task_struct(q)
  /\ tpc' = [tpc EXCEPT ![p] = "user"]
  /\ child' = [child EXCEPT ![p] = None]
  /\ UNCHANGED <<mm, active_mm, mmarg, exiting, held, done, cpuVars, mmVars>>

\* Mutant: exec does not complete the vfork.
mm_release_exit_only(p) ==
  /\ p \in Users /\ on(p) /\ tpc[p] = "user" /\ held[p] = None
  /\ \E how \in {"exit_vfork", "exec_mm"} : tpc' = [tpc EXCEPT ![p] = how]
  /\ UNCHANGED <<state, mm, active_mm, mmarg, child, exiting, held, usage,
                 vfork_done, done, cpuVars, mmVars>>

\* mm_release(), called by exit and exec: looks at vfork_done without the lock.
mm_release(p) ==
  /\ p \in Users /\ on(p) /\ tpc[p] = "user" /\ held[p] = None
  /\ \E how \in {"exit", "exec"} :
       tpc' = [tpc EXCEPT ![p] =
                 IF vfork_done[p] # None
                 THEN (IF how = "exit" THEN "exit_vfork" ELSE "exec_vfork")
                 ELSE (IF how = "exit" THEN "exit_mm" ELSE "exec_mm")]
  /\ UNCHANGED <<state, mm, active_mm, mmarg, child, exiting, held, usage,
                 vfork_done, done, cpuVars, mmVars>>

\* complete_vfork_done(): under task_lock() it looks again.
complete_vfork_done(p) ==
  /\ on(p) /\ tpc[p] \in {"exit_vfork", "exec_vfork"}
  /\ done' = done \cup ({vfork_done[p]} \ {None})
  /\ vfork_done' = [vfork_done EXCEPT ![p] = None]
  /\ tpc' = [tpc EXCEPT ![p] = IF @ = "exit_vfork" THEN "exit_mm" ELSE "exec_mm"]
  /\ UNCHANGED <<state, mm, active_mm, mmarg, child, exiting, held, usage,
                 cpuVars, mmVars>>

-----------------------------------------------------------------------------
(* exit and exec (kernel/exit.c, fs/exec.c), as far as they use fork.c.    *)

\* exit_mm(): mmgrab(mm) for active_mm, mm = NULL under task_lock(), mmput(mm).
exit_mm(p) ==
  /\ on(p) /\ tpc[p] = "exit_mm"
  /\ mmarg' = [mmarg EXCEPT ![p] = mm[p]]
  /\ mm' = [mm EXCEPT ![p] = None]
  /\ exiting' = exiting \cup {p}
  /\ IF mm[p] = None
     THEN tpc' = [tpc EXCEPT ![p] = "dead"] /\ UNCHANGED mm_count
     ELSE /\ tpc' = [tpc EXCEPT ![p] = "mmput"]
          /\ mm_count' = [mm_count EXCEPT ![mm[p]] = @ + 1]
  /\ UNCHANGED <<state, active_mm, child, held, usage, vfork_done, done,
                 cpuVars, mm_users, phase, work>>

\* exec_mmap(): a new mm under task_lock(), then mmput() of the old one, or
\* mmdrop() of a borrowed one.
exec_mmap(p) ==
  /\ on(p) /\ tpc[p] = "exec_mm"
  /\ \E m \in MMs :
       /\ mm_init(m)
       /\ mm' = [mm EXCEPT ![p] = m]
       /\ active_mm' = [active_mm EXCEPT ![p] = m]
  /\ tpc' = [tpc EXCEPT ![p] = IF mm[p] = None THEN "mmdrop" ELSE "mmput"]
  /\ mmarg' = [mmarg EXCEPT ![p] = active_mm[p]]
  /\ UNCHANGED <<state, child, exiting, held, usage, vfork_done, done, cpuVars,
                 work>>

\* A dead task that has been switched out is reaped: the reference behind
\* rcu_users goes.
release_task(p) ==
  /\ state[p] = "dead" /\ tpc[p] = "dead"
  /\ tpc' = [tpc EXCEPT ![p] = "user"]
  /\ exiting' = exiting \ {p}
  /\ put_task_struct(p)
  /\ UNCHANGED <<mm, active_mm, mmarg, child, held, vfork_done, done, cpuVars,
                 mmVars>>

-----------------------------------------------------------------------------
(* References.                                                             *)

\* get_task_mm(q) by p: mmget() under task_lock(q).
get_task_mm(p, q) ==
  /\ p \in Users /\ on(p) /\ tpc[p] = "user" /\ held[p] = None
  /\ q \in Users /\ state[q] = "live" /\ mm[q] # None
  /\ held' = [held EXCEPT ![p] = mm[q]]
  /\ mm_users' = [mm_users EXCEPT ![mm[q]] = @ + 1]
  /\ UNCHANGED <<state, mm, active_mm, tpc, mmarg, child, exiting, usage,
                 vfork_done, done, cpuVars, mm_count, phase, work>>

\* mmput_async() of what get_task_mm() returned.
mmput_async(p) ==
  /\ on(p) /\ tpc[p] = "user" /\ held[p] # None
  /\ mm_users' = [mm_users EXCEPT ![held[p]] = @ - 1]
  /\ work' = IF mm_users[held[p]] = 1 THEN work \cup {held[p]} ELSE work
  /\ held' = [held EXCEPT ![p] = None]
  /\ UNCHANGED <<state, mm, active_mm, tpc, mmarg, child, exiting, usage,
                 vfork_done, done, cpuVars, mm_count, phase>>

\* What p does after a mmput() or mmdrop().
return(p) ==
  tpc' = [tpc EXCEPT ![p] = IF p \in exiting THEN "dead" ELSE "user"]

\* mmput(), of mmarg or of what get_task_mm() returned.
mmput(p) ==
  /\ on(p)
  /\ \E m \in MMs :
       /\ \/ tpc[p] = "mmput" /\ m = mmarg[p] /\ UNCHANGED held
          \/ /\ tpc[p] = "user" /\ m = held[p]
             /\ held' = [held EXCEPT ![p] = None]
       /\ mm_users' = [mm_users EXCEPT ![m] = @ - 1]
       /\ IF mm_users[m] = 1
          THEN /\ mmarg' = [mmarg EXCEPT ![p] = m]
               /\ tpc' = [tpc EXCEPT ![p] = "teardown"]
          ELSE return(p) /\ mmarg' = [mmarg EXCEPT ![p] = None]
  /\ UNCHANGED <<state, mm, active_mm, child, exiting, usage, vfork_done, done,
                 cpuVars, mm_count, phase, work>>

\* __mmput(m): exit_mmap(), ..., mmdrop().
__mmput(m) ==
  /\ mm_count' = [mm_count EXCEPT ![m] = @ - 1]
  /\ phase' = [phase EXCEPT ![m] = IF mm_count[m] = 1 THEN "free" ELSE "torn"]

\* ... by the task that dropped the last user, and the mmdrop() of exec.
finish_mmput(p) ==
  /\ on(p)
  /\ \/ tpc[p] = "teardown" /\ __mmput(mmarg[p])
     \/ tpc[p] = "mmdrop" /\ mmdrop(mmarg[p])
  /\ mmarg' = [mmarg EXCEPT ![p] = None]
  /\ return(p)
  /\ UNCHANGED <<state, mm, active_mm, child, exiting, held, usage, vfork_done,
                 done, cpuVars, mm_users, work>>

\* ... and by a worker.
mmput_async_fn(m) ==
  /\ m \in work /\ \E k \in Kthreads : on(k)
  /\ work' = work \ {m}
  /\ __mmput(m)
  /\ UNCHANGED <<taskVars, cpuVars, mm_users>>

Next ==
  \/ \E c \in CPUs : finish_task_switch(c) \/ \E p \in Tasks : context_switch(c, p)
  \/ \E p \in Tasks :
       \/ \E q \in Users : copy_mm(p, q) \/ get_task_mm(p, q)
       \/ bad_fork_cleanup_mm(p) \/ kernel_clone(p) \/ killed(p)
       \/ wait_for_vfork_done(p) \/ mm_release(p) \/ complete_vfork_done(p)
       \/ exit_mm(p) \/ exec_mmap(p) \/ release_task(p)
       \/ mmput(p) \/ mmput_async(p) \/ finish_mmput(p)
  \/ \E m \in MMs : mmput_async_fn(m)

Spec == Init /\ [][Next]_vars

-----------------------------------------------------------------------------
(* Properties.                                                             *)

\* mm_users counts the tasks with that mm, the references of get_task_mm() and
\* the mmput()s on their way, and the last of them leaves exactly one __mmput().
UsersExact ==
  \A m \in MMs : phase[m] = "live" =>
    /\ mm_users[m] = Cardinality({p \in Tasks : mm[p] = m})
                     + Cardinality({p \in Tasks : held[p] = m})
                     + Cardinality({p \in Tasks : tpc[p] = "mmput" /\ mmarg[p] = m})
    /\ Cardinality({p \in Tasks : tpc[p] = "teardown" /\ mmarg[p] = m})
         + (IF m \in work THEN 1 ELSE 0) = IF mm_users[m] = 0 THEN 1 ELSE 0

\* mm_count counts the users together once, and every borrower once, across
\* switches between user and kernel in any order: nothing is freed early, leaked
\* or freed twice, and init_mm never (the BUG_ON of __mmdrop()).
CountExact ==
  \A m \in AllMMs :
    mm_count[m] = (IF phase[m] = "live" THEN 1 ELSE 0)
                  + Cardinality({p \in Tasks : mm[p] = None /\ active_mm[p] = m})
                  + Cardinality({c \in CPUs : prev_mm[c] = m})
                  + Cardinality({p \in Tasks : tpc[p] = "mmdrop" /\ mmarg[p] = m})

\* A CPU runs on page tables that exist, user code on an address space that has
\* not been torn down (the WARN_ON_ONCEs of __mmdrop()).
PageTablesLive ==
  \A c \in CPUs :
    LET p == curr[c] IN
    /\ active_mm[p] \in AllMMs /\ phase[active_mm[p]] # "free"
    /\ mm[p] # None => phase[mm[p]] = "live" /\ active_mm[p] = mm[p]

\* A completion that a child can reach is on the stack of a parent that has not
\* returned from wait_for_vfork_done().
CompletionAlive ==
  \A q \in Users : vfork_done[q] # None =>
    /\ tpc[vfork_done[q]] \in {"vfork_wait", "vfork_killed"}
    /\ child[vfork_done[q]] = q

\* A waiting parent is completed: its child still has the pointer and the steps
\* of mm_release() before it, or the completion is done.
VforkCompleted ==
  \A p \in Users :
    waiting(p) => /\ vfork_done[child[p]] = p
                  /\ state[child[p]] = "live"
                  /\ tpc[child[p]] \notin {"exit_mm", "exec_mm", "dead"}
=============================================================================
