----------------------------- MODULE CoreSched ------------------------------
(***************************************************************************)
(* Core scheduling (core.c): the siblings of one core only run tasks with  *)
(* the same cookie together.  pick_next_task() selects for the whole core, *)
(* leaves the siblings' picks in rq->core_pick and tells them to           *)
(* reschedule; sched_core_get() and sched_core_put() switch it on and off  *)
(* with the first and the last cookie; the core's state moves to another   *)
(* leader when a CPU is taken down.                                        *)
(*                                                                         *)
(* A section under the core's lock is one step.  The sequence numbers only *)
(* grow and are only compared for equality: what is kept of them is        *)
(* whether core_pick_seq = core_task_seq (fresh, per leader).  A CPU's     *)
(* core_sched_seq becomes core_pick_seq exactly when its core_pick is      *)
(* cleared, so they differ whenever there is a core_pick to schedule.      *)
(***************************************************************************)
EXTENDS Integers, FiniteSets

CONSTANTS CPUs, Tasks, Cookies, Idle, NULL,
          FirstLeader, Pluggable,  \* who leads at boot, which CPUs come and go
          Prio,       \* of a task; tasks of one level are ordered by vruntime
          MaxEnables  \* bound on how often core scheduling is switched on

NoCookie == 0

ASSUME CoreSchedAssumption ==
  /\ IsFiniteSet(CPUs) /\ IsFiniteSet(Tasks) /\ IsFiniteSet(Cookies)
  /\ Idle \notin Tasks \cup {NULL} /\ NULL \notin Tasks \cup CPUs
  /\ Cookies \cap {NoCookie, NULL, "work"} = {} /\ NULL # "work"
  /\ Prio \in [Tasks -> Nat \ {0}] /\ MaxEnables \in Nat
  /\ FirstLeader \in CPUs /\ Pluggable \subseteq CPUs

VARIABLES on,         \* per task: the CPU it is queued on
          cookie,     \* p->core_cookie
          tree,       \* the tasks in a core_tree
          curr,       \* rq->curr
          resched,    \* the CPUs told to reschedule
          balance,    \* the CPUs with sched_core_balance() queued
          core_pick,  \* rq->core_pick
          core,       \* rq->core
          state,      \* per leader: what rq->core shares
          up, active, \* cpu_smt_mask (and online), cpu_active_mask
          core_enabled, key, count, mutex, user, pending, worker, enables

taskVars == <<on, cookie, tree>>
runVars == <<curr, resched, balance, core_pick>>
hotVars == <<core, up, active>>
getVars == <<core_enabled, key, count, mutex, user, pending, worker, enables>>
vars == <<taskVars, runVars, state, hotVars, getVars>>

queue(c) == {t \in Tasks : on[t] = c}

sched_core_enabled(c) == key /\ core_enabled[c]

prio(t) == IF t = Idle THEN 0 ELSE Prio[t]

cookie_of(t) == IF t = Idle THEN NoCookie ELSE cookie[t]

cookie_match(t, u) == t = Idle \/ u = Idle \/ cookie[t] = cookie[u]

\* The tasks of S that may be first: vruntime decides within a level.
highest(S) == IF S = {} THEN {Idle} ELSE {t \in S : \A u \in S : prio(u) <= prio(t)}

pick_task(c) == highest(queue(c))

sched_core_find(c, k) == highest({t \in queue(c) \cap tree : cookie[t] = k})

InitState == [fresh |-> TRUE, cookie |-> NoCookie, forceidle |-> 0]

\* The types of the variables.
TypeOK ==
  /\ on \in [Tasks -> CPUs \cup {NULL}] /\ cookie \in [Tasks -> Cookies \cup {NoCookie}]
  /\ tree \subseteq Tasks
  /\ curr \in [CPUs -> Tasks \cup {Idle}] /\ resched \subseteq CPUs /\ balance \subseteq CPUs
  /\ core_pick \in [CPUs -> Tasks \cup {Idle, NULL}]
  /\ core \in [CPUs -> CPUs]
  /\ state \in [CPUs -> [fresh : BOOLEAN, cookie : Cookies \cup {NoCookie},
                         forceidle : 0..Cardinality(CPUs)]]
  /\ up \subseteq CPUs /\ active \subseteq CPUs
  /\ core_enabled \in [CPUs -> BOOLEAN] /\ key \in BOOLEAN /\ pending \in BOOLEAN
  /\ count \in 0..Cardinality(Cookies) + 1 /\ mutex \in Cookies \cup {"work", NULL}
  /\ user \in [Cookies -> {"none", "enables", "holds"}]
  /\ worker \in {"idle", "lock", "disable"} /\ enables \in 0..MaxEnables

Init ==
  /\ on = [t \in Tasks |-> NULL] /\ cookie = [t \in Tasks |-> NoCookie] /\ tree = {}
  /\ curr = [c \in CPUs |-> Idle] /\ resched = {} /\ balance = {}
  /\ core_pick = [c \in CPUs |-> NULL]
  /\ core = [c \in CPUs |-> FirstLeader]
  /\ state = [c \in CPUs |-> InitState]
  /\ up = CPUs /\ active = CPUs
  /\ core_enabled = [c \in CPUs |-> FALSE] /\ key = FALSE /\ count = 0 /\ mutex = NULL
  /\ user = [k \in Cookies |-> "none"] /\ pending = FALSE /\ worker = "idle"
  /\ enables = 0

-----------------------------------------------------------------------------
(* Enqueue and dequeue                                                     *)

\* Mutant: the sequence number is not advanced.
task_seq_kept(c) == state' = state

\* core_task_seq++ of c's core.
task_seq(c) ==
  state' = IF sched_core_enabled(c) THEN [state EXCEPT ![core[c]].fresh = FALSE] ELSE state

\* A task is enqueued on c; an idle CPU, and one running a lesser task, is told.
enqueue_task(t, c) ==
  /\ on[t] = NULL /\ c \in active
  /\ on' = [on EXCEPT ![t] = c]
  /\ task_seq(c)
  /\ tree' = IF sched_core_enabled(c) /\ cookie[t] # NoCookie THEN tree \cup {t} ELSE tree
  /\ resched' = IF prio(curr[c]) < prio(t) THEN resched \cup {c} ELSE resched
  /\ UNCHANGED <<cookie, curr, balance, core_pick, hotVars, getVars>>

\* A task that is not running leaves c (migration, or a change of its affinity).
\* The last one to leave a forced-idle CPU makes it look again.
dequeue_task(t, c) ==
  /\ on[t] = c /\ curr[c] # t
  /\ on' = [on EXCEPT ![t] = NULL]
  /\ task_seq(c)
  /\ tree' = tree \ {t}
  /\ resched' = IF /\ sched_core_enabled(c) /\ queue(c) = {t}
                   /\ state[core[c]].forceidle > 0 /\ curr[c] = Idle
                THEN resched \cup {c} ELSE resched
  /\ UNCHANGED <<cookie, curr, balance, core_pick, hotVars, getVars>>

\* The tick, a wakeup preempting a task of its level, or anything else that
\* calls resched_curr().
resched_curr(c) ==
  /\ c \in up \ resched /\ curr[c] # Idle
  /\ resched' = resched \cup {c}
  /\ UNCHANGED <<taskVars, curr, balance, core_pick, state, hotVars, getVars>>

-----------------------------------------------------------------------------
(* pick_next_task() on c, with q(d) queued on each CPU d                    *)

\* queue_core_balance(): only for a core with a cookie and a CPU with queued tasks.
queue_core_balance(c, st, q) ==
  IF st.cookie # NoCookie /\ q # {} THEN balance \cup {c} ELSE balance

\* c switches to t, and picks up a balance callback if it is forced idle.
set_next_task(c, t, st, q) ==
  /\ curr' = [curr EXCEPT ![c] = t]
  /\ balance' = IF st.forceidle > 0 /\ t = Idle
                THEN queue_core_balance(c, st, q) ELSE balance

\* The last core-wide pick is still valid and c has not scheduled it yet.
pick_valid(c) ==
  state[core[c]].fresh /\ core_pick[c] # NULL

pick_scheduled(c) ==
  /\ pick_valid(c)
  /\ core_pick' = [core_pick EXCEPT ![c] = NULL]
  /\ set_next_task(c, core_pick[c], state[core[c]], queue(c))
  /\ resched' = resched \ {c}
  /\ UNCHANGED state

\* Mutant: siblings that were forced idle are forgotten.
pick_uncookied_unsynced(c, S) ==
  /\ state[core[c]].cookie = NoCookie
  /\ \E next \in highest(S) :
       /\ cookie_of(next) = NoCookie
       /\ curr' = [curr EXCEPT ![c] = next]
  /\ core_pick' = [core_pick EXCEPT ![c] = NULL]
  /\ state' = [state EXCEPT ![core[c]].fresh = FALSE]
  /\ resched' = resched \ {c}
  /\ UNCHANGED balance

\* No cookie was running and none is picked here: the siblings are left alone.
\* S is what is queued on c once its previous task is put.
pick_uncookied(c, S) ==
  /\ state[core[c]].cookie = NoCookie /\ state[core[c]].forceidle = 0
  /\ \E next \in highest(S) :
       /\ cookie_of(next) = NoCookie
       /\ curr' = [curr EXCEPT ![c] = next]
  /\ core_pick' = [core_pick EXCEPT ![c] = NULL]
  /\ state' = [state EXCEPT ![core[c]].fresh = FALSE]
  /\ resched' = resched \ {c}
  /\ UNCHANGED balance

\* What fits the core's cookie k among the tasks S of a CPU whose own pick is p.
fitting(p, S, k) ==
  IF p = Idle \/ cookie_of(p) = k THEN {p}
  ELSE IF k = NoCookie THEN {Idle}
  ELSE highest({t \in S \cap tree : cookie[t] = k})

\* Mutant: only a sibling that is to run something is told.
resched_siblings_unforced(c, fin) ==
  resched' = (resched \ {c}) \cup {d \in up \ {c} : curr[d] # fin[d] /\ fin[d] # Idle}

\* The siblings whose pick is not what they run are told.
resched_siblings(c, fin) ==
  resched' = (resched \ {c}) \cup {d \in up \ {c} : curr[d] # fin[d]}

\* The core-wide selection: every sibling's own pick, the highest of them, and
\* for every sibling a task with its cookie, or idle.
pick_core_wide(c, S) ==
  LET q(d) == IF d = c THEN S ELSE queue(d)
      need_sync == state[core[c]].cookie # NoCookie \/ state[core[c]].forceidle > 0
  IN \E own \in [up -> UNION {highest(q(d)) : d \in up}] :
       /\ \A d \in up : own[d] \in highest(q(d))
       /\ ~ need_sync => cookie_of(own[c]) # NoCookie
       /\ \E top \in up :
            /\ \A d \in up : prio(own[d]) <= prio(own[top])
            /\ LET k == cookie_of(own[top])
                   fits(d) == fitting(own[d], q(d), k)
               IN \E fin \in [up -> UNION {fits(d) : d \in up}] :
                    /\ \A d \in up : fin[d] \in fits(d)
                    /\ LET forced == {d \in up : fin[d] = Idle /\ q(d) # {}}
                           st == [fresh |-> TRUE, cookie |-> k,
                                  forceidle |-> Cardinality(forced)]
                       IN /\ state' = [state EXCEPT ![core[c]] = st]
                          /\ set_next_task(c, fin[c], st, S)
                    /\ core_pick' = [d \in CPUs |->
                         IF d \notin up THEN core_pick[d]
                         ELSE IF d = c \/ curr[d] = fin[d] THEN NULL ELSE fin[d]]
                    /\ resched_siblings(c, fin)

\* __pick_next_task(): core scheduling is off.
pick_alone(c, S) ==
  /\ \E next \in highest(S) : curr' = [curr EXCEPT ![c] = next]
  /\ resched' = resched \ {c}
  /\ UNCHANGED <<balance, core_pick>>

\* __schedule() on c that keeps its task runnable.
preempt(c) ==
  /\ c \in resched \ balance
  /\ \/ ~ sched_core_enabled(c) /\ pick_alone(c, queue(c)) /\ UNCHANGED state
     \/ /\ sched_core_enabled(c)
        /\ \/ pick_scheduled(c)
           \/ ~ pick_valid(c) /\ pick_uncookied(c, queue(c))
           \/ ~ pick_valid(c) /\ pick_core_wide(c, queue(c))
  /\ UNCHANGED <<taskVars, hotVars, getVars>>

\* __schedule() on c whose task blocks: its dequeue outdates the last pick.
block(c) ==
  /\ curr[c] # Idle /\ c \notin balance
  /\ on' = [on EXCEPT ![curr[c]] = NULL]
  /\ tree' = tree \ {curr[c]}
  /\ LET S == queue(c) \ {curr[c]}
     IN IF sched_core_enabled(c)
        THEN pick_uncookied(c, S) \/ pick_core_wide(c, S)
        ELSE pick_alone(c, S) /\ UNCHANGED state
  /\ UNCHANGED <<cookie, hotVars, getVars>>

-----------------------------------------------------------------------------
(* Stealing a task with the core's cookie                                  *)

\* The occupation that is compared next is left open: any of them may be taken.
stealable(c, d) ==
  {t \in queue(d) \cap tree :
     cookie[t] = state[core[c]].cookie /\ t # curr[d] /\ t # core_pick[d]}

\* sched_core_balance() on c, run after the switch with the lock dropped.
sched_core_balance(c) ==
  /\ c \in balance
  /\ balance' = balance \ {c}
  /\ \/ UNCHANGED <<on, resched, state>>
     \/ /\ c \notin resched /\ c \in active
        /\ state[core[c]].cookie # NoCookie /\ curr[c] = Idle
        /\ \E d \in up \ {c} : \E t \in stealable(c, d) :
             /\ on' = [on EXCEPT ![t] = c]
             /\ resched' = resched \cup {c} \cup
                  (IF queue(d) = {t} /\ state[core[d]].forceidle > 0 /\ curr[d] = Idle
                   THEN {d} ELSE {})
        /\ task_seq(c)
  /\ UNCHANGED <<cookie, tree, curr, core_pick, hotVars, getVars>>

-----------------------------------------------------------------------------
(* Cookies: sched_core_get() and sched_core_put() around their use          *)

sched_core_get(k) ==
  /\ user[k] = "none"
  /\ \/ /\ count > 0
        /\ count' = count + 1 /\ user' = [user EXCEPT ![k] = "holds"]
        /\ UNCHANGED <<mutex, key, enables>>
     \/ /\ count = 0 /\ mutex = NULL /\ enables < MaxEnables
        /\ mutex' = k /\ key' = TRUE /\ enables' = enables + 1
        /\ user' = [user EXCEPT ![k] = "enables"] /\ UNCHANGED count
  /\ UNCHANGED <<taskVars, runVars, state, hotVars, core_enabled, pending, worker>>

\* Mutant: only the CPUs that are up are flipped.
sched_core_flip_up(on_off) ==
  core_enabled' = [c \in CPUs |-> IF c \in up THEN on_off ELSE core_enabled[c]]

\* __sched_core_flip(): cpus_read_lock() keeps CPUs from coming and going.
sched_core_flip(on_off) == core_enabled' = [c \in CPUs |-> on_off]

sched_core_disable == sched_core_flip(FALSE) /\ key' = FALSE

\* __sched_core_enable() done, the count is raised and the mutex released.
sched_core_enable(k) ==
  /\ user[k] = "enables"
  /\ sched_core_flip(TRUE)
  /\ count' = count + 1 /\ mutex' = NULL /\ user' = [user EXCEPT ![k] = "holds"]
  /\ UNCHANGED <<taskVars, runVars, state, hotVars, key, pending, worker, enables>>

\* The last task with cookie k is gone.
sched_core_put(k) ==
  /\ user[k] = "holds" /\ \A t \in Tasks : cookie[t] # k
  /\ user' = [user EXCEPT ![k] = "none"]
  /\ IF count = 1 THEN pending' = TRUE /\ UNCHANGED count
                  ELSE count' = count - 1 /\ UNCHANGED pending
  /\ UNCHANGED <<taskVars, runVars, state, hotVars, core_enabled, key, mutex, worker, enables>>

\* Mutant: the count is not looked at again under the mutex.
put_work_unchecked ==
  /\ \/ /\ worker = "idle" /\ pending /\ pending' = FALSE
        /\ IF count = 1 THEN worker' = "lock" /\ UNCHANGED count
                        ELSE count' = count - 1 /\ UNCHANGED worker
        /\ UNCHANGED <<mutex, core_enabled, key>>
     \/ /\ worker = "lock" /\ mutex = NULL
        /\ count' = count - 1 /\ mutex' = "work" /\ worker' = "disable"
        /\ UNCHANGED <<pending, core_enabled, key>>
     \/ /\ worker = "disable"
        /\ sched_core_disable
        /\ mutex' = NULL /\ worker' = "idle"
        /\ UNCHANGED <<pending, count>>
  /\ UNCHANGED <<taskVars, runVars, state, hotVars, user, enables>>

\* __sched_core_put(), the work: atomic_dec_and_mutex_lock() and what follows.
put_work ==
  /\ \/ /\ worker = "idle" /\ pending /\ pending' = FALSE
        /\ IF count = 1 THEN worker' = "lock" /\ UNCHANGED count
                        ELSE count' = count - 1 /\ UNCHANGED worker
        /\ UNCHANGED <<mutex, core_enabled, key>>
     \/ /\ worker = "lock" /\ mutex = NULL
        /\ count' = count - 1
        /\ IF count = 1 THEN mutex' = "work" /\ worker' = "disable"
                        ELSE worker' = "idle" /\ UNCHANGED mutex
        /\ UNCHANGED <<pending, core_enabled, key>>
     \/ /\ worker = "disable"
        /\ sched_core_disable
        /\ mutex' = NULL /\ worker' = "idle"
        /\ UNCHANGED <<pending, count>>
  /\ UNCHANGED <<taskVars, runVars, state, hotVars, user, enables>>

\* sched_core_update_cookie() of core_sched.c: t joins or leaves cookie k.
update_cookie(t, k) ==
  /\ k # cookie[t] /\ (k # NoCookie => user[k] = "holds")
  /\ cookie' = [cookie EXCEPT ![t] = k]
  /\ tree' = IF on[t] # NULL /\ k # NoCookie THEN tree \cup {t} ELSE tree \ {t}
  /\ IF on[t] # NULL /\ {cookie[t], k} # {NoCookie}
     THEN task_seq(on[t]) ELSE UNCHANGED state
  /\ resched' = IF on[t] # NULL /\ curr[on[t]] = t THEN resched \cup {on[t]} ELSE resched
  /\ UNCHANGED <<on, curr, balance, core_pick, hotVars, getVars>>

-----------------------------------------------------------------------------
(* CPUs coming and going, one at a time; the core's last CPU stays up       *)

\* A leader hands the shared state to a sibling.  Its own is not read again
\* before another leader's is copied over it.
sched_core_cpu_deactivate(c) ==
  /\ c \in active \cap Pluggable /\ up = active /\ up # {c}
  /\ active' = active \ {c}
  /\ IF core[c] # c THEN UNCHANGED <<core, state>>
     ELSE LET new == CHOOSE d \in up \ {c} : TRUE
          IN /\ core' = [d \in CPUs |-> IF d \in up THEN new ELSE core[d]]
             /\ state' = [state EXCEPT ![new] = state[c], ![c] = InitState]
  /\ UNCHANGED <<taskVars, runVars, up, getVars>>

\* The vacated CPU goes: sched_core_cpu_dying(), and its last switch to idle.
\* stop_machine() has a stopper come and go on every CPU for it.
sched_core_cpu_dying(c) ==
  /\ c \in up \ active /\ queue(c) = {} /\ curr[c] = Idle /\ c \notin balance
  /\ up' = up \ {c} /\ resched' = up \ {c}
  /\ task_seq(c)
  /\ core' = [core EXCEPT ![c] = c]
  /\ core_pick' = IF sched_core_enabled(c) THEN [core_pick EXCEPT ![c] = NULL] ELSE core_pick
  /\ UNCHANGED <<taskVars, curr, balance, active, getVars>>

\* A CPU joins its core.
sched_core_cpu_starting(c) ==
  /\ c \in CPUs \ up /\ up = active
  /\ up' = up \cup {c}
  /\ core' = [core EXCEPT ![c] = CHOOSE d \in up : core[d] = d]
  /\ UNCHANGED <<taskVars, curr, resched, balance, core_pick, state, active, getVars>>

\* It may be given tasks, or gets them back after a failed deactivation.
sched_cpu_activate(c) ==
  /\ c \in up \ active /\ active' = active \cup {c}
  /\ UNCHANGED <<taskVars, runVars, state, core, up, getVars>>

-----------------------------------------------------------------------------
Next ==
  \/ \E t \in Tasks, c \in CPUs : enqueue_task(t, c) \/ dequeue_task(t, c)
  \/ \E c \in CPUs : \/ resched_curr(c) \/ preempt(c) \/ block(c) \/ sched_core_balance(c)
                     \/ sched_core_cpu_deactivate(c) \/ sched_core_cpu_dying(c)
                     \/ sched_core_cpu_starting(c) \/ sched_cpu_activate(c)
  \/ \E k \in Cookies : sched_core_get(k) \/ sched_core_enable(k) \/ sched_core_put(k)
  \/ put_work
  \/ \E t \in Tasks, k \in Cookies \cup {NoCookie} : update_cookie(t, k)

Spec == Init /\ [][Next]_vars

-----------------------------------------------------------------------------
\* What __sched_core_disable() leaves of the last selection (core_pick, the
\* core's cookie, forced idle) is looked at when core scheduling is switched on
\* again; until then:
first_enabling == enables <= 1

\* During the first enabling, two siblings never keep running tasks with
\* different cookies: one of them has been told to reschedule ("there is no
\* inter-sibling overlap between non-matching user state", core.c:5847).
CookieExclusion ==
  first_enabling =>
    \A c, d \in up : c # d /\ sched_core_enabled(c) /\ {c, d} \cap resched = {}
                       => cookie_match(curr[c], curr[d])

\* During the first enabling, the task that the short path of pick_next_task()
\* would switch to is still queued on that CPU ("the task pointers are all still
\* valid", core.c:5711).
PickValid ==
  first_enabling =>
    \A c \in up : sched_core_enabled(c) /\ pick_valid(c)
                    => core_pick[c] \in queue(c) \cup {Idle}

\* The CPUs that are up agree on who leads the core, on a CPU that is up, and on
\* whether its lock is shared: otherwise two of them would take different locks.
LeaderAgreed ==
  \A c, d \in up : core[c] = core[d] /\ core[c] \in up /\ core_enabled[c] = core_enabled[d]

\* Whoever is between sched_core_get() and sched_core_put() has core scheduling
\* on, whatever a delayed put_work of an earlier user does meanwhile, and a
\* runnable task with a cookie is in its tree.
HeldIsEnabled ==
  /\ (\E k \in Cookies : user[k] = "holds") => \A c \in CPUs : sched_core_enabled(c)
  /\ tree = {t \in Tasks : on[t] # NULL /\ cookie[t] # NoCookie}

\* During the first enabling, a CPU with tasks of its own stays idle only as long
\* as some sibling runs a task: when the last of them stops, a CPU is told to look
\* again (sched_core_dequeue(), core.c:199-201).  Nobody else would wake a core that
\* forced itself idle.
CoreNotStalled ==
  first_enabling /\ (\E c \in up : sched_core_enabled(c) /\ queue(c) # {}) =>
    resched \cup balance # {} \/ \E c \in up : curr[c] # Idle
=============================================================================
