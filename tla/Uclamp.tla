------------------------------- MODULE Uclamp -------------------------------
(***************************************************************************)
(* Utilization clamps (core.c): the clamp a task requests, the effective   *)
(* one it is counted with on its runqueue, the buckets of the runqueue,    *)
(* the limits of the task groups and the system defaults; and the life     *)
(* cycle of the groups that carry them.                                    *)
(*                                                                         *)
(* A section under task_rq_lock() is one step.  There is one runqueue: a   *)
(* migration is a dequeue and an enqueue.  bucket_id is always the bucket  *)
(* of the value beside it, so it is not stored.  The holder of             *)
(* uclamp_mutex is in `hold'; the mutex keeps the holders apart, not the   *)
(* tasks, which fork, sleep, wake, change class and move meanwhile.  There *)
(* is no priority inheritance: rt_task() is decided by the task's class.   *)
(***************************************************************************)
EXTENDS Integers, FiniteSets, FiniteSetsExt

CONSTANTS Tasks, FirstTask, Groups, Root, Parent, NULL,
          Scale,     \* SCHED_CAPACITY_SCALE
          Buckets,   \* UCLAMP_BUCKETS
          Sysctls,   \* the writes to the three sysctls: pairs <<which, value>>
          Utils,     \* the writes to cpu.uclamp.min and .max: pairs <<id, value>>
          Attrs,     \* the requests of sched_setattr()
          Writes     \* bound on the number of knobs written

Ids == {"MIN", "MAX"}
Keep == -2    \* sched_attr without SCHED_FLAG_UTIL_CLAMP_MIN (or _MAX)
Unset == -1   \* sched_attr asking for the default again

ASSUME UclampAssumption ==
  /\ FirstTask \in Tasks /\ Root \in Groups /\ NULL \notin Tasks \cup Groups
  /\ Parent \in [Groups \ {Root} -> Groups]
  /\ Scale \in Nat \ {0} /\ Buckets \in 1..Scale /\ Writes \in Nat
  /\ Utils \subseteq Ids \X (0..Scale)
  /\ Sysctls \subseteq {"min", "max", "rt"} \X Nat

VARIABLES used,      \* sched_uclamp_used
          sysctl,    \* sysctl_sched_uclamp_util_{min,max,min_rt_default}
          uclamp_default,
          tg,        \* the task groups
          task,      \* the tasks
          rq,        \* rq->uclamp and rq->uclamp_flags
          hold,      \* the holder of uclamp_mutex, and how far it is
          setter,    \* a sched_setattr() past uclamp_validate()
          early,     \* the tasks that took an RT default still to be validated
          writes     \* knobs written so far

vars == <<used, sysctl, uclamp_default, tg, task, rq, hold, setter, early, writes>>

Free == [pc |-> "free"]

NoSetter == [p |-> NULL, attr |-> NULL]

-----------------------------------------------------------------------------
(* Values, buckets and the runqueue's aggregate                            *)

min(x, y) == IF x <= y THEN x ELSE y

max(x, y) == IF x >= y THEN x ELSE y

Delta == (Scale + Buckets \div 2) \div Buckets

uclamp_bucket_id(v) == min(v \div Delta, Buckets - 1)

uclamp_none(id) == IF id = "MIN" THEN 0 ELSE Scale

uclamp_se_set(v, user) == [value |-> v, user_defined |-> user]

\* rt_prio(): prio < MAX_RT_PRIO, of a task that nobody boosts.
rt_task(k) == k.class \in {"rt", "dl"}

uclamp_enabled(k) == k.class # "dl"

uclamp_tg_restrict(k, id) ==
  LET g == tg[k.tg] IN
  IF k.tg = Root THEN k.req[id].value
  ELSE min(max(k.req[id].value, g.eff["MIN"]), g.eff["MAX"])

uclamp_eff_get(k, id) == min(uclamp_tg_restrict(k, id), uclamp_default[id])

\* The value of the topmost bucket with tasks, or what an idle rq keeps.
uclamp_rq_max_value(r, id, v) ==
  LET busy == {b \in 0..Buckets - 1 : r.tasks[id][b] > 0} IN
  IF busy # {} THEN [r EXCEPT !.value[id] = r.bucket[id][Max(busy)]]
  ELSE IF id = "MAX" THEN [r EXCEPT !.idle = TRUE, !.value[id] = v]
  ELSE [r EXCEPT !.value[id] = 0]

\* Mutant: no uclamp_idle_reset().
uclamp_rq_inc_id_retaining(r, id, v) ==
  LET b == uclamp_bucket_id(v)
      n == r.tasks[id][b] + 1
  IN  [r EXCEPT !.tasks[id][b] = n,
                !.bucket[id][b] = IF n = 1 \/ v > @ THEN v ELSE @,
                !.value[id] = max(@, v)]

uclamp_rq_inc_id(r, id, v) ==
  LET b == uclamp_bucket_id(v)
      n == r.tasks[id][b] + 1
  IN  [r EXCEPT !.tasks[id][b] = n,
                !.bucket[id][b] = IF n = 1 \/ v > @ THEN v ELSE @,
                !.value[id] = IF r.idle THEN v ELSE max(@, v)]

\* The value of an empty bucket is overwritten before it is read again: 0.
uclamp_rq_dec_id(r, id, v) ==
  LET b == uclamp_bucket_id(v)
      n == max(r.tasks[id][b] - 1, 0)
      r1 == [r EXCEPT !.tasks[id][b] = n, !.bucket[id][b] = IF n = 0 THEN 0 ELSE @]
  IN  IF n > 0 \/ r.bucket[id][b] < r.value[id] THEN r1
      ELSE uclamp_rq_max_value(r1, id, v)

\* The effective clamps p is counted with once it is enqueued.
counted(k) ==
  IF used /\ uclamp_enabled(k)
  THEN [k EXCEPT !.eff = [id \in Ids |-> [value |-> uclamp_eff_get(k, id), active |-> TRUE]]]
  ELSE k

\* The value of an inactive clamp is likewise not read again.
inactive == [id \in Ids |-> [value |-> 0, active |-> FALSE]]

uncounted(k) == IF used /\ uclamp_enabled(k) THEN [k EXCEPT !.eff = inactive] ELSE k

uclamp_rq_inc(r, k) ==
  LET c == counted(k)
      r1 == uclamp_rq_inc_id(r, "MIN", c.eff["MIN"].value)
  IN  IF used /\ uclamp_enabled(k)
      THEN [uclamp_rq_inc_id(r1, "MAX", c.eff["MAX"].value) EXCEPT !.idle = FALSE]
      ELSE r

uclamp_rq_dec(r, k) ==
  LET dec(r1, id) == IF k.eff[id].active THEN uclamp_rq_dec_id(r1, id, k.eff[id].value)
                     ELSE r1
  IN  IF used /\ uclamp_enabled(k) THEN dec(dec(r, "MIN"), "MAX") ELSE r

\* dec, then inc with the clamp as it is now; the idle flag is cleared again.
uclamp_rq_reinc(r, k) ==
  LET reinc(r1, id) ==
        IF ~ k.eff[id].active THEN r1
        ELSE LET r2 == uclamp_rq_inc_id(uclamp_rq_dec_id(r1, id, k.eff[id].value),
                                        id, uclamp_eff_get(k, id))
             IN  IF id = "MAX" THEN [r2 EXCEPT !.idle = FALSE] ELSE r2
  IN  reinc(reinc(r, "MIN"), "MAX")

recounted(k) ==
  [k EXCEPT !.eff = [id \in Ids |->
     IF k.eff[id].active THEN [k.eff[id] EXCEPT !.value = uclamp_eff_get(k, id)]
     ELSE k.eff[id]]]

-----------------------------------------------------------------------------
(* Initial state: the boot task, a root group, no knob written yet         *)

None(id) == uclamp_se_set(uclamp_none(id), FALSE)

NoTask == [st |-> "none", class |-> "fair", queued |-> FALSE, by |-> NULL,
           req |-> [id \in Ids |-> None(id)],
           eff |-> inactive,
           tg |-> Root, css |-> NULL]

NoGroup == [st |-> "none", req |-> [id \in Ids |-> 0], eff |-> [id \in Ids |-> 0]]

Clamps == [Ids -> 0..Scale]

\* The types of the variables; `hold' and the requests are seen through their fields.
TypeOK ==
  /\ used \in BOOLEAN /\ DOMAIN sysctl = {"min", "max", "rt"}
  /\ uclamp_default \in Clamps
  /\ \A g \in Groups : /\ tg[g].st \in {"none", "linked", "onlining", "online", "released"}
                       /\ {tg[g].req, tg[g].eff} \subseteq Clamps
  /\ \A p \in Tasks :
       /\ task[p].st \in {"none", "dup", "forked", "linked", "checked", "new", "ready"}
       /\ task[p].class \in {"fair", "rt", "dl"} /\ task[p].queued \in BOOLEAN
       /\ \A id \in Ids : task[p].req[id].value \in Nat /\ task[p].eff[id].value \in 0..Scale
       /\ task[p].tg \in Groups /\ task[p].css \in Groups \cup {NULL}
       /\ task[p].by \in Tasks \cup {NULL}
  /\ rq.value \in Clamps /\ rq.idle \in BOOLEAN
  /\ rq.bucket \in [Ids -> [0..Buckets - 1 -> 0..Scale]]
  /\ rq.tasks \in [Ids -> [0..Buckets - 1 -> 0..Cardinality(Tasks)]]
  /\ hold.pc \in {"free", "walk", "stored", "sync"}
  /\ setter.p \in Tasks \cup {NULL} /\ early \subseteq Tasks /\ writes \in 0..Writes

init_uclamp ==
  /\ sysctl = [min |-> Scale, max |-> Scale, rt |-> Scale]
  /\ uclamp_default = [id \in Ids |-> Scale]
  /\ tg = [g \in Groups |-> IF g = Root
             THEN [st |-> "online", req |-> [id \in Ids |-> Scale],
                   eff |-> [id \in Ids |-> Scale]]
             ELSE NoGroup]

init_uclamp_rq ==
  rq = [value |-> [id \in Ids |-> uclamp_none(id)], idle |-> TRUE,
        bucket |-> [id \in Ids |-> [b \in 0..Buckets - 1 |-> 0]],
        tasks |-> [id \in Ids |-> [b \in 0..Buckets - 1 |-> 0]]]

Init ==
  /\ init_uclamp /\ init_uclamp_rq
  /\ used = FALSE /\ hold = Free /\ setter = NoSetter /\ early = {} /\ writes = 0
  /\ task = [p \in Tasks |-> IF p = FirstTask
               THEN [NoTask EXCEPT !.st = "ready", !.queued = TRUE, !.css = Root]
               ELSE NoTask]

linked(p) == task[p].st \in {"linked", "checked", "new", "ready"}

\* A task is between its new css and sched_move_task().
attaching == \E p \in Tasks : task[p].css # NULL /\ task[p].css # task[p].tg

write == writes < Writes /\ writes' = writes + 1

-----------------------------------------------------------------------------
(* Tasks: enqueue, dequeue, fork, exit                                     *)

enqueue_task(p) ==
  /\ task[p].st = "ready" /\ ~ task[p].queued
  /\ rq' = uclamp_rq_inc(rq, task[p])
  /\ task' = [task EXCEPT ![p] = [counted(@) EXCEPT !.queued = TRUE]]
  /\ UNCHANGED <<used, sysctl, uclamp_default, tg, hold, setter, early, writes>>

dequeue_task(p) ==
  /\ task[p].st = "ready" /\ task[p].queued
  /\ rq' = uclamp_rq_dec(rq, task[p])
  /\ task' = [task EXCEPT ![p] = [uncounted(@) EXCEPT !.queued = FALSE]]
  /\ UNCHANGED <<used, sysctl, uclamp_default, tg, hold, setter, early, writes>>

forkRest == <<used, sysctl, uclamp_default, tg, rq, hold, setter, writes>>

\* dup_task_struct(): the parent q's clamps are copied, the active flags too.
dup_task_struct(q, p) ==
  /\ task[p].st = "none" /\ task[q].st = "ready" /\ task[q].queued
  /\ \A r \in Tasks : task[r].by # q
  /\ task' = [task EXCEPT ![p] = [task[q] EXCEPT !.st = "dup", !.by = q, !.queued = FALSE,
                                                 !.css = NULL]]
  /\ early' = IF q \in early THEN early \cup {p} ELSE early \ {p}
  /\ UNCHANGED forkRest

\* With sched_reset_on_fork the child starts with no clamps in the fair class.
uclamp_fork(k, reset) ==
  [k EXCEPT !.eff = inactive,
            !.req = [id \in Ids |-> IF reset THEN None(id) ELSE k.req[id]]]

\* The child's priority is its parent's normal_prio at this point.  A child in
\* the deadline class is refused (-EAGAIN).
sched_fork(p) ==
  /\ task[p].st = "dup"
  /\ LET class == task[task[p].by].class IN
     \E reset \in BOOLEAN :
       task' = [task EXCEPT ![p] =
                  IF class = "dl" /\ ~ reset THEN NoTask
                  ELSE [uclamp_fork(@, reset) EXCEPT
                          !.st = "forked", !.class = IF reset THEN "fair" ELSE class]]
  /\ UNCHANGED <<forkRest, early>>

\* A later failure of copy_process() drops the child again.
fork_failed(p) ==
  /\ task[p].st = "forked"
  /\ task' = [task EXCEPT ![p] = NoTask]
  /\ UNCHANGED <<forkRest, early>>

\* Mutant: the child keeps the copied sched_task_group.
sched_cgroup_fork_copied(p) ==
  /\ task[p].st = "forked" /\ ~ attaching
  /\ task' = [task EXCEPT ![p].st = "linked"]
  /\ UNCHANGED <<forkRest, early>>

\* sched_cgroup_fork(): p->sched_task_group is the parent's css, which cannot
\* change until cgroup_post_fork() (cgroup_threadgroup_rwsem).  Then the child is
\* linked under tasklist_lock.
sched_cgroup_fork(p) ==
  /\ task[p].st = "forked" /\ ~ attaching
  /\ task' = [task EXCEPT ![p].tg = task[task[p].by].css, ![p].st = "linked"]
  /\ UNCHANGED <<forkRest, early>>

\* Takes the RT default for p; `early' remembers that it was not yet validated.
took_default(p) == early' = IF hold.pc = "stored" THEN early \cup {p} ELSE early \ {p}

\* uclamp_update_util_min_rt_default(): under the lock, unless the user set it.
synced(k) == IF k.req["MIN"].user_defined THEN k
             ELSE [k EXCEPT !.req["MIN"] = uclamp_se_set(sysctl.rt, FALSE)]

\* cgroup_post_fork() puts the child on the css's task list, then
\* cpu_cgroup_fork() sets its group.
cpu_cgroup_fork(k) ==
  LET g == task[k.by].css IN [k EXCEPT !.st = "new", !.by = NULL, !.css = g, !.tg = g]

\* Mutant: no uclamp_post_fork().
sched_post_fork_unsynced(p) ==
  /\ task[p].st = "linked"
  /\ task' = [task EXCEPT ![p] = cpu_cgroup_fork(@)]
  /\ UNCHANGED <<forkRest, early>>

\* uclamp_post_fork(): rt_task() is looked at before the lock is taken.
sched_post_fork(p) ==
  \/ /\ task[p].st = "linked"
     /\ task' = [task EXCEPT ![p] = IF rt_task(@) THEN [@ EXCEPT !.st = "checked"]
                                    ELSE cpu_cgroup_fork(@)]
     /\ UNCHANGED <<forkRest, early>>
  \/ /\ task[p].st = "checked"
     /\ task' = [task EXCEPT ![p] = cpu_cgroup_fork(synced(@))]
     /\ took_default(p)
     /\ UNCHANGED forkRest

wake_up_new_task(p) ==
  /\ task[p].st = "new"
  /\ rq' = uclamp_rq_inc(rq, task[p])
  /\ task' = [task EXCEPT ![p] = [counted(@) EXCEPT !.queued = TRUE, !.st = "ready"]]
  /\ UNCHANGED <<used, sysctl, uclamp_default, tg, hold, setter, early, writes>>

\* The last dequeue of a task that exits.
exit_task(p) ==
  /\ task[p].st = "ready" /\ task[p].queued /\ p # FirstTask
  /\ \A q \in Tasks : task[q].by # p
  /\ setter.p # p
  /\ task[p].css = task[p].tg
  /\ rq' = uclamp_rq_dec(rq, task[p])
  /\ task' = [task EXCEPT ![p] = NoTask]
  /\ early' = early \ {p}
  /\ UNCHANGED <<used, sysctl, uclamp_default, tg, hold, setter, writes>>

-----------------------------------------------------------------------------
(* sched_setattr()                                                         *)

clamps(attr) == attr["MIN"] # Keep \/ attr["MAX"] # Keep   \* SCHED_FLAG_UTIL_CLAMP

\* The values as they will be; -1 asks for the default and is not compared.
uclamp_validate(k, attr) ==
  LET util(id) == IF attr[id] = Keep THEN k.req[id].value ELSE attr[id] IN
  /\ \A id \in Ids : attr[id] # Keep => attr[id] + 1 <= Scale + 1
  /\ util("MIN") # Unset /\ util("MAX") # Unset => util("MIN") <= util("MAX")

\* A request that passes the checks made before the locks.
setattr_checks(p, attr) ==
  /\ linked(p) /\ setter = NoSetter /\ write
  /\ clamps(attr) => uclamp_validate(task[p], attr)
  /\ used' = (used \/ clamps(attr))
  /\ setter' = [p |-> p, attr |-> attr]
  /\ UNCHANGED <<sysctl, uclamp_default, tg, task, rq, hold, early>>

uclamp_reset(k, attr, id) ==
  \/ ~ clamps(attr) /\ ~ k.req[id].user_defined
  \/ attr[id] = Unset

\* k is already in its new class.
__setscheduler_uclamp(k, attr) ==
  [k EXCEPT !.req = [id \in Ids |->
     IF uclamp_reset(k, attr, id)
     THEN uclamp_se_set(IF rt_task(k) /\ id = "MIN" THEN sysctl.rt ELSE uclamp_none(id),
                        FALSE)
     ELSE IF attr[id] >= 0 THEN uclamp_se_set(attr[id], TRUE)
     ELSE k.req[id]]]

\* The section under task_rq_lock(): the task is dequeued from its old class
\* and enqueued in its new one around the change.  Within a class another nice
\* value, priority or deadline is a change too, and may or may not be asked for.
__sched_setscheduler ==
  /\ setter # NoSetter
  /\ setter' = NoSetter
  /\ LET p == setter.p
         attr == setter.attr
         k == task[p]
         k1 == __setscheduler_uclamp([(IF k.queued THEN uncounted(k) ELSE k)
                                        EXCEPT !.class = attr.class], attr)
         r1 == uclamp_rq_dec(rq, k)
     IN  \/ /\ attr.class = k.class /\ ~ clamps(attr)
            /\ UNCHANGED <<task, rq, early>>
         \/ /\ task' = [task EXCEPT ![p] = IF k.queued THEN counted(k1) ELSE k1]
            /\ rq' = IF k.queued THEN uclamp_rq_inc(r1, k1) ELSE rq
            /\ IF rt_task(k1) /\ uclamp_reset(k, attr, "MIN")
               THEN took_default(p)
               ELSE early' = early
  /\ UNCHANGED <<used, sysctl, uclamp_default, tg, hold, writes>>

-----------------------------------------------------------------------------
(* Task groups                                                             *)

\* css_alloc(): sched_create_group() with alloc_uclamp_sched_group(); the css
\* is then linked, so that a walk finds it before tg->parent is set.
sched_create_group(g) ==
  /\ tg[g].st = "none" /\ tg[Parent[g]].st = "online"
  /\ tg' = [tg EXCEPT ![g] = [st |-> "linked", req |-> [id \in Ids |-> uclamp_none(id)],
                              eff |-> tg[Parent[g]].eff]]
  /\ UNCHANGED <<used, sysctl, uclamp_default, task, rq, hold, setter, early, writes>>

sched_online_group(g) ==
  /\ tg[g].st = "linked"
  /\ tg' = [tg EXCEPT ![g].st = "onlining"]
  /\ UNCHANGED <<used, sysctl, uclamp_default, task, rq, hold, setter, early, writes>>

walk(g) == [pc |-> "walk", css |-> NULL, left |-> {}, todo |-> {g}]

\* Mutant: no cpu_util_update_eff() for the new group.
cpu_cgroup_css_online_unpropagated(g) ==
  /\ tg[g].st = "onlining" /\ hold = Free
  /\ tg' = [tg EXCEPT ![g].st = "online"]
  /\ UNCHANGED <<used, sysctl, uclamp_default, task, rq, hold, setter, early, writes>>

\* The rest of css_online(): the effective clamps, under uclamp_mutex.
cpu_cgroup_css_online(g) ==
  /\ tg[g].st = "onlining" /\ hold = Free
  /\ hold' = walk(g)
  /\ tg' = [tg EXCEPT ![g].st = "online"]
  /\ UNCHANGED <<used, sysctl, uclamp_default, task, rq, setter, early, writes>>

\* css_released() and, a grace period later, css_free(): an empty group goes.
sched_release_group(g) ==
  /\ tg[g].st = "online" /\ g # Root
  /\ \A p \in Tasks : task[p].css # NULL => g \notin {task[p].css, task[p].tg}
  /\ \A h \in Groups \ {Root} : Parent[h] = g => tg[h].st \in {"none", "released"}
  /\ tg' = [tg EXCEPT ![g].st = "released"]
  /\ UNCHANGED <<used, sysctl, uclamp_default, task, rq, hold, setter, early, writes>>

sched_unregister_group(g) ==
  /\ tg[g].st = "released"
  /\ hold = Free      \* a walk holds rcu_read_lock()
  /\ \A h \in Groups \ {Root} : Parent[h] = g => tg[h].st = "none"
  /\ tg' = [tg EXCEPT ![g] = NoGroup]
  /\ UNCHANGED <<used, sysctl, uclamp_default, task, rq, hold, setter, early, writes>>

\* cgroup's attach: the css first (TASK_NEW is refused by can_attach()) ...
cpu_cgroup_can_attach(p, g) ==
  /\ task[p].st = "ready" /\ ~ attaching
  /\ \A q \in Tasks : task[q].st \notin {"linked", "checked"}
  /\ tg[g].st = "online" /\ g # task[p].css
  /\ task' = [task EXCEPT ![p].css = g]
  /\ UNCHANGED <<used, sysctl, uclamp_default, tg, rq, hold, setter, early, writes>>

\* ... then the group, with the task dequeued and enqueued around it.
sched_move_task(p) ==
  /\ task[p].css # NULL /\ task[p].css # task[p].tg
  /\ LET k == task[p]
         k1 == [(IF k.queued THEN uncounted(k) ELSE k) EXCEPT !.tg = k.css]
     IN  /\ task' = [task EXCEPT ![p] = IF k.queued THEN counted(k1) ELSE k1]
         /\ rq' = IF k.queued THEN uclamp_rq_inc(uclamp_rq_dec(rq, k), k1) ELSE rq
  /\ UNCHANGED <<used, sysctl, uclamp_default, tg, hold, setter, early, writes>>

-----------------------------------------------------------------------------
(* The holders of uclamp_mutex                                             *)

eff_clamps(g) ==
  LET capped(id) == IF g = Root \/ tg[g].st = "linked" THEN tg[g].req[id]
                    ELSE min(tg[g].req[id], tg[Parent[g]].eff[id])
  IN  [id \in Ids |-> IF id = "MIN" THEN min(capped("MIN"), capped("MAX"))
                      ELSE capped("MAX")]

\* A css of the walk: its own clamps.  If they are unchanged the walk does not
\* go below it.
cpu_util_update_eff ==
  /\ hold.pc = "walk" /\ hold.css = NULL
  /\ \E g \in hold.todo :
       LET same == eff_clamps(g) = tg[g].eff IN
       /\ tg' = [tg EXCEPT ![g].eff = eff_clamps(g)]
       /\ hold' = [hold EXCEPT !.todo = @ \ {g}, !.css = IF same THEN NULL ELSE g,
                               !.left = IF same THEN {}
                                        ELSE {p \in Tasks : task[p].css = g}]
  /\ UNCHANGED <<used, sysctl, uclamp_default, task, rq, setter, early, writes>>

\* uclamp_update_active_tasks(): each task still in the css, under its rq lock.
uclamp_update_active ==
  /\ hold.pc = "walk" /\ hold.css # NULL
  /\ \E p \in hold.left :
       LET here == task[p].css = hold.css IN
       /\ hold' = [hold EXCEPT !.left = @ \ {p}]
       /\ task' = IF here THEN [task EXCEPT ![p] = recounted(@)] ELSE task
       /\ rq' = IF here THEN uclamp_rq_reinc(rq, task[p]) ELSE rq
  /\ UNCHANGED <<used, sysctl, uclamp_default, tg, setter, early, writes>>

\* css_for_each_descendant_pre() goes on to the children.
walk_children ==
  /\ hold.pc = "walk" /\ hold.css # NULL /\ hold.left = {}
  /\ hold' = [hold EXCEPT !.css = NULL, !.todo = @ \cup
                {g \in Groups \ {Root} : Parent[g] = hold.css /\
                                         tg[g].st \in {"linked", "onlining", "online"}}]
  /\ UNCHANGED <<used, sysctl, uclamp_default, tg, task, rq, setter, early, writes>>

walk_ends ==
  /\ hold.pc = "walk" /\ hold.css = NULL /\ hold.todo = {}
  /\ hold' = Free
  /\ UNCHANGED <<used, sysctl, uclamp_default, tg, task, rq, setter, early, writes>>

\* A write to cpu.uclamp.min or cpu.uclamp.max of g.
cpu_uclamp_write(g, id, util) ==
  /\ tg[g].st = "online" /\ g # Root /\ hold = Free /\ write
  /\ used' = TRUE
  /\ tg' = [tg EXCEPT ![g].req[id] = util]
  /\ hold' = walk(g)
  /\ UNCHANGED <<sysctl, uclamp_default, task, rq, setter, early>>

\* sysctl_sched_uclamp_handler(): proc_dointvec() stores before it is validated.
sysctl_store(which, v) ==
  /\ hold = Free /\ write
  /\ sysctl' = [sysctl EXCEPT ![which] = v]
  /\ hold' = [pc |-> "stored", old |-> sysctl]
  /\ UNCHANGED <<used, uclamp_default, tg, task, rq, setter, early>>

sysctl_valid ==
  sysctl.min <= sysctl.max /\ sysctl.max <= Scale /\ sysctl.rt <= Scale

\* Only one of the three has changed: the root group and the walk below it, or
\* the RT default and the walk over the tasks.
sysctl_sched_uclamp_handler ==
  /\ hold.pc = "stored"
  /\ \/ /\ ~ sysctl_valid
        /\ sysctl' = hold.old
        /\ hold' = Free
        /\ UNCHANGED <<used, uclamp_default, tg, early>>
     \/ /\ sysctl_valid /\ sysctl = hold.old
        /\ hold' = Free
        /\ early' = {}
        /\ UNCHANGED <<used, sysctl, uclamp_default, tg>>
     \/ /\ sysctl_valid /\ sysctl.rt = hold.old.rt /\ sysctl # hold.old
        /\ LET new == [id \in Ids |-> IF id = "MIN" THEN sysctl.min ELSE sysctl.max] IN
           /\ uclamp_default' = new
           /\ tg' = [tg EXCEPT ![Root].req = new]
        /\ used' = TRUE
        /\ hold' = walk(Root)
        /\ early' = {}
        /\ UNCHANGED sysctl
     \/ /\ sysctl_valid /\ sysctl.rt # hold.old.rt
        /\ used' = TRUE
        /\ hold' = [pc |-> "sync", left |-> {p \in Tasks : linked(p)}, locking |-> NULL]
        /\ early' = {}
        /\ UNCHANGED <<sysctl, uclamp_default, tg>>
  /\ UNCHANGED <<task, rq, setter, writes>>

\* for_each_process_thread(): rt_task() is looked at before the lock is taken.
uclamp_sync_util_min_rt_default ==
  /\ hold.pc = "sync"
  /\ \/ /\ hold.locking = NULL
        /\ \E p \in hold.left :
             hold' = [hold EXCEPT !.left = @ \ {p},
                                  !.locking = IF rt_task(task[p]) THEN p ELSE NULL]
        /\ UNCHANGED task
     \/ /\ hold.locking # NULL
        /\ hold' = [hold EXCEPT !.locking = NULL]
        /\ task' = IF task[hold.locking].st = "none" THEN task
                   ELSE [task EXCEPT ![hold.locking] = synced(@)]
     \/ /\ hold.locking = NULL /\ hold.left = {}
        /\ hold' = Free
        /\ UNCHANGED task
  /\ UNCHANGED <<used, sysctl, uclamp_default, tg, rq, setter, early, writes>>

Next ==
  \/ \E p \in Tasks :
       \/ enqueue_task(p) \/ dequeue_task(p) \/ exit_task(p)
       \/ \E q \in Tasks : dup_task_struct(q, p)
       \/ sched_fork(p) \/ fork_failed(p) \/ sched_cgroup_fork(p)
       \/ sched_post_fork(p) \/ wake_up_new_task(p)
       \/ \E attr \in Attrs : setattr_checks(p, attr)
       \/ \E g \in Groups : cpu_cgroup_can_attach(p, g)
       \/ sched_move_task(p)
  \/ __sched_setscheduler
  \/ \E g \in Groups :
       \/ sched_online_group(g) \/ cpu_cgroup_css_online(g)
       \/ sched_release_group(g) \/ sched_unregister_group(g)
       \/ \E w \in Utils : cpu_uclamp_write(g, w[1], w[2])
  \/ \E g \in Groups \ {Root} : sched_create_group(g)
  \/ cpu_util_update_eff \/ uclamp_update_active \/ walk_children \/ walk_ends
  \/ \E w \in Sysctls : sysctl_store(w[1], w[2])
  \/ sysctl_sched_uclamp_handler \/ uclamp_sync_util_min_rt_default

Spec == Init /\ [][Next]_vars

-----------------------------------------------------------------------------
(* Properties                                                              *)

counts(id, b) ==
  {p \in Tasks : task[p].st # "dup" /\ task[p].eff[id].active
                 /\ uclamp_bucket_id(task[p].eff[id].value) = b}

\* The runqueue's clamp is what its runnable tasks ask for: every bucket counts
\* exactly the queued tasks that were counted in it, its value is no less than
\* theirs, and the runqueue's value is that of its topmost non-empty bucket.
\* (The static key may be enabled with tasks queued, the clamps may change
\* under queued tasks, a fork copies the active flags of its parent.)
RqClampExact ==
  \A id \in Ids :
    LET busy == {b \in 0..Buckets - 1 : rq.tasks[id][b] > 0} IN
    /\ \A b \in 0..Buckets - 1 :
         /\ rq.tasks[id][b] = Cardinality(counts(id, b))
         /\ \A p \in counts(id, b) : task[p].queued /\ task[p].eff[id].value <= rq.bucket[id][b]
    /\ busy # {} => rq.value[id] = rq.bucket[id][Max(busy)] /\ ~ rq.idle
    /\ busy = {} => rq.idle

\* Either sched_post_fork() sees the new RT default or the walk over the tasks
\* sees the new task: when no write is in progress every RT task that did not
\* set its own minimum has the default, whatever forks and class changes ran
\* meanwhile.  The tasks in `early' took a value that was then rejected.
RtDefaultSynced ==
  hold.pc \notin {"stored", "sync"} =>
    \A p \in Tasks \ early :
      /\ task[p].st \in {"new", "ready"} /\ rt_task(task[p])
      /\ ~ task[p].req["MIN"].user_defined
      => task[p].req["MIN"].value = sysctl.rt

\* Between two writes the effective clamps of every group are the requested
\* ones under the limits of its parent, also for a group created meanwhile,
\* and a runnable task is not counted above the maximum its group and the
\* system allow.
LimitsApply ==
  hold = Free =>
    /\ \A g \in Groups : tg[g].st = "online" => tg[g].eff = eff_clamps(g)
    /\ \A p \in Tasks :
         task[p].css = task[p].tg /\ task[p].eff["MAX"].active =>
           task[p].eff["MAX"].value = uclamp_eff_get(task[p], "MAX")

\* A task that anyone can see never points to a freed group, although the
\* parent it was copied from may have left that group during the fork.
GroupAlive ==
  \A p \in Tasks :
    task[p].st \notin {"none", "dup", "forked"} => tg[task[p].tg].st # "none"

=============================================================================
