------------------------------ MODULE Sharing -------------------------------
(***************************************************************************)
(* Which tasks share what (fork.c): clone() and its relatives decide it    *)
(* for a new task, unshare() takes it back for a running one.  Objects and *)
(* namespaces are numbers, and a new one is the least that nobody uses.    *)
(*                                                                         *)
(* A task only ever changes its own pointers, so a clone is one step.      *)
(* unshare() reads the counts that others change, makes its copies, and    *)
(* switches at the end: one step per count it reads, and one for the rest. *)
(***************************************************************************)
EXTENDS Integers, FiniteSets

CONSTANTS MaxTasks,      \* tasks there may be at a time; the first is init
          MaxCalls,      \* bound on the calls of clone() and unshare()
          CloneFlags,    \* the flags of clone() and of unshare() that are tried
          UnshareRequests

Tasks == 1..MaxTasks
Ids == 1..(2 * MaxTasks + 1)

ASSUME SharingAssumption ==
  /\ MaxTasks \in Nat \ {0} /\ MaxCalls \in Nat
  /\ CloneFlags \subseteq {"VM", "FS", "FILES", "SIGHAND", "THREAD",
                           "NEWNS", "NEWUSER", "NEWPID"}
  /\ UnshareRequests \subseteq SUBSET {"VM", "FS", "FILES", "SIGHAND", "THREAD",
                                       "NEWNS", "NEWUSER", "NEWPID", "NEWTIME"}

VARIABLES live,
          task,          \* per task: what its task_struct points to
          users, count,  \* fs->users, files->count
          unshare,       \* per task: how far it is in ksys_unshare()
          calls          \* made so far

vars == <<live, task, users, count, unshare, calls>>

NoTask == [group |-> 0, mm |-> 0, sighand |-> 0, fs |-> 0, files |-> 0, mnt |-> 0,
           user |-> 0, pid |-> 0, pid_for_children |-> 0, time |-> 0, time_for_children |-> 0]

\* new_fs and new_fd are 0 for NULL.
Idle == [at |-> "none", flags |-> {}, new_fs |-> 0, new_fd |-> 0]

\* The types of the variables.
TypeOK ==
  /\ live \subseteq Tasks
  /\ task \in [Tasks -> [DOMAIN NoTask -> Nat]]
  /\ {users, count} \subseteq [Ids -> 0..2 * MaxTasks]
  /\ unshare \in [Tasks -> [at : {"none", "fd", "ns"}, flags : SUBSET (CloneFlags \cup UNION UnshareRequests),
                            new_fs : Ids \cup {0}, new_fd : Ids \cup {0}]]
  /\ calls \in 0..MaxCalls

Init ==
  /\ live = {1}
  /\ task = [t \in Tasks |-> IF t = 1 THEN [f \in DOMAIN NoTask |-> 1] ELSE NoTask]
  /\ users = [i \in Ids |-> IF i = 1 THEN 1 ELSE 0] /\ count = users
  /\ unshare = [t \in Tasks |-> Idle] /\ calls = 0

least(S) == CHOOSE i \in S : \A j \in S : i <= j

\* An object that no task points to through the fields F.
unused(F) == least(Ids \ {task[t][f] : t \in live, f \in F})

-----------------------------------------------------------------------------
(* clone()                                                                 *)

\* The flags that the callers of kernel_clone() and copy_process() may pass.
fork == {}
vfork == {"VM"}
create_io_thread == {"VM", "FS", "FILES", "SIGHAND", "THREAD"}
kernel_thread == {F \cup {"VM"} : F \in SUBSET CloneFlags}
clone == SUBSET CloneFlags

Requests == {fork, vfork, create_io_thread} \cup kernel_thread \cup clone

\* Mutant: shared signal handlers do not ask for shared VM.
copy_process_allowed_novm(t, F) ==
  /\ "NEWNS" \in F => "FS" \notin F
  /\ "NEWUSER" \in F => "FS" \notin F
  /\ "THREAD" \in F => "SIGHAND" \in F
  /\ "THREAD" \in F => /\ F \cap {"NEWUSER", "NEWPID"} = {}
                       /\ task[t].pid = task[t].pid_for_children
  /\ F \cap {"THREAD", "VM"} # {} => task[t].time = task[t].time_for_children

\* The combinations that copy_process() does not refuse with -EINVAL.
copy_process_allowed(t, F) ==
  /\ "NEWNS" \in F => "FS" \notin F
  /\ "NEWUSER" \in F => "FS" \notin F
  /\ "THREAD" \in F => "SIGHAND" \in F
  /\ "SIGHAND" \in F => "VM" \in F
  /\ "THREAD" \in F => /\ F \cap {"NEWUSER", "NEWPID"} = {}
                       /\ task[t].pid = task[t].pid_for_children
  /\ F \cap {"THREAD", "VM"} # {} => task[t].time = task[t].time_for_children

\* copy_files() and copy_fs(): the parent's, or a copy of it.
copy_fs(t, F) == IF "FS" \in F THEN task[t].fs ELSE least({i \in Ids : users[i] = 0})
copy_files(t, F) == IF "FILES" \in F THEN task[t].files ELSE least({i \in Ids : count[i] = 0})

shared(t, F, flag, f) == IF flag \in F THEN task[t][f] ELSE unused({f})

\* copy_process() of the child c, for the rest.
copy_process(t, c, F) ==
  [group   |-> IF "THREAD" \in F THEN task[t].group ELSE c,
   mm      |-> shared(t, F, "VM", "mm"),
   sighand |-> shared(t, F, "SIGHAND", "sighand"),
   fs      |-> copy_fs(t, F),
   files   |-> copy_files(t, F),
   mnt     |-> IF "NEWNS" \in F THEN unused({"mnt"}) ELSE task[t].mnt,
   user    |-> IF "NEWUSER" \in F THEN unused({"user"}) ELSE task[t].user,
   pid     |-> IF "NEWPID" \in F THEN unused({"pid", "pid_for_children"})
               ELSE task[t].pid_for_children,
   pid_for_children |-> IF "NEWPID" \in F THEN unused({"pid", "pid_for_children"})
                        ELSE task[t].pid_for_children,
   time    |-> task[t].time_for_children,
   time_for_children |-> task[t].time_for_children]

\* A slot whose task is gone and is no group's zombie leader.
free_slots == {c \in Tasks \ live : \A t \in live : task[t].group # c}

kernel_clone(t) ==
  /\ t \in live /\ unshare[t] = Idle /\ free_slots # {}
  /\ calls < MaxCalls /\ calls' = calls + 1
  /\ \E F \in Requests :
       /\ copy_process_allowed(t, F)
       /\ LET c == least(free_slots)
              new == copy_process(t, c, F)
          IN /\ live' = live \cup {c}
             /\ task' = [task EXCEPT ![c] = new]
             /\ users' = [users EXCEPT ![new.fs] = @ + 1]
             /\ count' = [count EXCEPT ![new.files] = @ + 1]
  /\ UNCHANGED unshare

\* do_exit(): exit_files() and exit_fs() drop the task's references.
do_exit(t) ==
  /\ t \in live \ {1} /\ unshare[t] = Idle
  /\ live' = live \ {t}
  /\ users' = [users EXCEPT ![task[t].fs] = @ - 1]
  /\ count' = [count EXCEPT ![task[t].files] = @ - 1]
  /\ task' = [task EXCEPT ![t] = NoTask]
  /\ UNCHANGED <<unshare, calls>>

-----------------------------------------------------------------------------
(* unshare()                                                               *)

\* Mutant: a new mount namespace is entered with the old, shared root.
implied_root(F) ==
  F \cup (IF "NEWUSER" \in F THEN {"THREAD", "FS"} ELSE {})
    \cup (IF "VM" \in F THEN {"SIGHAND"} ELSE {})
    \cup (IF F \cap {"VM", "SIGHAND"} # {} THEN {"THREAD"} ELSE {})

\* What must be unshared along with F.
implied(F) ==
  F \cup (IF "NEWUSER" \in F THEN {"THREAD", "FS"} ELSE {})
    \cup (IF "VM" \in F THEN {"SIGHAND"} ELSE {})
    \cup (IF F \cap {"VM", "SIGHAND"} # {} THEN {"THREAD"} ELSE {})
    \cup (IF "NEWNS" \in F THEN {"FS"} ELSE {})

\* A dead leader stays on the list of its group.
thread_group_empty(t) ==
  task[t].group = t /\ \A u \in live \ {t} : task[u].group # t

alone(t, f) == \A u \in live \ {t} : task[u][f] # task[t][f]

\* Unsharing threads, handlers or VM is not implemented: there must be nothing
\* to unshare.
check_unshare_flags(t, F) ==
  /\ F \cap {"THREAD", "SIGHAND", "VM"} # {} => thread_group_empty(t)
  /\ F \cap {"SIGHAND", "VM"} # {} => alone(t, "sighand")
  /\ "VM" \in F => alone(t, "mm")

\* The flags that matter after unshare_fs().
Namespaces == {"NEWNS", "NEWUSER", "NEWPID", "NEWTIME"}
Later == {"FILES"} \cup Namespaces

\* exec's unshare_files() is unshare() of the descriptors, and no more.
unshare_files == {"FILES"}

\* The labels: give back the copies made so far.
cleanup(t, fs, fd) ==
  /\ users' = IF fs = 0 THEN users ELSE [users EXCEPT ![fs] = @ - 1]
  /\ count' = IF fd = 0 THEN count ELSE [count EXCEPT ![fd] = @ - 1]
  /\ unshare' = [unshare EXCEPT ![t] = Idle]

\* ksys_unshare() up to unshare_fs(), which looks at fs->users without the lock.
unshare_fs(t) ==
  /\ t \in live /\ unshare[t] = Idle
  /\ calls < MaxCalls /\ calls' = calls + 1
  /\ \E G \in UnshareRequests \cup {unshare_files} :
       LET F == implied(G)
           next(fs) == [at |-> "fd", flags |-> F \cap Later, new_fs |-> fs, new_fd |-> 0]
           new == least({i \in Ids : users[i] = 0})
       IN /\ check_unshare_flags(t, F)
          /\ IF "FS" \in F /\ users[task[t].fs] > 1
             THEN /\ users' = [users EXCEPT ![new] = 1]
                  /\ unshare' = [unshare EXCEPT ![t] = next(new)]
             ELSE unshare' = [unshare EXCEPT ![t] = next(0)] /\ UNCHANGED users
  /\ UNCHANGED <<live, task, count>>

\* Mutant: a failure to copy the descriptors forgets the copy of the root.
unshare_fd_leaking(t) ==
  /\ unshare[t].at = "fd"
  /\ LET new == least({i \in Ids : count[i] = 0})
     IN IF "FILES" \in unshare[t].flags /\ count[task[t].files] > 1
        THEN \/ /\ count' = [count EXCEPT ![new] = 1]
                /\ unshare' = [unshare EXCEPT ![t].at = "ns", ![t].new_fd = new]
                /\ UNCHANGED users
             \/ cleanup(t, 0, 0)
        ELSE unshare' = [unshare EXCEPT ![t].at = "ns"] /\ UNCHANGED <<users, count>>
  /\ UNCHANGED <<live, task, calls>>

unshare_fd(t) ==
  /\ unshare[t].at = "fd"
  /\ LET new == least({i \in Ids : count[i] = 0})
     IN IF "FILES" \in unshare[t].flags /\ count[task[t].files] > 1
        THEN \/ /\ count' = [count EXCEPT ![new] = 1]
                /\ unshare' = [unshare EXCEPT ![t].at = "ns", ![t].new_fd = new]
                /\ UNCHANGED users
             \/ cleanup(t, unshare[t].new_fs, 0)
        ELSE unshare' = [unshare EXCEPT ![t].at = "ns"] /\ UNCHANGED <<users, count>>
  /\ UNCHANGED <<live, task, calls>>

\* The namespaces: unshare_userns() and unshare_nsproxy_namespaces() may fail;
\* then everything is switched, and the old root and descriptors are dropped.
ksys_unshare(t) ==
  /\ unshare[t].at = "ns"
  /\ LET fs == unshare[t].new_fs
         fd == unshare[t].new_fd
         F == unshare[t].flags
         fresh(flag, f, all) == IF flag \in F THEN unused(all) ELSE task[t][f]
     IN \/ /\ F \cap Namespaces # {}
           /\ cleanup(t, fs, fd) /\ UNCHANGED task
        \/ /\ task' = [task EXCEPT ![t] = [@ EXCEPT
                !.fs = IF fs = 0 THEN @ ELSE fs,
                !.files = IF fd = 0 THEN @ ELSE fd,
                !.mnt = fresh("NEWNS", "mnt", {"mnt"}),
                !.user = fresh("NEWUSER", "user", {"user"}),
                !.pid_for_children =
                  fresh("NEWPID", "pid_for_children", {"pid", "pid_for_children"}),
                !.time_for_children =
                  fresh("NEWTIME", "time_for_children", {"time", "time_for_children"})]]
           /\ cleanup(t, IF fs = 0 THEN 0 ELSE task[t].fs, IF fd = 0 THEN 0 ELSE task[t].files)
  /\ UNCHANGED <<live, calls>>

-----------------------------------------------------------------------------
Next ==
  \E t \in Tasks : kernel_clone(t) \/ do_exit(t) \/ unshare_fs(t) \/ unshare_fd(t) \/ ksys_unshare(t)

Spec == Init /\ [][Next]_vars

-----------------------------------------------------------------------------
Agree(f, g) == \A t, u \in live : task[t][f] = task[u][f] => task[t][g] = task[u][g]

\* Threads of a group share their signal handlers, and whoever shares handlers
\* shares the VM, whatever the tasks have unshared since ("Shared signal handlers
\* imply shared VM. By way of the above, thread groups also imply shared VM.",
\* fork.c:1936).
HandlersShareVm == Agree("group", "sighand") /\ Agree("sighand", "mm")

\* Tasks that share a root directory are in one mount and one user namespace,
\* threads of a group in one user and one pid namespace, and tasks that share the
\* VM in one time namespace ("Don't allow sharing the root directory with
\* processes in a different namespace", fork.c:1915).
NamespacesAgree ==
  /\ Agree("fs", "mnt") /\ Agree("fs", "user")
  /\ Agree("group", "user") /\ Agree("group", "pid")
  /\ Agree("mm", "time")

\* The counts of a root and of a descriptor table are the tasks that use it,
\* copies under way in unshare() included: it is freed with its last user,
\* although unshare() looks at the count before it decides to copy.
UsersExact ==
  \A i \in Ids :
    /\ users[i] = Cardinality({t \in live : task[t].fs = i})
                    + Cardinality({t \in live : unshare[t].new_fs = i})
    /\ count[i] = Cardinality({t \in live : task[t].files = i})
                    + Cardinality({t \in live : unshare[t].new_fd = i})
=============================================================================
