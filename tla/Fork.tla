-------------------------------- MODULE Fork --------------------------------
(***************************************************************************)
(* copy_process() (Project 2/fork.c): threads of one process that fork at  *)
(* the same time, fail at any step and give back what they took, while     *)
(* signals are sent to their process group and seccomp filters are set.    *)
(*                                                                         *)
(* What the function takes and what its error labels give back are the     *)
(* tables Steps and Unwind, in the order of the code.  have[t] counts the  *)
(* references that the new task_struct of the forker t owns.               *)
(***************************************************************************)
EXTENDS Integers, Sequences, FiniteSets

CONSTANTS Forkers,      \* the threads of the process
          MaxThreads,   \* max_threads
          NprocLimit,   \* rlimit(RLIMIT_NPROC), for a user without privileges
          Others,       \* bound on the other tasks, of the user and of all
          Events        \* what happens meanwhile: signal, sigkill, seccomp

ASSUME BoundsAssumption ==
  /\ IsFiniteSet(Forkers)
  /\ MaxThreads \in Nat /\ NprocLimit \in Nat /\ Others \in Nat
  /\ Cardinality(Forkers) + Others <= MaxThreads
  /\ Cardinality(Forkers) + Others <= NprocLimit

VARIABLES pc,           \* user, copy, attach, fork_out, ret
          at,           \* index into Steps
          flags,        \* clone_flags: a subset of {"THREAD", "PIDFD"}
          have,         \* references owned by the task_struct in the making
          multiprocess, \* signal->multiprocess: whose delayed.node is on it
          delayed,      \* the forkers with the signal in delayed.signal
          pending,      \* the process has the signal pending
          killed,       \* fatal_signal_pending()
          kid,          \* the child that t forked last
          nr_threads, nproc,
          filter,       \* seccomp filter of the process
          sent          \* ghost: the group was signalled during t's fork

vars == <<pc, at, flags, have, multiprocess, delayed, pending, killed, kid,
          nr_threads, nproc, filter, sent>>

\* Mutants: one label too early, one too late.
step_early(op, gets, fail) ==
  [op |-> op, gets |-> gets,
   fail |-> IF op = "copy_creds" THEN "bad_fork_cleanup_count" ELSE fail]
step_late(op, gets, fail) ==
  [op |-> op, gets |-> gets,
   fail |-> IF op = "copy_fs" THEN "bad_fork_cleanup_semundo" ELSE fail]

\* A step of copy_process(): what it takes, and where a failure goes.
step(op, gets, fail) == [op |-> op, gets |-> gets, fail |-> fail]

\* Up to sched_fork().
EarlySteps == <<
  step("dup_task_struct", {"task", "stack"}, "fork_out"),
  step("copy_creds", {"creds", "nproc"}, "bad_fork_free"),
  step("nproc_check", {}, "bad_fork_cleanup_count"),
  step("max_threads_check", {}, "bad_fork_cleanup_count"),
  step("delayacct_tsk_init", {"delayacct"}, ""),
  step("mpol_dup", {"mempolicy"}, "bad_fork_cleanup_delayacct"),
  step("sched_fork", {}, "bad_fork_cleanup_policy") >>

\* "copy all the process information".
CopySteps == <<
  step("perf_event_init_task", {"perf"}, "bad_fork_cleanup_policy"),
  step("audit_alloc", {"audit"}, "bad_fork_cleanup_perf"),
  step("security_task_alloc", {"security"}, "bad_fork_cleanup_audit"),
  step("copy_semundo", {"semundo"}, "bad_fork_cleanup_security"),
  step("copy_files", {"files"}, "bad_fork_cleanup_semundo"),
  step("copy_fs", {"fs"}, "bad_fork_cleanup_files"),
  step("copy_sighand", {"sighand"}, "bad_fork_cleanup_fs"),
  step("copy_signal", {"signal"}, "bad_fork_cleanup_sighand"),
  step("copy_mm", {"mm"}, "bad_fork_cleanup_signal"),
  step("copy_namespaces", {"namespaces"}, "bad_fork_cleanup_mm"),
  step("copy_io", {"io"}, "bad_fork_cleanup_namespaces"),
  step("copy_thread", {"thread"}, "bad_fork_cleanup_io") >>

\* From alloc_pid() to cgroup_can_fork().
PidSteps == <<
  step("alloc_pid", {"pid"}, "bad_fork_cleanup_thread"),
  step("pidfd_file", {"pidfd"}, "bad_fork_free_pid"),
  step("pidfd_put_user", {}, "bad_fork_put_pidfd"),
  step("cgroup_can_fork", {"cgroup"}, "bad_fork_put_pidfd") >>

Steps == EarlySteps \o CopySteps \o PidSteps

\* The labels, each falling through to the next, and what they give back.
Unwind == <<
  <<"bad_fork_cancel_cgroup", {"cookie", "cgroup"}>>,
  <<"bad_fork_put_pidfd", {"pidfd"}>>,
  <<"bad_fork_free_pid", {"pid"}>>,
  <<"bad_fork_cleanup_thread", {"thread"}>>,
  <<"bad_fork_cleanup_io", {"io"}>>,
  <<"bad_fork_cleanup_namespaces", {"namespaces"}>>,
  <<"bad_fork_cleanup_mm", {"mm"}>>,
  <<"bad_fork_cleanup_signal", {"signal"}>>,
  <<"bad_fork_cleanup_sighand", {"sighand"}>>,
  <<"bad_fork_cleanup_fs", {"fs"}>>,
  <<"bad_fork_cleanup_files", {"files"}>>,
  <<"bad_fork_cleanup_semundo", {"semundo"}>>,
  <<"bad_fork_cleanup_security", {"security"}>>,
  <<"bad_fork_cleanup_audit", {"audit"}>>,
  <<"bad_fork_cleanup_perf", {"perf"}>>,
  <<"bad_fork_cleanup_policy", {"mempolicy"}>>,
  <<"bad_fork_cleanup_delayacct", {"delayacct"}>>,
  <<"bad_fork_cleanup_count", {"nproc", "creds"}>>,
  <<"bad_fork_free", {"task", "stack"}>>,
  <<"fork_out", {}>> >>

Resources == {"seccomp", "cookie"} \cup
             UNION {Steps[i].gets : i \in 1..Len(Steps)}

\* The index of a label.
label(l) == CHOOSE i \in 1..Len(Unwind) : Unwind[i][1] = l

\* The resources that exist for these flags: a thread shares signal, and a
\* pidfd is made on demand.
applies(r, fl) ==
  /\ r = "signal" => "THREAD" \notin fl
  /\ r = "pidfd" => "PIDFD" \in fl

\* Tasks without an address space, without an io_context: pointers that the
\* labels test before they put.
Optional == {"mm", "io"}

NoKid == [state |-> "none", thread |-> FALSE, sig |-> FALSE, filter |-> 0]

TypeOK ==
  /\ pc \in [Forkers -> {"user", "copy", "attach", "fork_out", "ret"}]
  /\ at \in [Forkers -> 0..Len(Steps)]
  /\ flags \in [Forkers -> SUBSET {"THREAD", "PIDFD"}]
  /\ have \in [Forkers -> [Resources -> Int]]
  /\ multiprocess \subseteq Forkers
  /\ delayed \subseteq Forkers
  /\ pending \in BOOLEAN
  /\ killed \in BOOLEAN
  /\ kid \in [Forkers -> [state : {"none", "live"}, thread : BOOLEAN,
                          sig : BOOLEAN, filter : 0..1]]
  /\ nr_threads \in Nat
  /\ nproc \in Nat
  /\ filter \in 0..1
  /\ sent \subseteq Forkers

Init ==
  /\ pc = [t \in Forkers |-> "user"]
  /\ at = [t \in Forkers |-> 0]
  /\ flags = [t \in Forkers |-> {}]
  /\ have = [t \in Forkers |-> [r \in Resources |-> 0]]
  /\ multiprocess = {}
  /\ delayed = {}
  /\ pending = FALSE
  /\ killed = FALSE
  /\ kid = [t \in Forkers |-> NoKid]
  /\ nr_threads \in {Cardinality(Forkers) + n : n \in 0..Others}
  /\ nproc \in {Cardinality(Forkers) + n : n \in 0..Others}
  /\ filter = 0
  /\ sent = {}

-----------------------------------------------------------------------------
(* copy_process() of the thread t.                                         *)

\* goto l: the labels from l on put what is theirs.  Only the thread itself sees the
\* order among them, so this is one step; "got" is taken on top of have[t].
give_back(t, got, l) ==
  LET held(r) == have[t][r] + (IF r \in got THEN 1 ELSE 0)
      put(r) == Cardinality({i \in label(l)..Len(Unwind) :
                              /\ r \in Unwind[i][2]
                              /\ applies(r, flags[t])
                              /\ r \in Optional => held(r) > 0}) IN
  /\ have' = [have EXCEPT ![t] = [r \in Resources |-> held(r) - put(r)]]
  /\ nproc' = nproc - put("nproc")
  /\ pc' = [pc EXCEPT ![t] = "fork_out"]
  /\ at' = [at EXCEPT ![t] = 0]

\* Mutant: signals sent during the fork are not collected.
copy_process_undelayed(t) ==
  /\ pc[t] = "user" /\ kid[t] = NoKid
  /\ \E fl \in {{}, {"THREAD"}, {"PIDFD"}} :
       flags' = [flags EXCEPT ![t] = fl] /\ UNCHANGED multiprocess
  /\ delayed' = delayed \ {t}
  /\ sent' = sent \ {t}
  /\ IF pending \/ killed
     THEN pc' = [pc EXCEPT ![t] = "fork_out"] /\ UNCHANGED at
     ELSE pc' = [pc EXCEPT ![t] = "copy"] /\ at' = [at EXCEPT ![t] = 1]
  /\ UNCHANGED <<have, pending, killed, kid, nr_threads, nproc, filter>>

\* Put delayed.node on signal->multiprocess, and let signals received before go
\* first: -ERESTARTNOINTR.
copy_process(t) ==
  /\ pc[t] = "user" /\ kid[t] = NoKid
  /\ \E fl \in {{}, {"THREAD"}, {"PIDFD"}} :
       /\ flags' = [flags EXCEPT ![t] = fl]
       /\ multiprocess' = IF "THREAD" \in fl THEN multiprocess
                          ELSE multiprocess \cup {t}
  /\ delayed' = delayed \ {t}
  /\ sent' = sent \ {t}
  /\ IF pending \/ killed
     THEN pc' = [pc EXCEPT ![t] = "fork_out"] /\ UNCHANGED at
     ELSE pc' = [pc EXCEPT ![t] = "copy"] /\ at' = [at EXCEPT ![t] = 1]
  /\ UNCHANGED <<have, pending, killed, kid, nr_threads, nproc, filter>>

\* Mutant: max_threads is tested with >.
denied_late(op) ==
  \/ op = "nproc_check" /\ nproc > NprocLimit
  \/ op = "max_threads_check" /\ nr_threads > MaxThreads

\* The limits.  copy_creds() has charged the new task when the first is tested,
\* the second reads nr_threads without a lock.
denied(op) ==
  \/ op = "nproc_check" /\ nproc > NprocLimit
  \/ op = "max_threads_check" /\ nr_threads >= MaxThreads

\* The steps that t takes before another thread can see a difference: up to the
\* limits one by one, and then all the rest.
stretch(t) == at[t]..(IF at[t] < Len(EarlySteps) - 2 THEN at[t] ELSE Len(Steps))

\* What these steps take.  copy_files(), copy_fs(), copy_sighand() and copy_signal()
\* take one reference, to the parent's object or to a copy of it.
takes(t, steps) ==
  LET got == {r \in UNION {Steps[i].gets : i \in steps} : applies(r, flags[t])}
  IN {got \ miss : miss \in SUBSET (got \cap Optional)}

\* The steps succeed.
advance(t) ==
  /\ pc[t] = "copy"
  /\ \A i \in stretch(t) : ~denied(Steps[i].op)
  /\ \E got \in takes(t, stretch(t)) :
       have' = [have EXCEPT ![t] = [r \in Resources |->
                  @[r] + (IF r \in got THEN 1 ELSE 0)]]
  /\ nproc' = nproc + (IF Steps[at[t]].op = "copy_creds" THEN 1 ELSE 0)
  /\ IF Len(Steps) \in stretch(t)
     THEN pc' = [pc EXCEPT ![t] = "attach"] /\ at' = [at EXCEPT ![t] = 0]
     ELSE at' = [at EXCEPT ![t] = @ + 1] /\ UNCHANGED pc
  /\ UNCHANGED <<flags, multiprocess, delayed, pending, killed, kid, nr_threads,
                 filter, sent>>

\* One of them fails and has taken nothing: dup_task_struct() frees the stack and
\* the task_struct itself, the others likewise.  The limits fail only when exceeded.
fail(t) ==
  /\ pc[t] = "copy"
  /\ \E i \in stretch(t) :
       /\ Steps[i].fail # ""
       /\ Steps[i].op \in {"nproc_check", "max_threads_check"} =>
            denied(Steps[i].op)
       /\ Steps[i].op \in {"pidfd_file", "pidfd_put_user"} =>
            "PIDFD" \in flags[t]
       /\ \E got \in takes(t, at[t]..(i - 1)) : give_back(t, got, Steps[i].fail)
  /\ UNCHANGED <<flags, multiprocess, delayed, pending, killed, kid, nr_threads,
                 filter, sent>>

\* copy_seccomp(): a reference to the filter that current has now.
copy_seccomp == IF filter = 1 THEN {"seccomp"} ELSE {}

\* Mutant: the seccomp filter is the one dup_task_struct() found.
attach_stale_filter(t) ==
  /\ pc[t] = "attach" /\ ~killed
  /\ have' = [have EXCEPT ![t] = [r \in Resources |-> 0]]
  /\ kid' = [kid EXCEPT ![t] = [state |-> "live",
                                thread |-> "THREAD" \in flags[t],
                                sig |-> t \in delayed, filter |-> 0]]
  /\ nr_threads' = nr_threads + 1
  /\ multiprocess' = multiprocess \ {t}
  /\ pc' = [pc EXCEPT ![t] = "ret"]
  /\ UNCHANGED <<at, flags, delayed, pending, killed, nproc, filter, sent>>

\* Under tasklist_lock and siglock: sched_core_fork(), copy_seccomp(), then give up for a fatal
\* signal or a dying pid namespace, or make the child visible with the signals
\* that were delayed for it.
attach(t) ==
  /\ pc[t] = "attach"
  /\ \/ /\ give_back(t, {"cookie"} \cup copy_seccomp, "bad_fork_cancel_cgroup")
        /\ UNCHANGED <<kid, nr_threads, multiprocess>>
     \/ /\ ~killed
        /\ have' = [have EXCEPT ![t] = [r \in Resources |-> 0]]
        /\ kid' = [kid EXCEPT ![t] = [state |-> "live",
                                      thread |-> "THREAD" \in flags[t],
                                      sig |-> t \in delayed, filter |-> filter]]
        /\ nr_threads' = nr_threads + 1
        /\ multiprocess' = multiprocess \ {t}
        /\ pc' = [pc EXCEPT ![t] = "ret"]
        /\ UNCHANGED <<at, nproc>>
  /\ UNCHANGED <<flags, delayed, pending, killed, filter, sent>>

\* The last label: delayed.node comes off the list.
fork_out(t) ==
  /\ pc[t] = "fork_out"
  /\ multiprocess' = multiprocess \ {t}
  /\ pc' = [pc EXCEPT ![t] = "ret"]
  /\ UNCHANGED <<at, flags, have, delayed, pending, killed, kid, nr_threads,
                 nproc, filter, sent>>

\* kernel_clone() returns and its variables are gone; signals are taken on the way
\* to user space.
return(t) ==
  /\ pc[t] = "ret"
  /\ pc' = [pc EXCEPT ![t] = "user"]
  /\ at' = [at EXCEPT ![t] = 0]
  /\ flags' = [flags EXCEPT ![t] = {}]
  /\ delayed' = delayed \ {t}
  /\ pending' = FALSE
  /\ have' = [have EXCEPT ![t] = [r \in Resources |-> 0]]
  /\ sent' = IF kid[t] = NoKid THEN sent \ {t} ELSE sent
  /\ UNCHANGED <<multiprocess, killed, kid, nr_threads, nproc, filter>>

-----------------------------------------------------------------------------
(* The others (signal.c, seccomp.c, exit.c).                               *)

inside(t) == pc[t] \in {"copy", "attach"}

\* kill() of the process group, under tasklist_lock: the process, the children
\* that are visible, and for those in the making every delayed.signal.
send_signal ==
  /\ "signal" \in Events
  /\ pending' = TRUE
  /\ delayed' = delayed \cup multiprocess
  /\ kid' = [t \in Forkers |->
               IF kid[t].state = "live" /\ ~kid[t].thread
               THEN [kid[t] EXCEPT !.sig = TRUE] ELSE kid[t]]
  /\ sent' = sent \cup {t \in Forkers : inside(t)}
  /\ UNCHANGED <<pc, at, flags, have, multiprocess, killed, nr_threads, nproc,
                 filter>>

\* SIGKILL for the process.
send_sigkill ==
  /\ "sigkill" \in Events
  /\ killed' = TRUE
  /\ UNCHANGED <<pc, at, flags, have, multiprocess, delayed, pending, kid,
                 nr_threads, nproc, filter, sent>>

\* SECCOMP_FILTER_FLAG_TSYNC under siglock: all threads of the group.
seccomp_sync_threads ==
  /\ "seccomp" \in Events
  /\ filter = 0 /\ filter' = 1
  /\ kid' = [t \in Forkers |->
               IF kid[t].state = "live" /\ kid[t].thread
               THEN [kid[t] EXCEPT !.filter = 1] ELSE kid[t]]
  /\ UNCHANGED <<pc, at, flags, have, multiprocess, delayed, pending, killed,
                 nr_threads, nproc, sent>>

\* A child exits and is reaped.
release_task(t) ==
  /\ kid[t].state = "live" /\ pc[t] = "user"
  /\ kid' = [kid EXCEPT ![t] = NoKid]
  /\ nr_threads' = nr_threads - 1
  /\ nproc' = nproc - 1
  /\ sent' = sent \ {t}
  /\ UNCHANGED <<pc, at, flags, have, multiprocess, delayed, pending, killed,
                 filter>>

Next ==
  \/ send_signal \/ send_sigkill \/ seccomp_sync_threads
  \/ \E t \in Forkers :
       \/ copy_process(t) \/ advance(t) \/ fail(t) \/ attach(t)
       \/ fork_out(t) \/ return(t) \/ release_task(t)

Spec == Init /\ [][Next]_vars

-----------------------------------------------------------------------------
(* Properties.                                                             *)

\* No label puts what the failed fork has not taken: dup_task_struct() has copied
\* the parent's pointers, so that would be the parent's reference.
NoOverRelease ==
  \A t \in Forkers : \A r \in Resources : have[t][r] \in 0..1

\* A fork that failed, at whichever step, has given back everything, the filter of
\* copy_seccomp() apart, which no label puts.
NothingLeft ==
  \A t \in Forkers : pc[t] \in {"fork_out", "ret"} =>
    \A r \in Resources \ {"seccomp"} : have[t][r] = 0

\* A signal sent to the process group during a fork reaches the child as if it had
\* been sent after the fork.
SignalReachesChild ==
  \A t \in Forkers :
    kid[t].state = "live" /\ ~kid[t].thread /\ t \in sent => kid[t].sig

\* A thread that was being created while the filters of the group were set has
\* the filter too.
FilterReachesThread ==
  \A t \in Forkers : kid[t].state = "live" /\ kid[t].thread =>
    kid[t].filter = filter

\* The late check of max_threads lets through at most one task for every other
\* thread inside copy_process() ("this check triggers too late").
ThreadsBounded ==
  nr_threads < MaxThreads + Cardinality(Forkers)
=============================================================================
