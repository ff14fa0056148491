------------------------------ MODULE TaskLife ------------------------------
(***************************************************************************)
(* What __schedule() and try_to_wake_up() promise to a task, without       *)
(* runqueues, locks, wake lists or migration: the life of a task, the CPUs *)
(* that execute it, and whether what it waits for has happened.            *)
(***************************************************************************)
CONSTANTS Tasks, CPUs

VARIABLES life,   \* none, new, ready, blocked, dead
          on,     \* the CPUs whose registers or stack are those of the task
          want    \* the tasks whose CONDITION holds

vars == <<life, on, want>>

Lives == {"none", "new", "ready", "blocked", "dead"}

Init ==
  /\ life = [p \in Tasks |-> "none"]
  /\ on = [p \in Tasks |-> {}]
  /\ want = {}

become(p, l) == life' = [life EXCEPT ![p] = l]

Fork(p) == life[p] = "none" /\ become(p, "new") /\ UNCHANGED <<on, want>>
Start(p) == life[p] = "new" /\ become(p, "ready") /\ UNCHANGED <<on, want>>

\* A CPU starts to execute a ready task that no CPU executes ...
Dispatch(c, p) ==
  /\ life[p] = "ready" /\ on[p] = {}
  /\ on' = [on EXCEPT ![p] = {c}]
  /\ UNCHANGED <<life, want>>

\* ... and stops to.
Leave(c, p) ==
  /\ on[p] = {c}
  /\ on' = [on EXCEPT ![p] = {}]
  /\ UNCHANGED <<life, want>>

\* Only the task itself blocks, or dies.
Block(p) ==
  /\ life[p] = "ready" /\ on[p] # {}
  /\ become(p, "blocked")
  /\ UNCHANGED <<on, want>>

Die(p) ==
  /\ life[p] = "ready" /\ on[p] # {}
  /\ become(p, "dead")
  /\ UNCHANGED <<on, want>>

\* The condition of p comes true; p finds it true and goes on.
Post(p) ==
  /\ life[p] # "none"
  /\ want' = want \cup {p}
  /\ UNCHANGED <<life, on>>

Consume(p) ==
  /\ life[p] = "ready" /\ on[p] # {} /\ p \in want
  /\ want' = want \ {p}
  /\ UNCHANGED <<life, on>>

\* Blocked tasks become ready, all of them off every CPU.
Wake(S) ==
  /\ \A p \in S : life[p] = "blocked" /\ on[p] = {}
  /\ life' = [p \in Tasks |-> IF p \in S THEN "ready" ELSE life[p]]
  /\ UNCHANGED <<on, want>>

\* The memory of a dead task is reused when no CPU is on its stack.
Free(p) ==
  /\ life[p] = "dead" /\ on[p] = {}
  /\ become(p, "none")
  /\ want' = want \ {p}
  /\ UNCHANGED on

Next ==
  \/ \E p \in Tasks :
       \/ Fork(p) \/ Start(p) \/ Block(p) \/ Die(p) \/ Free(p)
       \/ Post(p) \/ Consume(p)
       \/ \E c \in CPUs : Dispatch(c, p) \/ Leave(c, p)
  \/ \E S \in SUBSET Tasks : Wake(S)

Spec == Init /\ [][Next]_vars

\* A blocked task whose condition holds gets ready.
Woken == \A p \in Tasks : life[p] = "blocked" /\ p \in want ~> life[p] = "ready"
=============================================================================
