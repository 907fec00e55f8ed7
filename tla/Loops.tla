-------------------------------- MODULE Loops --------------------------------
(***************************************************************************)
(* The background loops of one API process (core/background_loops.py) and  *)
(* the requests of the administration to restart them.  A restart cancels  *)
(* every task of the controller, awaits one after the other, and then      *)
(* empties the dictionary and starts new ones without waiting: requests    *)
(* interleave only while they await.  The dictionary always holds one task *)
(* per name, in the order of the names, so the tasks are numbered by the   *)
(* restart that made them and the iterator of a request by its position.   *)
(***************************************************************************)
EXTENDS Integers, FiniteSets

CONSTANTS
  Loops,         \* how many names the controller has
  Restarts,      \* requests
  MaxGeneration  \* bound: how often the tasks are made

ASSUME LoopsAssumption == Loops \in Nat \ {0} /\ MaxGeneration \in Nat \ {0}

VARIABLES
  current,       \* the generation in the dictionary; 0 before start_all() of the lifespan
  loopTask,      \* loopTask[g][n]: "none", "running", "cancelled" (until it ends) or "done"
  restart,       \* the requests: the task awaited, 0 when none
  overlapped     \* ghost: two requests have been under way at once

loopVars == <<current, loopTask, restart, overlapped>>

Idle == [gen |-> 0, at |-> 0]
UnderWay == {r \in Restarts : restart[r] # Idle}

LoopsInit ==
  /\ current = 0 /\ overlapped = FALSE
  /\ loopTask = [g \in 1..MaxGeneration |-> [n \in 1..Loops |-> "none"]]
  /\ restart = [r \in Restarts |-> Idle]

\* one task per name; it runs until it is cancelled
StartAll(was) ==
  /\ current < MaxGeneration /\ current' = current + 1
  /\ loopTask' = [was EXCEPT ![current + 1] = [n \in 1..Loops |-> "running"]]

Lifespan == current = 0 /\ StartAll(loopTask) /\ UNCHANGED <<restart, overlapped>>

\* BadCancelAll and the other definitions named Bad... are faulty variants of the
\* definition that follows them, for the mutation runs only.
BadCancelAll == [loopTask EXCEPT ![current][1] = IF @ = "running" THEN "cancelled" ELSE @]

\* stop_all() cancels them all first; every task takes a moment to end
CancelAll == [loopTask EXCEPT ![current] =
                [n \in 1..Loops |-> IF @[n] = "running" THEN "cancelled" ELSE @[n]]]

\* await the next task that has not ended, in the dictionary as it is now, which
\* another request may have emptied and filled meanwhile; when none is left, forget
\* them and start new ones
Proceed(r, from, was) ==
  LET left == {n \in (from + 1)..Loops : was[current][n] # "done"} IN
  \/ /\ left # {} /\ loopTask' = was /\ UNCHANGED current
     /\ restart' = [restart EXCEPT ![r] = [gen |-> current, at |-> CHOOSE n \in left : \A k \in left : n <= k]]
  \/ left = {} /\ restart' = [restart EXCEPT ![r] = Idle] /\ StartAll(was)

BadRestartAll(r) ==
  /\ current > 0 /\ restart[r] = Idle /\ current + Cardinality(UnderWay) < MaxGeneration
  /\ restart' = [restart EXCEPT ![r] = Idle] /\ StartAll(loopTask)
  /\ overlapped' = (overlapped \/ UnderWay # {})

RestartAll(r) ==
  /\ current > 0 /\ restart[r] = Idle /\ current + Cardinality(UnderWay) < MaxGeneration
  /\ Proceed(r, 0, CancelAll)
  /\ overlapped' = (overlapped \/ UnderWay # {})

TaskEnds(g, n) ==
  /\ loopTask[g][n] = "cancelled" /\ loopTask' = [loopTask EXCEPT ![g][n] = "done"]
  /\ UNCHANGED <<current, restart, overlapped>>

Awaited(r) == loopTask[restart[r].gen][restart[r].at]

Resume(r) ==
  /\ restart[r] # Idle /\ Awaited(r) = "done"
  /\ Proceed(r, restart[r].at, loopTask) /\ UNCHANGED overlapped

LoopsStep ==
  \/ \E g \in 1..MaxGeneration, n \in 1..Loops : TaskEnds(g, n)
  \/ \E r \in Restarts : Resume(r)

LoopsNext == Lifespan \/ (\E r \in Restarts : RestartAll(r)) \/ LoopsStep

LoopsSpec == LoopsInit /\ [][LoopsNext]_loopVars

-----------------------------------------------------------------------------
Running(n) == {g \in 1..MaxGeneration : loopTask[g][n] = "running"}

\* No loop runs twice unless two restarts overlapped.
NoTwins == ~overlapped => \A n \in 1..Loops : Cardinality(Running(n)) <= 1

\* Every loop runs in the dictionary, where the next restart finds it.
LoopsKept ==
  current > 0 /\ UnderWay = {} => \A n \in 1..Loops : loopTask[current][n] = "running"

\* Restarts neither lose a loop nor double it: when none is under way every loop runs
\* in the dictionary, however many overlapped before; overlapping ones alone double
\* loops, as the later may forget, while they run, the tasks the earlier had started.
LoopsRun == NoTwins /\ LoopsKept

\* A restart ends if none overlaps it.  One that was overtaken may wait for a task
\* that nobody has cancelled.
RestartEnds ==
  \A r \in Restarts : restart[r] # Idle ~> restart[r] = Idle \/ overlapped
=============================================================================
