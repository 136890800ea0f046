----------------------------- MODULE SerialActors -----------------------------
(***************************************************************************)
(* What the reactor relies on its pool for: the tasks submitted for one    *)
(* actor (one connection's handler) run one at a time, in the order they   *)
(* were submitted, and none is forgotten before the pool is shut down.     *)
(***************************************************************************)
EXTENDS Integers

CONSTANTS
    Actors,
    MaxTasks     \* bound: how many tasks are submitted for an actor

VARIABLES
    submitted,   \* per actor, the number of the last task submitted
    started,     \* per actor, the number of the task started last
    finished,    \* per actor, the number of the task finished last
    isShutdown

vars == <<submitted, started, finished, isShutdown>>

Init ==
    /\ submitted = [a \in Actors |-> 0]
    /\ started = [a \in Actors |-> 0]
    /\ finished = [a \in Actors |-> 0]
    /\ isShutdown = FALSE

Submit(a) ==
    /\ ~isShutdown
    /\ submitted[a] < MaxTasks
    /\ submitted' = [submitted EXCEPT ![a] = @ + 1]
    /\ UNCHANGED <<started, finished, isShutdown>>

Start(a) ==
    /\ ~isShutdown
    /\ finished[a] = started[a]
    /\ started[a] < submitted[a]
    /\ started' = [started EXCEPT ![a] = @ + 1]
    /\ UNCHANGED <<submitted, finished, isShutdown>>

Finish(a) ==
    /\ finished[a] < started[a]
    /\ finished' = [finished EXCEPT ![a] = started[a]]
    /\ UNCHANGED <<submitted, started, isShutdown>>

Shutdown ==
    /\ ~isShutdown
    /\ isShutdown' = TRUE
    /\ UNCHANGED <<submitted, started, finished>>

Next ==
    \/ \E a \in Actors : Submit(a) \/ Start(a) \/ Finish(a)
    \/ Shutdown

SafeSpec == Init /\ [][Next]_vars

Spec == SafeSpec /\ \A a \in Actors : WF_vars(Start(a)) /\ WF_vars(Finish(a))
=============================================================================
