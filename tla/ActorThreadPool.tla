---------------------------- MODULE ActorThreadPool ----------------------------
(***************************************************************************)
(* ActorThreadPool: the selector thread submits tasks for actors, a fixed  *)
(* pool of threads runs them.  submit and complete run under the actor's   *)
(* monitor, so each is one step; a thread takes a task, runs it and calls  *)
(* complete in three steps, between which anything may happen.             *)
(*                                                                         *)
(* Tasks of an actor are numbered in the order of their submission.  The   *)
(* executor (java.util.concurrent) is external: an unbounded FIFO queue,   *)
(* whose shutdownNow drops what is queued and which then rejects tasks.    *)
(***************************************************************************)
EXTENDS Integers, Sequences

CONSTANTS
    Actors,      \* the connection handlers
    Threads,     \* the pool's threads
    MaxTasks     \* bound: how many tasks are submitted for an actor

ASSUME PoolAssumption == MaxTasks \in Nat

VARIABLES
    playingNow,  \* the actors with a task that is queued or running
    pending,     \* acts: per actor, the tasks that wait for the one before
    workQueue,   \* executor: the tasks no thread has taken yet
    worker,      \* executor: what each thread holds
    submitted,   \* history: per actor, the number of the last task submitted
    started,     \* history: per actor, the number of the task started last
    finished,    \* history: per actor, the number of the task finished last
    isShutdown   \* executor: shutdownNow was called

history == <<submitted, started, finished>>
vars == <<playingNow, pending, workQueue, worker, history, isShutdown>>

Task == [act : Actors, task : Nat \ {0}]
WorkerState ==
    [state : {"idle"}] \cup [state : {"running"}, act : Actors, task : Nat \ {0}]
                       \cup [state : {"completing"}, act : Actors]

Idle == [state |-> "idle"]
Running(a, n) == [state |-> "running", act |-> a, task |-> n]
Completing(a) == [state |-> "completing", act |-> a]

-----------------------------------------------------------------------------
\* execute(r, act): a rejected task is lost, and the exception leaves complete.
Execute(a, n) ==
    workQueue' = IF isShutdown THEN workQueue
                               ELSE Append(workQueue, [act |-> a, task |-> n])

\* Fault: the task is executed although another one of the actor is playing.
SubmitAlways(a) ==
    /\ ~isShutdown
    /\ submitted[a] < MaxTasks
    /\ submitted' = [submitted EXCEPT ![a] = @ + 1]
    /\ playingNow' = playingNow \cup {a}
    /\ Execute(a, submitted[a] + 1)
    /\ UNCHANGED <<pending, worker, started, finished, isShutdown>>

\* The selector thread submits; serve shuts the pool down as its last act.
Submit(a) ==
    /\ ~isShutdown
    /\ submitted[a] < MaxTasks
    /\ submitted' = [submitted EXCEPT ![a] = @ + 1]
    /\ IF a \in playingNow
       THEN /\ pending' = [pending EXCEPT ![a] = Append(@, submitted[a] + 1)]
            /\ UNCHANGED <<playingNow, workQueue>>
       ELSE /\ playingNow' = playingNow \cup {a}
            /\ Execute(a, submitted[a] + 1)
            /\ UNCHANGED pending
    /\ UNCHANGED <<worker, started, finished, isShutdown>>

\* A pool thread takes the first task of the queue and calls r.run().
Take(t) ==
    /\ worker[t] = Idle
    /\ workQueue # <<>>
    /\ LET a == Head(workQueue).act
           n == Head(workQueue).task
       IN  /\ worker' = [worker EXCEPT ![t] = Running(a, n)]
           /\ started' = [started EXCEPT ![a] = n]
    /\ workQueue' = Tail(workQueue)
    /\ UNCHANGED <<playingNow, pending, submitted, finished, isShutdown>>

\* r.run() returns or throws; either way complete(act) comes next.
Finish(t) ==
    /\ worker[t].state = "running"
    /\ worker' = [worker EXCEPT ![t] = Completing(worker[t].act)]
    /\ finished' = [finished EXCEPT ![worker[t].act] = worker[t].task]
    /\ UNCHANGED <<playingNow, pending, workQueue, submitted, started, isShutdown>>

\* Fault: the first pending task is executed without a look whether there is one;
\* poll() of an empty queue is null, here 0.
CompletePollsBlindly(t) ==
    /\ worker[t].state = "completing"
    /\ worker' = [worker EXCEPT ![t] = Idle]
    /\ LET a == worker[t].act
       IN  /\ Execute(a, IF pending[a] = <<>> THEN 0 ELSE Head(pending[a]))
           /\ pending' = [pending EXCEPT ![a] = IF @ = <<>> THEN @ ELSE Tail(@)]
    /\ UNCHANGED <<playingNow, history, isShutdown>>

\* Fault: the actor leaves playingNow without a look at its pending tasks.
CompleteForgetsPending(t) ==
    /\ worker[t].state = "completing"
    /\ worker' = [worker EXCEPT ![t] = Idle]
    /\ playingNow' = playingNow \ {worker[t].act}
    /\ UNCHANGED <<pending, workQueue, history, isShutdown>>

\* Fault: the last task added is executed next.
CompleteTakesLast(t) ==
    /\ worker[t].state = "completing"
    /\ worker' = [worker EXCEPT ![t] = Idle]
    /\ LET a == worker[t].act
       IN  IF pending[a] = <<>>
           THEN /\ playingNow' = playingNow \ {a}
                /\ UNCHANGED <<pending, workQueue>>
           ELSE /\ Execute(a, pending[a][Len(pending[a])])
                /\ pending' = [pending EXCEPT ![a] = SubSeq(@, 1, Len(@) - 1)]
                /\ UNCHANGED playingNow
    /\ UNCHANGED <<history, isShutdown>>

Complete(t) ==
    /\ worker[t].state = "completing"
    /\ worker' = [worker EXCEPT ![t] = Idle]
    /\ LET a == worker[t].act
       IN  IF pending[a] = <<>>
           THEN /\ playingNow' = playingNow \ {a}
                /\ UNCHANGED <<pending, workQueue>>
           ELSE /\ Execute(a, Head(pending[a]))
                /\ pending' = [pending EXCEPT ![a] = Tail(@)]
                /\ UNCHANGED playingNow
    /\ UNCHANGED <<history, isShutdown>>

\* shutdown(): queued tasks are dropped, running ones go on to their end.
Shutdown ==
    /\ ~isShutdown
    /\ isShutdown' = TRUE
    /\ workQueue' = <<>>
    /\ UNCHANGED <<playingNow, pending, worker, history>>

-----------------------------------------------------------------------------
Init ==
    /\ playingNow = {}
    /\ pending = [a \in Actors |-> <<>>]
    /\ workQueue = <<>>
    /\ worker = [t \in Threads |-> Idle]
    /\ submitted = [a \in Actors |-> 0]
    /\ started = [a \in Actors |-> 0]
    /\ finished = [a \in Actors |-> 0]
    /\ isShutdown = FALSE

PoolThread(t) == Take(t) \/ Finish(t) \/ Complete(t)

Next ==
    \/ \E a \in Actors : Submit(a)
    \/ \E t \in Threads : PoolThread(t)
    \/ Shutdown

SafeSpec == Init /\ [][Next]_vars

\* Pool threads are scheduled fairly and every task ends: process has no blocking
\* call.  Nothing is assumed of the selector thread or of the shutdown.
Spec == SafeSpec /\ \A t \in Threads : WF_vars(PoolThread(t))

-----------------------------------------------------------------------------
(* Properties                                                               *)

\* The variables hold the values their Java types allow.
TypeOK ==
    /\ playingNow \subseteq Actors
    /\ pending \in [Actors -> Seq(Nat \ {0})]
    /\ workQueue \in Seq(Task)
    /\ worker \in [Threads -> WorkerState]
    /\ submitted \in [Actors -> 0..MaxTasks]
    /\ started \in [Actors -> 0..MaxTasks]
    /\ finished \in [Actors -> 0..MaxTasks]
    /\ isShutdown \in BOOLEAN

Queued(i, a) == i \in DOMAIN workQueue /\ workQueue[i].act = a
Holds(t, a) == worker[t] # Idle /\ worker[t].act = a

\* playingNow works as a lock: an actor in it has one task at most in the hands
\* of the executor, queued or with a thread; an actor outside it has none.
OnePlace ==
    \A a \in Actors :
        /\ \A i, j \in DOMAIN workQueue : Queued(i, a) /\ Queued(j, a) => i = j
        /\ \A t, u \in Threads : Holds(t, a) /\ Holds(u, a) => t = u
        /\ ~ \E i \in DOMAIN workQueue, t \in Threads : Queued(i, a) /\ Holds(t, a)
        /\ (\E i \in DOMAIN workQueue : Queued(i, a)) => a \in playingNow
        /\ (\E t \in Threads : Holds(t, a)) => a \in playingNow

\* Until the shutdown, tasks wait in pending only behind one that is playing,
\* and an actor that is playing has a task queued or with a thread.
NothingStranded ==
    ~isShutdown =>
        \A a \in Actors :
            /\ pending[a] # <<>> => a \in playingNow
            /\ a \in playingNow =>
                  \/ \E i \in DOMAIN workQueue : Queued(i, a)
                  \/ \E t \in Threads : Holds(t, a)

\* The tasks of an actor run one at a time and in the order of their submission,
\* and until the shutdown every one of them is run: what the reactor relies on, as
\* the handler and the decoder of a connection are not safe for two threads and
\* the reads of a connection must be decoded in their order.
Actor ==
    INSTANCE SerialActors WITH submitted <- submitted, started <- started,
                               finished <- finished, isShutdown <- isShutdown
ImplementsSerialActors == Actor!Spec
=============================================================================
