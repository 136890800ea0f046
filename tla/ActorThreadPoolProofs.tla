------------------------- MODULE ActorThreadPoolProofs -------------------------
(***************************************************************************)
(* Proofs about ActorThreadPool, for any sets of actors and of threads and *)
(* any number of tasks.                                                    *)
(***************************************************************************)
EXTENDS ActorThreadPool, TLAPS

\* The tasks in pending are the last ones submitted, in order.
PendingInOrder ==
    ~isShutdown =>
        \A a \in Actors : \A k \in 1..Len(pending[a]) :
            pending[a][k] = submitted[a] - Len(pending[a]) + k

\* A task in the executor's queue is the one after the task finished last, and
\* the one before those in pending.
QueuedIsNext ==
    \A a \in Actors : \A i \in DOMAIN workQueue : Queued(i, a) =>
        /\ ~isShutdown
        /\ workQueue[i].task = started[a] + 1
        /\ finished[a] = started[a]
        /\ started[a] + 1 + Len(pending[a]) = submitted[a]

\* A thread runs the task started last; when it completes, that one is finished.
RunsLatest(t, a) ==
    \/ /\ worker[t].state = "running"
       /\ worker[t].task = started[a]
       /\ finished[a] < started[a]
    \/ /\ worker[t].state = "completing"
       /\ finished[a] = started[a]

HeldIsLatest ==
    \A a \in Actors, t \in Threads : Holds(t, a) =>
        /\ RunsLatest(t, a)
        /\ ~isShutdown => started[a] + Len(pending[a]) = submitted[a]

\* All tasks of an actor that is not playing are finished.
RestingIsDone ==
    ~isShutdown => \A a \in Actors \ playingNow :
        started[a] = submitted[a] /\ finished[a] = started[a]

InOrder == PendingInOrder /\ QueuedIsNext /\ HeldIsLatest /\ RestingIsDone

Inv == TypeOK /\ OnePlace /\ NothingStranded /\ InOrder

-----------------------------------------------------------------------------
LEMMA InvInit == Init => Inv
<1> SUFFICES ASSUME Init PROVE Inv
  OBVIOUS
<1>1. /\ \A a \in Actors : pending[a] = <<>> /\ Len(pending[a]) = 0
      /\ \A t \in Threads : ~ \E a : Holds(t, a)
      /\ DOMAIN workQueue = {}
  BY DEF Init, Holds
<1>2. /\ pending \in [Actors -> Seq(Nat \ {0})]
      /\ workQueue \in Seq(Task)
      /\ worker \in [Threads -> WorkerState]
  BY DEF Init, WorkerState, Idle
<1>3. TypeOK
  <2>1. 0 \in 0..MaxTasks
    BY PoolAssumption
  <2> QED
    BY <1>2, <2>1 DEF Init, TypeOK
<1>4. OnePlace /\ NothingStranded
  BY <1>1 DEF Init, OnePlace, NothingStranded
<1>5. PendingInOrder
  BY <1>1 DEF PendingInOrder
<1>6. QueuedIsNext /\ HeldIsLatest /\ RestingIsDone
  BY <1>1 DEF Init, QueuedIsNext, HeldIsLatest, RestingIsDone
<1> QED
  BY <1>3, <1>4, <1>5, <1>6 DEF Inv, InOrder

\* What a thread may hold.
LEMMA WorkerCases ==
    ASSUME TypeOK, NEW t \in Threads
    PROVE  \/ worker[t] = Idle
           \/ /\ worker[t].state = "running"
              /\ worker[t].act \in Actors /\ worker[t].task \in Nat \ {0}
              /\ worker[t] = Running(worker[t].act, worker[t].task)
           \/ /\ worker[t].state = "completing"
              /\ worker[t].act \in Actors
              /\ worker[t] = Completing(worker[t].act)
<1>1. worker[t] \in WorkerState
  BY DEF TypeOK
<1>2. CASE worker[t] \in [state : {"idle"}]
  BY <1>2 DEF Idle
<1>3. CASE worker[t] \in [state : {"running"}, act : Actors, task : Nat \ {0}]
  BY <1>3 DEF Running
<1>4. CASE worker[t] \in [state : {"completing"}, act : Actors]
  BY <1>4 DEF Completing
<1> QED
  BY <1>1, <1>2, <1>3, <1>4 DEF WorkerState

\* The three records are distinct and hold what they were built from.
LEMMA WorkerRecords ==
    ASSUME NEW a, NEW n
    PROVE  /\ Running(a, n) # Idle /\ Completing(a) # Idle
           /\ Running(a, n).state = "running" /\ Running(a, n).act = a
           /\ Running(a, n).task = n
           /\ Completing(a).state = "completing" /\ Completing(a).act = a
           /\ Idle.state = "idle"
           /\ Idle \in WorkerState
           /\ a \in Actors => Completing(a) \in WorkerState
           /\ a \in Actors /\ n \in Nat \ {0} => Running(a, n) \in WorkerState
<1>1. Running(a, n).state = "running" /\ Completing(a).state = "completing" /\ Idle.state = "idle"
  BY DEF Running, Completing, Idle
<1> QED
  BY <1>1 DEF Running, Completing, Idle, WorkerState

-----------------------------------------------------------------------------
(* Each operation keeps Inv.                                                 *)

\* Putting a task of a into the executor's queue, when a has none there.
LEMMA AppendTask ==
    ASSUME TypeOK, NEW a \in Actors, NEW n \in Nat \ {0},
           workQueue' = Append(workQueue, [act |-> a, task |-> n])
    PROVE  /\ workQueue' \in Seq(Task)
           /\ Len(workQueue) \in Nat
           /\ DOMAIN workQueue = 1..Len(workQueue)
           /\ DOMAIN workQueue' = 1..(Len(workQueue) + 1)
           /\ \A i \in 1..Len(workQueue) : workQueue'[i] = workQueue[i]
           /\ workQueue'[Len(workQueue) + 1].act = a
           /\ workQueue'[Len(workQueue) + 1].task = n
<1> DEFINE r == [act |-> a, task |-> n]
<1>1. r \in Task /\ r.act = a /\ r.task = n
  BY DEF Task
<1>2. workQueue \in Seq(Task) /\ workQueue' = Append(workQueue, r)
  BY DEF TypeOK
<1> HIDE DEF r
<1> QED
  BY <1>1, <1>2

\* Taking the first task out of the executor's queue.
LEMMA TailTask ==
    ASSUME TypeOK, workQueue # <<>>, workQueue' = Tail(workQueue)
    PROVE  /\ workQueue' \in Seq(Task)
           /\ Len(workQueue) \in Nat \ {0}
           /\ DOMAIN workQueue = 1..Len(workQueue)
           /\ DOMAIN workQueue' = 1..(Len(workQueue) - 1)
           /\ \A i \in 1..(Len(workQueue) - 1) : workQueue'[i] = workQueue[i + 1]
           /\ Head(workQueue) = workQueue[1]
           /\ workQueue[1].act \in Actors
           /\ workQueue[1].task \in Nat \ {0}
<1>1. workQueue \in Seq(Task)
  BY DEF TypeOK
<1>2. workQueue[1] \in Task /\ Len(workQueue) \in Nat \ {0}
  BY <1>1
<1> QED
  BY <1>1, <1>2 DEF Task

\* A task goes to the end of the pending queue.
LEMMA SubmitBehind ==
    ASSUME Inv, NEW a \in Actors, Submit(a), a \in playingNow PROVE Inv'
<1> USE DEF Inv, InOrder
<1>1. /\ pending' = [pending EXCEPT ![a] = Append(@, submitted[a] + 1)]
      /\ submitted' = [submitted EXCEPT ![a] = @ + 1]
      /\ submitted[a] \in Nat /\ submitted[a] < MaxTasks
      /\ ~isShutdown
      /\ UNCHANGED <<playingNow, workQueue, worker, started, finished, isShutdown>>
  BY DEF Submit, TypeOK
<1>2. /\ pending' \in [Actors -> Seq(Nat \ {0})]
      /\ \A b \in Actors : Len(pending[b]) \in Nat
      /\ Len(pending'[a]) = Len(pending[a]) + 1
      /\ pending'[a][Len(pending[a]) + 1] = submitted[a] + 1
      /\ \A k \in 1..Len(pending[a]) : pending'[a][k] = pending[a][k]
      /\ \A b \in Actors \ {a} : pending'[b] = pending[b]
  BY <1>1 DEF TypeOK
<1>3. /\ submitted'[a] = submitted[a] + 1
      /\ \A b \in Actors \ {a} : submitted'[b] = submitted[b]
      /\ \A b \in Actors : started[b] \in Nat /\ submitted[b] \in Nat
  BY <1>1 DEF TypeOK
<1>3a. \A b \in Actors :
          /\ submitted'[b] - Len(pending'[b]) = submitted[b] - Len(pending[b])
          /\ Len(pending'[b]) \in Nat /\ submitted'[b] \in Nat
  <2> TAKE b \in Actors
  <2>1. CASE b = a
    BY <1>1, <1>2, <1>3, <2>1
  <2>2. CASE b # a
    BY <1>2, <1>3, <2>2
  <2> QED
    BY <2>1, <2>2
<1>4. /\ \A b \in Actors, i \in DOMAIN workQueue : Queued(i, b)' <=> Queued(i, b)
      /\ \A b \in Actors, t \in Threads : Holds(t, b)' <=> Holds(t, b)
      /\ \A b \in Actors, t \in Threads : RunsLatest(t, b)' <=> RunsLatest(t, b)
  BY <1>1 DEF Queued, Holds, RunsLatest
<1>5. TypeOK'
  BY <1>1, <1>2, PoolAssumption DEF TypeOK
<1>6. OnePlace'
  BY <1>1, <1>4 DEF OnePlace
<1>7. NothingStranded'
  <2>1. \A b \in Actors : pending'[b] # <<>> => b \in playingNow
    BY <1>1, <1>2 DEF NothingStranded
  <2> QED
    BY <1>1, <1>4, <2>1 DEF NothingStranded
<1>8. PendingInOrder'
  <2>1. \A k \in 1..Len(pending[a]) :
           pending[a][k] = submitted[a] - Len(pending[a]) + k
    BY <1>1 DEF PendingInOrder
  <2>2. \A k \in 1..Len(pending'[a]) :
           pending'[a][k] = submitted'[a] - Len(pending'[a]) + k
    <3> SUFFICES ASSUME NEW k \in 1..(Len(pending[a]) + 1)
                 PROVE  pending'[a][k] = submitted'[a] - Len(pending'[a]) + k
      BY <1>2
    <3>1. CASE k = Len(pending[a]) + 1
      BY <1>1, <1>2, <1>3, <3>1
    <3>2. CASE k \in 1..Len(pending[a])
      BY <1>1, <1>2, <1>3, <2>1, <3>2
    <3> QED
      BY <1>2, <3>1, <3>2
  <2> QED
    BY <1>1, <1>2, <1>3, <2>2 DEF PendingInOrder
<1>9. QueuedIsNext'
  <2> SUFFICES ASSUME NEW b \in Actors, NEW i \in DOMAIN workQueue, Queued(i, b)
               PROVE  /\ workQueue[i].task = started[b] + 1
                      /\ finished[b] = started[b]
                      /\ started[b] + 1 + Len(pending'[b]) = submitted'[b]
    BY <1>1, <1>4 DEF QueuedIsNext
  <2>1. /\ workQueue[i].task = started[b] + 1
        /\ finished[b] = started[b]
        /\ started[b] + 1 + Len(pending[b]) = submitted[b]
    BY DEF QueuedIsNext
  <2>2. submitted'[b] - Len(pending'[b]) = submitted[b] - Len(pending[b])
    BY <1>3a
  <2>3. Len(pending'[b]) \in Nat /\ submitted'[b] \in Nat
    BY <1>3a
  <2> QED
    BY <1>2, <1>3, <2>1, <2>2, <2>3
<1>10. HeldIsLatest'
  <2> SUFFICES ASSUME NEW b \in Actors, NEW t \in Threads, Holds(t, b)
               PROVE  RunsLatest(t, b) /\ started[b] + Len(pending'[b]) = submitted'[b]
    BY <1>1, <1>4 DEF HeldIsLatest
  <2>1. RunsLatest(t, b) /\ started[b] + Len(pending[b]) = submitted[b]
    BY <1>1 DEF HeldIsLatest
  <2>2. submitted'[b] - Len(pending'[b]) = submitted[b] - Len(pending[b])
    BY <1>3a
  <2>3. Len(pending'[b]) \in Nat /\ submitted'[b] \in Nat
    BY <1>3a
  <2> QED
    BY <1>2, <1>3, <2>1, <2>2, <2>3
<1>11. RestingIsDone'
  BY <1>1, <1>3 DEF RestingIsDone
<1> QED
  BY <1>5, <1>6, <1>7, <1>8, <1>9, <1>10, <1>11

\* A task goes to the executor.
LEMMA SubmitAhead ==
    ASSUME Inv, NEW a \in Actors, Submit(a), a \notin playingNow PROVE Inv'
<1> USE DEF Inv, InOrder
<1>1. /\ playingNow' = playingNow \cup {a}
      /\ submitted' = [submitted EXCEPT ![a] = @ + 1]
      /\ submitted[a] \in Nat /\ submitted[a] < MaxTasks
      /\ ~isShutdown
      /\ workQueue' = Append(workQueue, [act |-> a, task |-> submitted[a] + 1])
      /\ UNCHANGED <<pending, worker, started, finished, isShutdown>>
  BY DEF Submit, Execute, TypeOK
<1> DEFINE last == Len(workQueue) + 1
<1>2. /\ workQueue' \in Seq(Task)
      /\ Len(workQueue) \in Nat
      /\ DOMAIN workQueue = 1..Len(workQueue)
      /\ DOMAIN workQueue' = 1..last
      /\ \A i \in 1..Len(workQueue) : workQueue'[i] = workQueue[i]
      /\ workQueue'[last].act = a
      /\ workQueue'[last].task = submitted[a] + 1
  BY <1>1, AppendTask
<1>3. /\ pending[a] = <<>> /\ Len(pending[a]) = 0
      /\ \A i \in DOMAIN workQueue : ~Queued(i, a)
      /\ \A t \in Threads : ~Holds(t, a)
      /\ started[a] = submitted[a] /\ finished[a] = started[a]
  BY <1>1 DEF OnePlace, NothingStranded, RestingIsDone
<1>4. /\ \A b \in Actors, i \in 1..last :
            Queued(i, b)' <=> IF i = last THEN b = a ELSE Queued(i, b)
      /\ \A b \in Actors, t \in Threads : Holds(t, b)' <=> Holds(t, b)
      /\ \A b \in Actors, t \in Threads : RunsLatest(t, b)' <=> RunsLatest(t, b)
  BY <1>1, <1>2 DEF Queued, Holds, RunsLatest
<1>5. /\ submitted'[a] = submitted[a] + 1
      /\ \A b \in Actors \ {a} : submitted'[b] = submitted[b]
      /\ \A b \in Actors : started[b] \in Nat /\ submitted[b] \in Nat
  BY <1>1 DEF TypeOK
<1>6. TypeOK'
  BY <1>1, <1>2, PoolAssumption DEF TypeOK
<1>7. OnePlace'
  <2> SUFFICES ASSUME NEW b \in Actors
               PROVE  /\ \A i, j \in 1..last : Queued(i, b)' /\ Queued(j, b)' => i = j
                      /\ \A u, v \in Threads : Holds(u, b)' /\ Holds(v, b)' => u = v
                      /\ ~ \E i \in 1..last, u \in Threads : Queued(i, b)' /\ Holds(u, b)'
                      /\ (\E i \in 1..last : Queued(i, b)') => b \in playingNow'
                      /\ (\E u \in Threads : Holds(u, b)') => b \in playingNow'
    BY <1>2 DEF OnePlace
  <2>1. CASE b = a
    <3>1. \A u \in Threads : ~Holds(u, b)'
      BY <1>3, <1>4, <2>1
    <3>2. \A i \in 1..last : Queued(i, b)' => i = last
      BY <1>2, <1>3, <1>4, <2>1
    <3> QED
      BY <1>1, <2>1, <3>1, <3>2
  <2>2. CASE b # a
    <3>1. \A i \in 1..last : Queued(i, b)' => i \in DOMAIN workQueue /\ Queued(i, b)
      BY <1>2, <1>4, <2>2
    <3>2. \A u \in Threads : Holds(u, b)' => Holds(u, b)
      BY <1>4
    <3> QED
      BY <1>1, <3>1, <3>2 DEF OnePlace
  <2> QED
    BY <2>1, <2>2
<1>8. NothingStranded'
  BY <1>1, <1>2, <1>3, <1>4 DEF NothingStranded
<1>9. PendingInOrder'
  BY <1>1, <1>3, <1>5 DEF PendingInOrder
<1>10. QueuedIsNext'
  <2> SUFFICES ASSUME NEW b \in Actors, NEW i \in 1..last, Queued(i, b)'
               PROVE  /\ workQueue'[i].task = started[b] + 1
                      /\ finished[b] = started[b]
                      /\ started[b] + 1 + Len(pending[b]) = submitted'[b]
    BY <1>1, <1>2 DEF QueuedIsNext
  <2>1. CASE i = last
    BY <1>2, <1>3, <1>4, <1>5, <2>1
  <2>2. CASE i # last
    <3>1. Queued(i, b) /\ b # a /\ i \in DOMAIN workQueue
      BY <1>2, <1>3, <1>4, <2>2
    <3> QED
      BY <1>2, <1>5, <2>2, <3>1 DEF QueuedIsNext
  <2> QED
    BY <2>1, <2>2
<1>11. HeldIsLatest'
  <2> SUFFICES ASSUME NEW b \in Actors, NEW t \in Threads, Holds(t, b)
               PROVE  RunsLatest(t, b) /\ started[b] + Len(pending[b]) = submitted'[b]
    BY <1>1, <1>4 DEF HeldIsLatest
  <2>1. b # a
    BY <1>3
  <2> QED
    BY <1>1, <1>5, <2>1 DEF HeldIsLatest
<1>12. RestingIsDone'
  BY <1>1, <1>5 DEF RestingIsDone
<1> QED
  BY <1>6, <1>7, <1>8, <1>9, <1>10, <1>11, <1>12

\* A thread takes the first task of the queue.
LEMMA TakeInv ==
    ASSUME Inv, NEW t \in Threads, Take(t) PROVE Inv'
<1> USE DEF Inv, InOrder
<1>a. workQueue[1].act \in Actors /\ workQueue[1].task \in Nat \ {0}
  BY TailTask DEF Take
<1>b. PICK a \in Actors, n \in Nat \ {0} :
         a = workQueue[1].act /\ n = workQueue[1].task
  BY <1>a
<1> DEFINE len == Len(workQueue)
<1>1. /\ workQueue' = Tail(workQueue) /\ workQueue # <<>>
      /\ Head(workQueue) = workQueue[1]
      /\ workQueue' \in Seq(Task)
      /\ len \in Nat \ {0}
      /\ DOMAIN workQueue = 1..len
      /\ DOMAIN workQueue' = 1..(len - 1)
      /\ \A i \in 1..(len - 1) : workQueue'[i] = workQueue[i + 1]
      /\ workQueue[1].act = a /\ workQueue[1].task = n
  BY <1>b, TailTask DEF Take
<1>2. /\ worker[t] = Idle
      /\ worker' = [worker EXCEPT ![t] = Running(a, n)]
      /\ started' = [started EXCEPT ![a] = n]
      /\ UNCHANGED <<playingNow, pending, submitted, finished, isShutdown>>
  BY <1>1 DEF Take
<1>3. Queued(1, a) /\ 1 \in DOMAIN workQueue
  BY <1>1 DEF Queued
<1>4. /\ ~isShutdown
      /\ n = started[a] + 1
      /\ finished[a] = started[a]
      /\ started[a] + 1 + Len(pending[a]) = submitted[a]
      /\ a \in playingNow
  BY <1>1, <1>3 DEF QueuedIsNext, OnePlace
<1>5. /\ worker \in [Threads -> WorkerState]
      /\ worker'[t] = Running(a, n)
      /\ \A u \in Threads \ {t} : worker'[u] = worker[u]
      /\ started'[a] = n
      /\ \A b \in Actors \ {a} : started'[b] = started[b]
      /\ started[a] \in Nat /\ Len(pending[a]) \in Nat
      /\ submitted[a] \in Nat /\ submitted[a] <= MaxTasks /\ MaxTasks \in Nat
  BY <1>1, <1>2, PoolAssumption DEF TypeOK
<1>6. /\ \A b \in Actors, i \in 1..(len - 1) :
            Queued(i, b)' <=> Queued(i + 1, b) /\ i + 1 \in DOMAIN workQueue
      /\ \A b \in Actors, u \in Threads :
            Holds(u, b)' <=> IF u = t THEN b = a ELSE Holds(u, b)
      /\ \A b \in Actors : ~Holds(t, b)
      /\ \A i \in 1..(len - 1) : ~Queued(i, a)'
      /\ \A u \in Threads : ~Holds(u, a)
  <2>1. \A b \in Actors, i \in 1..(len - 1) :
            Queued(i, b)' <=> Queued(i + 1, b) /\ i + 1 \in DOMAIN workQueue
    BY <1>1 DEF Queued
  <2>2. \A b \in Actors, u \in Threads :
            Holds(u, b)' <=> IF u = t THEN b = a ELSE Holds(u, b)
    BY <1>5, WorkerRecords DEF Holds
  <2>3. \A b \in Actors : ~Holds(t, b)
    BY <1>2 DEF Holds
  <2>4. \A u \in Threads : ~Holds(u, a)
    BY <1>1, <1>3 DEF OnePlace
  <2>5. \A i \in 1..(len - 1) : ~Queued(i + 1, a)
    <3> SUFFICES ASSUME NEW i \in 1..(len - 1), Queued(i + 1, a) PROVE FALSE
      OBVIOUS
    <3>1. i + 1 \in DOMAIN workQueue /\ i + 1 # 1
      BY <1>1
    <3> QED
      BY <1>1, <1>3, <3>1 DEF OnePlace
  <2>6. \A i \in 1..(len - 1) : ~Queued(i, a)'
    BY <1>1, <2>1, <2>5, Zenon
  <2> QED
    BY <2>1, <2>2, <2>3, <2>4, <2>6, Zenon
<1>7. TypeOK'
  <2>1. worker' \in [Threads -> WorkerState]
    BY <1>1, <1>2, <1>5, WorkerRecords
  <2>2. n \in 0..MaxTasks
    BY <1>1, <1>4, <1>5
  <2>3. started' \in [Actors -> 0..MaxTasks]
    BY <1>2, <2>2 DEF TypeOK
  <2> QED
    BY <1>1, <1>2, <2>1, <2>3 DEF TypeOK
<1>8. OnePlace'
  <2> SUFFICES ASSUME NEW b \in Actors
               PROVE
         /\ \A i, j \in 1..(len - 1) : Queued(i, b)' /\ Queued(j, b)' => i = j
         /\ \A u, v \in Threads : Holds(u, b)' /\ Holds(v, b)' => u = v
         /\ ~ \E i \in 1..(len - 1), u \in Threads : Queued(i, b)' /\ Holds(u, b)'
         /\ (\E i \in 1..(len - 1) : Queued(i, b)') => b \in playingNow
         /\ (\E u \in Threads : Holds(u, b)') => b \in playingNow
    BY <1>1, <1>2 DEF OnePlace
  <2>1. \A i, j \in 1..(len - 1) : Queued(i, b)' /\ Queued(j, b)' => i = j
    <3> SUFFICES ASSUME NEW i \in 1..(len - 1), NEW j \in 1..(len - 1),
                        Queued(i, b)', Queued(j, b)'
                 PROVE  i = j
      OBVIOUS
    <3>1. i + 1 = j + 1
      BY <1>6 DEF OnePlace
    <3> QED
      BY <1>1, <3>1
  <2>2. \A u, v \in Threads : Holds(u, b)' /\ Holds(v, b)' => u = v
    BY <1>6 DEF OnePlace
  <2>3. ~ \E i \in 1..(len - 1), u \in Threads : Queued(i, b)' /\ Holds(u, b)'
    <3> SUFFICES ASSUME NEW i \in 1..(len - 1), NEW u \in Threads,
                        Queued(i, b)', Holds(u, b)'
                 PROVE  FALSE
      OBVIOUS
    <3>1. b # a /\ Queued(i + 1, b) /\ i + 1 \in DOMAIN workQueue
      BY <1>6, Zenon
    <3>2. Holds(u, b)
      BY <1>6, <3>1, Zenon
    <3> QED
      BY <3>1, <3>2 DEF OnePlace
  <2>4. (\E i \in 1..(len - 1) : Queued(i, b)') => b \in playingNow
    BY <1>6 DEF OnePlace
  <2>5. (\E u \in Threads : Holds(u, b)') => b \in playingNow
    BY <1>4, <1>6 DEF OnePlace
  <2> QED
    BY <2>1, <2>2, <2>3, <2>4, <2>5
<1>9. NothingStranded'
  <2> SUFFICES ASSUME NEW b \in playingNow
               PROVE  \/ \E i \in 1..(len - 1) : Queued(i, b)'
                      \/ \E u \in Threads : Holds(u, b)'
    BY <1>1, <1>2 DEF NothingStranded
  <2>1. b \in Actors
    BY DEF TypeOK
  <2>2. CASE b = a
    BY <1>6, <2>1, <2>2
  <2>3. CASE b # a /\ \E u \in Threads : Holds(u, b)
    BY <1>6, <2>1, <2>3
  <2>4. CASE b # a /\ \E i \in DOMAIN workQueue : Queued(i, b)
    <3>1. PICK i \in 1..len : Queued(i, b)
      BY <1>1, <2>4
    <3>2. i # 1
      BY <1>1, <2>4, <3>1 DEF Queued
    <3>3. i - 1 \in 1..(len - 1) /\ (i - 1) + 1 = i
      BY <1>1, <3>2
    <3>4. Queued(i - 1, b)'
      BY <1>1, <1>6, <2>1, <3>1, <3>3
    <3> QED
      BY <3>3, <3>4
  <2> QED
    BY <1>4, <2>1, <2>2, <2>3, <2>4 DEF NothingStranded
<1>10. PendingInOrder'
  BY <1>2 DEF PendingInOrder
<1>11. QueuedIsNext'
  <2> SUFFICES ASSUME NEW b \in Actors, NEW i \in 1..(len - 1), Queued(i, b)'
               PROVE  /\ workQueue'[i].task = started'[b] + 1
                      /\ finished[b] = started'[b]
                      /\ started'[b] + 1 + Len(pending[b]) = submitted[b]
    BY <1>1, <1>2, <1>4 DEF QueuedIsNext
  <2>1. b # a /\ Queued(i + 1, b) /\ i + 1 \in DOMAIN workQueue
    BY <1>6, Zenon
  <2>2. started'[b] = started[b] /\ workQueue'[i] = workQueue[i + 1]
    BY <1>1, <1>5, <2>1
  <2> QED
    BY <2>1, <2>2 DEF QueuedIsNext
<1>12. HeldIsLatest'
  <2> SUFFICES ASSUME NEW b \in Actors, NEW u \in Threads, Holds(u, b)'
               PROVE  /\ RunsLatest(u, b)'
                      /\ started'[b] + Len(pending[b]) = submitted[b]
    BY <1>2 DEF HeldIsLatest
  <2>1. CASE u = t
    <3>1. b = a
      BY <1>6, <2>1
    <3>2. worker'[u].state = "running" /\ worker'[u].task = n
      BY <1>5, <2>1, WorkerRecords
    <3>3. finished'[b] < started'[b] /\ started'[b] = n
      BY <1>2, <1>4, <1>5, <3>1
    <3>4. RunsLatest(u, b)'
      BY <3>2, <3>3 DEF RunsLatest
    <3> QED
      BY <1>4, <1>5, <3>1, <3>4
  <2>2. CASE u # t
    <3>1. Holds(u, b) /\ b # a
      BY <1>6, <2>2
    <3>2. started'[b] = started[b] /\ worker'[u] = worker[u]
      BY <1>5, <2>2, <3>1
    <3> QED
      BY <1>2, <1>4, <3>1, <3>2 DEF HeldIsLatest, RunsLatest
  <2> QED
    BY <2>1, <2>2
<1>13. RestingIsDone'
  BY <1>2, <1>4, <1>5 DEF RestingIsDone
<1> QED
  BY <1>7, <1>8, <1>9, <1>10, <1>11, <1>12, <1>13

\* A thread's task ends.
LEMMA FinishInv ==
    ASSUME Inv, NEW t \in Threads, Finish(t) PROVE Inv'
<1> USE DEF Inv, InOrder
<1>a. worker[t].state = "running"
  BY DEF Finish
<1>b. worker[t].act \in Actors /\ worker[t].task \in Nat \ {0} /\ worker[t] # Idle
  BY <1>a, WorkerCases, WorkerRecords
<1>c. PICK a \in Actors, n \in Nat \ {0} : worker[t].act = a /\ worker[t].task = n
  BY <1>b
<1>1. /\ worker[t].state = "running"
      /\ worker' = [worker EXCEPT ![t] = Completing(a)]
      /\ finished' = [finished EXCEPT ![a] = n]
      /\ UNCHANGED <<playingNow, pending, workQueue, submitted, started, isShutdown>>
  BY <1>c DEF Finish
<1>2. worker[t] # Idle /\ worker[t].act = a /\ worker[t].task = n
  BY <1>b, <1>c
<1>3. Holds(t, a)
  BY <1>2 DEF Holds
<1>4. /\ n = started[a] /\ finished[a] < started[a]
      /\ ~isShutdown => started[a] + Len(pending[a]) = submitted[a]
      /\ a \in playingNow
      /\ \A i \in DOMAIN workQueue : ~Queued(i, a)
      /\ \A u \in Threads : Holds(u, a) => u = t
  BY <1>1, <1>2, <1>3 DEF HeldIsLatest, RunsLatest, OnePlace
<1>5. /\ worker'[t] = Completing(a)
      /\ \A u \in Threads \ {t} : worker'[u] = worker[u]
      /\ finished'[a] = n
      /\ \A b \in Actors \ {a} : finished'[b] = finished[b]
  BY <1>1, <1>2 DEF TypeOK
<1>6. /\ \A b \in Actors, u \in Threads : Holds(u, b)' <=> Holds(u, b)
      /\ \A b \in Actors, i \in DOMAIN workQueue : Queued(i, b)' <=> Queued(i, b)
  <2>1. \A b \in Actors : Holds(t, b)' <=> b = a
    <3>1. worker'[t] # Idle /\ worker'[t].act = a
      BY <1>5, WorkerRecords
    <3> QED
      BY <3>1 DEF Holds
  <2>2. \A b \in Actors : Holds(t, b) <=> b = a
    BY <1>2 DEF Holds
  <2>3. \A b \in Actors, u \in Threads \ {t} : Holds(u, b)' <=> Holds(u, b)
    BY <1>5 DEF Holds
  <2> QED
    BY <1>1, <2>1, <2>2, <2>3 DEF Queued
<1>7. TypeOK'
  <2>1. worker' \in [Threads -> WorkerState]
    BY <1>1, <1>2, WorkerRecords DEF TypeOK
  <2>2. finished' \in [Actors -> 0..MaxTasks]
    BY <1>1, <1>2, <1>4 DEF TypeOK
  <2> QED
    BY <1>1, <2>1, <2>2 DEF TypeOK
<1>8. OnePlace'
  BY <1>1, <1>6 DEF OnePlace
<1>9. NothingStranded'
  <2>1. playingNow \subseteq Actors
    BY DEF TypeOK
  <2> QED
    BY <1>1, <1>6, <2>1 DEF NothingStranded
<1>10. PendingInOrder'
  BY <1>1 DEF PendingInOrder
<1>11. QueuedIsNext'
  <2> SUFFICES ASSUME NEW b \in Actors, NEW i \in DOMAIN workQueue, Queued(i, b)
               PROVE  /\ ~isShutdown
                      /\ workQueue[i].task = started[b] + 1
                      /\ finished'[b] = started[b]
                      /\ started[b] + 1 + Len(pending[b]) = submitted[b]
    BY <1>1, <1>6 DEF QueuedIsNext
  <2>1. b # a
    BY <1>4
  <2> QED
    BY <1>5, <2>1 DEF QueuedIsNext
<1>12. HeldIsLatest'
  <2> SUFFICES ASSUME NEW b \in Actors, NEW u \in Threads, Holds(u, b)
               PROVE  /\ RunsLatest(u, b)'
                      /\ ~isShutdown => started[b] + Len(pending[b]) = submitted[b]
    BY <1>1, <1>6 DEF HeldIsLatest
  <2>1. CASE u = t
    <3>1. b = a
      BY <1>2, <2>1 DEF Holds
    <3>2. worker'[u].state = "completing"
      BY <1>5, <2>1 DEF Completing
    <3> QED
      BY <1>1, <1>4, <1>5, <3>1, <3>2 DEF RunsLatest
  <2>2. CASE u # t
    <3>1. b # a
      BY <1>4, <2>2
    <3> QED
      BY <1>1, <1>5, <2>2, <3>1 DEF HeldIsLatest, RunsLatest
  <2> QED
    BY <2>1, <2>2
<1>13. RestingIsDone'
  BY <1>1, <1>4, <1>5 DEF RestingIsDone
<1> QED
  BY <1>7, <1>8, <1>9, <1>10, <1>11, <1>12, <1>13

\* complete(act) when nothing is pending.
LEMMA CompleteRests ==
    ASSUME Inv, NEW t \in Threads, NEW a \in Actors, Complete(t),
           worker[t].act = a, pending[a] = <<>>
    PROVE  Inv'
<1> USE DEF Inv, InOrder
<1>1. /\ worker[t].state = "completing"
      /\ worker' = [worker EXCEPT ![t] = Idle]
      /\ playingNow' = playingNow \ {a}
      /\ UNCHANGED <<pending, workQueue, submitted, started, finished, isShutdown>>
  BY DEF Complete, history
<1>2. Holds(t, a)
  BY <1>1, WorkerRecords DEF Holds, Idle
<1>3. /\ \A u \in Threads : Holds(u, a) => u = t
      /\ \A i \in DOMAIN workQueue : ~Queued(i, a)
      /\ finished[a] = started[a]
      /\ ~isShutdown => started[a] + Len(pending[a]) = submitted[a]
  BY <1>1, <1>2 DEF OnePlace, HeldIsLatest, RunsLatest
<1>4. /\ worker'[t] = Idle
      /\ \A u \in Threads \ {t} : worker'[u] = worker[u]
      /\ started[a] \in Nat
      /\ Len(pending[a]) = 0
  BY <1>1 DEF TypeOK
<1>5. /\ \A b \in Actors, u \in Threads : Holds(u, b)' <=> u # t /\ Holds(u, b)
      /\ \A b \in Actors, i \in DOMAIN workQueue : Queued(i, b)' <=> Queued(i, b)
      /\ \A u \in Threads \ {t} : \A b \in Actors : RunsLatest(u, b)' <=> RunsLatest(u, b)
  BY <1>1, <1>4 DEF Holds, Queued, RunsLatest
<1>6. \A b \in Actors \ {a} : ~Holds(t, b)
  BY DEF Holds
<1>7. TypeOK'
  <2>1. worker' \in [Threads -> WorkerState]
    BY <1>1, WorkerRecords DEF TypeOK
  <2> QED
    BY <1>1, <2>1 DEF TypeOK
<1>8. OnePlace'
  BY <1>1, <1>3, <1>5 DEF OnePlace
<1>9. NothingStranded'
  <2> SUFFICES ASSUME ~isShutdown, NEW b \in Actors
               PROVE  /\ pending[b] # <<>> => b \in playingNow'
                      /\ b \in playingNow' =>
                           \/ \E i \in DOMAIN workQueue : Queued(i, b)
                           \/ \E u \in Threads : Holds(u, b)'
    BY <1>1, <1>5 DEF NothingStranded
  <2> QED
    BY <1>1, <1>5, <1>6 DEF NothingStranded
<1>10. PendingInOrder'
  BY <1>1 DEF PendingInOrder
<1>11. QueuedIsNext'
  BY <1>1, <1>5 DEF QueuedIsNext
<1>12. HeldIsLatest'
  BY <1>1, <1>5 DEF HeldIsLatest
<1>13. RestingIsDone'
  <2>1. ~isShutdown => started[a] = submitted[a]
    BY <1>3, <1>4
  <2> QED
    BY <1>1, <1>3, <2>1 DEF RestingIsDone
<1> QED
  BY <1>7, <1>8, <1>9, <1>10, <1>11, <1>12, <1>13

\* complete(act) when a task is pending: it is executed, or after the shutdown
\* rejected and lost.
LEMMA CompletePasses ==
    ASSUME Inv, NEW t \in Threads, NEW a \in Actors, Complete(t),
           worker[t].act = a, pending[a] # <<>>
    PROVE  Inv'
<1> USE DEF Inv, InOrder
<1>1. /\ worker[t].state = "completing"
      /\ worker' = [worker EXCEPT ![t] = Idle]
      /\ Execute(a, Head(pending[a]))
      /\ pending' = [pending EXCEPT ![a] = Tail(@)]
      /\ UNCHANGED <<playingNow, submitted, started, finished, isShutdown>>
  BY DEF Complete, history
<1>2. Holds(t, a)
  BY <1>1 DEF Holds, Idle
<1>3. /\ \A u \in Threads : Holds(u, a) => u = t
      /\ \A i \in DOMAIN workQueue : ~Queued(i, a)
      /\ a \in playingNow
      /\ finished[a] = started[a]
      /\ ~isShutdown => started[a] + Len(pending[a]) = submitted[a]
  BY <1>1, <1>2 DEF OnePlace, HeldIsLatest, RunsLatest
<1>4. /\ worker'[t] = Idle
      /\ \A u \in Threads \ {t} : worker'[u] = worker[u]
      /\ \A b \in Actors : started[b] \in Nat /\ submitted[b] \in Nat
  BY <1>1 DEF TypeOK
<1>5. /\ \A b \in Actors, u \in Threads : Holds(u, b)' <=> u # t /\ Holds(u, b)
      /\ \A u \in Threads \ {t} : \A b \in Actors : RunsLatest(u, b)' <=> RunsLatest(u, b)
  BY <1>1, <1>4 DEF Holds, RunsLatest
<1>6. \A b \in Actors \ {a} : ~Holds(t, b)
  BY DEF Holds
<1>7. /\ pending' \in [Actors -> Seq(Nat \ {0})]
      /\ \A b \in Actors \ {a} : pending'[b] = pending[b]
      /\ Len(pending[a]) \in Nat \ {0}
      /\ Len(pending'[a]) = Len(pending[a]) - 1
      /\ \A k \in 1..(Len(pending[a]) - 1) : pending'[a][k] = pending[a][k + 1]
      /\ Head(pending[a]) = pending[a][1]
      /\ Head(pending[a]) \in Nat \ {0}
  BY <1>1 DEF TypeOK
<1>8. worker' \in [Threads -> WorkerState]
  BY <1>1, WorkerRecords DEF TypeOK
<1>9. CASE isShutdown
  <2>1. UNCHANGED workQueue /\ isShutdown'
    BY <1>1, <1>9 DEF Execute
  <2>2. \A b \in Actors, i \in DOMAIN workQueue : ~Queued(i, b) /\ ~Queued(i, b)'
    BY <1>9, <2>1 DEF QueuedIsNext, Queued
  <2>3. TypeOK'
    BY <1>1, <1>7, <1>8, <2>1 DEF TypeOK
  <2>4. OnePlace'
    BY <1>1, <1>5, <2>1, <2>2 DEF OnePlace
  <2>5. NothingStranded' /\ PendingInOrder' /\ RestingIsDone'
    BY <2>1 DEF NothingStranded, PendingInOrder, RestingIsDone
  <2>6. QueuedIsNext'
    BY <2>1, <2>2 DEF QueuedIsNext
  <2>7. HeldIsLatest'
    BY <1>5, <2>1 DEF HeldIsLatest
  <2> QED
    BY <2>3, <2>4, <2>5, <2>6, <2>7
<1>10. CASE ~isShutdown
  <2> DEFINE last == Len(workQueue) + 1
  <2>1. /\ workQueue' = Append(workQueue, [act |-> a, task |-> Head(pending[a])])
        /\ ~isShutdown'
    BY <1>1, <1>10 DEF Execute
  <2>2. /\ workQueue' \in Seq(Task)
        /\ Len(workQueue) \in Nat
        /\ DOMAIN workQueue = 1..Len(workQueue)
        /\ DOMAIN workQueue' = 1..last
        /\ \A i \in 1..Len(workQueue) : workQueue'[i] = workQueue[i]
        /\ workQueue'[last].act = a
        /\ workQueue'[last].task = Head(pending[a])
    BY <1>7, <2>1, AppendTask
  <2>3. \A b \in Actors, i \in 1..last :
            Queued(i, b)' <=> IF i = last THEN b = a ELSE Queued(i, b)
    BY <2>2 DEF Queued
  <2>4. \A k \in 1..Len(pending[a]) :
            pending[a][k] = submitted[a] - Len(pending[a]) + k
    BY <1>10 DEF PendingInOrder
  <2>5. Head(pending[a]) = started[a] + 1
    <3>1. pending[a][1] = submitted[a] - Len(pending[a]) + 1
      BY <1>7, <2>4
    <3> QED
      BY <1>3, <1>4, <1>7, <1>10, <3>1
  <2>6. TypeOK'
    BY <1>1, <1>7, <1>8, <2>2 DEF TypeOK
  <2>7. OnePlace'
    <3> SUFFICES ASSUME NEW b \in Actors
                 PROVE  /\ \A i, j \in 1..last : Queued(i, b)' /\ Queued(j, b)' => i = j
                        /\ \A u, v \in Threads : Holds(u, b)' /\ Holds(v, b)' => u = v
                        /\ ~ \E i \in 1..last, u \in Threads : Queued(i, b)' /\ Holds(u, b)'
                        /\ (\E i \in 1..last : Queued(i, b)') => b \in playingNow
                        /\ (\E u \in Threads : Holds(u, b)') => b \in playingNow
      BY <1>1, <2>2 DEF OnePlace
    <3>1. CASE b = a
      <4>1. \A u \in Threads : ~Holds(u, b)'
        BY <1>3, <1>5, <3>1
      <4>2. \A i \in 1..last : Queued(i, b)' => i = last
        BY <1>3, <2>2, <2>3, <3>1
      <4> QED
        BY <1>3, <3>1, <4>1, <4>2
    <3>2. CASE b # a
      <4>1. \A i \in 1..last : Queued(i, b)' => i \in DOMAIN workQueue /\ Queued(i, b)
        BY <2>2, <2>3, <3>2
      <4>2. \A u \in Threads : Holds(u, b)' => Holds(u, b)
        BY <1>5
      <4> QED
        BY <4>1, <4>2 DEF OnePlace
    <3> QED
      BY <3>1, <3>2
  <2>8. NothingStranded'
    <3> SUFFICES ASSUME NEW b \in Actors
                 PROVE  /\ pending'[b] # <<>> => b \in playingNow
                        /\ b \in playingNow =>
                             \/ \E i \in 1..last : Queued(i, b)'
                             \/ \E u \in Threads : Holds(u, b)'
      BY <1>1, <2>2 DEF NothingStranded
    <3>1. CASE b = a
      BY <1>3, <2>2, <2>3, <3>1
    <3>2. CASE b # a
      <4>1. pending'[b] = pending[b]
        BY <1>7, <3>2
      <4>2. \A i \in DOMAIN workQueue : Queued(i, b) => i \in 1..last /\ Queued(i, b)'
        BY <2>2, <2>3
      <4>3. \A u \in Threads : Holds(u, b) => Holds(u, b)'
        BY <1>5, <1>6, <3>2
      <4> QED
        BY <1>10, <4>1, <4>2, <4>3 DEF NothingStranded
    <3> QED
      BY <3>1, <3>2
  <2>9. PendingInOrder'
    <3> SUFFICES ASSUME NEW b \in Actors, NEW k \in 1..Len(pending'[b])
                 PROVE  pending'[b][k] = submitted[b] - Len(pending'[b]) + k
      BY <1>1 DEF PendingInOrder
    <3>1. CASE b = a
      <4>1. k \in 1..(Len(pending[a]) - 1) /\ k + 1 \in 1..Len(pending[a])
        BY <1>7, <3>1
      <4>2. pending[a][k + 1] = submitted[a] - Len(pending[a]) + (k + 1)
        BY <2>4, <4>1
      <4>3. pending'[a][k] = pending[a][k + 1]
        BY <1>7, <4>1
      <4>4. \A x, y, z \in Nat : x - y + (z + 1) = x - (y - 1) + z
        OBVIOUS
      <4>5. submitted[a] \in Nat /\ Len(pending[a]) \in Nat /\ k \in Nat
        BY <1>4, <1>7, <4>1
      <4>6. pending'[a][k] = submitted[a] - (Len(pending[a]) - 1) + k
        <5>1. submitted[a] - Len(pending[a]) + (k + 1) = submitted[a] - (Len(pending[a]) - 1) + k
          BY ONLY <4>4, <4>5
        <5> QED
          BY <4>2, <4>3, <5>1, Zenon
      <4> QED
        BY <1>7, <3>1, <4>6
    <3>2. CASE b # a
      BY <1>7, <1>10, <3>2 DEF PendingInOrder
    <3> QED
      BY <3>1, <3>2
  <2>10. QueuedIsNext'
    <3> SUFFICES ASSUME NEW b \in Actors, NEW i \in 1..last, Queued(i, b)'
                 PROVE  /\ workQueue'[i].task = started[b] + 1
                        /\ finished[b] = started[b]
                        /\ started[b] + 1 + Len(pending'[b]) = submitted[b]
      BY <1>1, <2>1, <2>2 DEF QueuedIsNext
    <3>1. CASE i = last
      <4>1. b = a
        BY <2>3, <3>1
      <4>2. workQueue'[i].task = started[a] + 1 /\ finished[a] = started[a]
        BY <1>3, <2>2, <2>5, <3>1
      <4>3. started[a] + 1 + (Len(pending[a]) - 1) = submitted[a]
        <5>1. started[a] + Len(pending[a]) = submitted[a]
          BY <1>3, <1>10
        <5>2. started[a] \in Nat /\ Len(pending[a]) \in Nat
          BY <1>4, <1>7
        <5> QED
          BY <5>1, <5>2
      <4> QED
        BY <1>7, <4>1, <4>2, <4>3
    <3>2. CASE i # last
      <4>1. i \in DOMAIN workQueue /\ Queued(i, b) /\ b # a
        BY <1>3, <2>2, <2>3, <3>2
      <4>2. workQueue'[i] = workQueue[i] /\ pending'[b] = pending[b]
        BY <1>7, <2>2, <4>1
      <4> QED
        BY <4>1, <4>2 DEF QueuedIsNext
    <3> QED
      BY <3>1, <3>2
  <2>11. HeldIsLatest'
    <3> SUFFICES ASSUME NEW b \in Actors, NEW u \in Threads, Holds(u, b)'
                 PROVE  RunsLatest(u, b)' /\ started[b] + Len(pending'[b]) = submitted[b]
      BY <1>1 DEF HeldIsLatest
    <3>1. u # t /\ Holds(u, b)
      BY <1>5
    <3>2. b # a
      BY <1>3, <3>1
    <3> QED
      BY <1>5, <1>7, <1>10, <3>1, <3>2 DEF HeldIsLatest
  <2>12. RestingIsDone'
    BY <1>1 DEF RestingIsDone
  <2> QED
    BY <2>6, <2>7, <2>8, <2>9, <2>10, <2>11, <2>12
<1> QED
  BY <1>9, <1>10

\* The queue is dropped; what runs goes on.
LEMMA ShutdownInv == ASSUME Inv, Shutdown PROVE Inv'
<1> USE DEF Inv, InOrder
<1>1. /\ isShutdown' = TRUE /\ workQueue' = <<>> /\ DOMAIN workQueue' = {}
      /\ workQueue' \in Seq(Task)
      /\ UNCHANGED <<playingNow, pending, worker, submitted, started, finished>>
  BY DEF Shutdown, history
<1>2. /\ \A a \in Actors, t \in Threads : Holds(t, a)' <=> Holds(t, a)
      /\ \A a \in Actors, t \in Threads : RunsLatest(t, a)' <=> RunsLatest(t, a)
  BY <1>1 DEF Holds, RunsLatest
<1>3. TypeOK'
  BY <1>1 DEF TypeOK
<1>4. OnePlace'
  BY <1>1, <1>2 DEF OnePlace
<1>5. NothingStranded' /\ PendingInOrder' /\ RestingIsDone' /\ QueuedIsNext'
  BY <1>1 DEF NothingStranded, PendingInOrder, RestingIsDone, QueuedIsNext
<1>6. HeldIsLatest'
  BY <1>1, <1>2 DEF HeldIsLatest
<1> QED
  BY <1>3, <1>4, <1>5, <1>6

LEMMA InvStep == Inv /\ [Next]_vars => Inv'
<1> SUFFICES ASSUME Inv, [Next]_vars PROVE Inv'
  OBVIOUS
<1>1. CASE UNCHANGED vars
  BY <1>1 DEF vars, history, Inv, TypeOK, OnePlace, NothingStranded, InOrder, PendingInOrder,
              QueuedIsNext, HeldIsLatest, RunsLatest, RestingIsDone, Queued, Holds
<1>2. ASSUME NEW a \in Actors, Submit(a) PROVE Inv'
  BY <1>2, SubmitBehind, SubmitAhead
<1>3. ASSUME NEW t \in Threads, Take(t) PROVE Inv'
  BY <1>3, TakeInv
<1>4. ASSUME NEW t \in Threads, Finish(t) PROVE Inv'
  BY <1>4, FinishInv
<1>5. ASSUME NEW t \in Threads, Complete(t) PROVE Inv'
  <2>1. worker[t].state = "completing"
    BY <1>5 DEF Complete
  <2>2. worker[t].act \in Actors
    BY <2>1, WorkerCases, WorkerRecords DEF Inv
  <2> QED
    BY <1>5, <2>2, CompleteRests, CompletePasses
<1>6. CASE Shutdown
  BY <1>6, ShutdownInv
<1> QED
  BY <1>1, <1>2, <1>3, <1>4, <1>5, <1>6 DEF Next, PoolThread

-----------------------------------------------------------------------------
(* The theorems.                                                             *)

LEMMA InvAlways == SafeSpec => []Inv
BY InvInit, InvStep, PTL DEF SafeSpec

\* The pool's variables keep the types of their Java declarations; null, the
\* poll of an empty queue, is never executed.
THEOREM PoolTypeCorrect == SafeSpec => []TypeOK
<1>1. Inv => TypeOK
  BY DEF Inv
<1> QED
  BY <1>1, InvAlways, PTL

\* playingNow is a lock: an actor never has two tasks queued or running.
THEOREM MutualExclusion == SafeSpec => []OnePlace
<1>1. Inv => OnePlace
  BY DEF Inv
<1> QED
  BY <1>1, InvAlways, PTL

\* Until the shutdown no task waits behind an actor that nobody will complete.
THEOREM NoTaskStranded == SafeSpec => []NothingStranded
<1>1. Inv => NothingStranded
  BY DEF Inv
<1> QED
  BY <1>1, InvAlways, PTL

\* The pool runs the tasks of each actor one at a time and in the order of their
\* submission: it implements SerialActors, up to the liveness that TLC checks.
THEOREM RunsInOrder == SafeSpec => Actor!SafeSpec
<1>1. Init => Actor!Init
  BY DEF Init, Actor!Init
<1>2. Inv /\ [Next]_vars => [Actor!Next]_(Actor!vars)
  <2> SUFFICES ASSUME Inv, [Next]_vars PROVE [Actor!Next]_(Actor!vars)
    OBVIOUS
  <2>1. CASE UNCHANGED vars
    BY <2>1 DEF vars, history, Actor!vars
  <2>2. ASSUME NEW a \in Actors, Submit(a) PROVE Actor!Next
    <3>1. Actor!Submit(a)
      BY <2>2 DEF Submit, Actor!Submit
    <3> QED
      BY <3>1 DEF Actor!Next
  <2>3. ASSUME NEW t \in Threads, Take(t) PROVE Actor!Next
    <3>1. workQueue[1].act \in Actors /\ Head(workQueue) = workQueue[1] /\ 1 \in DOMAIN workQueue
      BY <2>3, TailTask DEF Take, Inv
    <3>2. PICK a \in Actors : a = workQueue[1].act
      BY <3>1
    <3>3. /\ ~isShutdown
          /\ workQueue[1].task = started[a] + 1
          /\ finished[a] = started[a]
          /\ started[a] + 1 + Len(pending[a]) = submitted[a]
      BY <3>1, <3>2 DEF Inv, InOrder, QueuedIsNext, Queued
    <3>4. started[a] \in Nat /\ submitted[a] \in Nat /\ Len(pending[a]) \in Nat
      BY DEF Inv, TypeOK
    <3>5. started[a] < submitted[a]
      BY <3>3, <3>4
    <3>6. started' = [started EXCEPT ![a] = started[a] + 1]
      BY <2>3, <3>1, <3>2, <3>3 DEF Take
    <3>7. Actor!Start(a)
      BY <2>3, <3>3, <3>5, <3>6 DEF Take, Actor!Start
    <3> QED
      BY <3>7 DEF Actor!Next
  <2>4. ASSUME NEW t \in Threads, Finish(t) PROVE Actor!Next
    <3>1. worker[t].state = "running" /\ worker[t] # Idle /\ worker[t].act \in Actors
      BY <2>4, WorkerCases, WorkerRecords DEF Finish, Inv
    <3>2. PICK a \in Actors : a = worker[t].act
      BY <3>1
    <3>3. worker[t].task = started[a] /\ finished[a] < started[a]
      BY <3>1, <3>2 DEF Inv, InOrder, HeldIsLatest, RunsLatest, Holds
    <3>4. Actor!Finish(a)
      BY <2>4, <3>2, <3>3 DEF Finish, Actor!Finish
    <3> QED
      BY <3>4 DEF Actor!Next
  <2>5. ASSUME NEW t \in Threads, Complete(t) PROVE UNCHANGED Actor!vars
    BY <2>5 DEF Complete, history, Actor!vars
  <2>6. CASE Shutdown
    BY <2>6 DEF Shutdown, history, Actor!Next, Actor!Shutdown
  <2> QED
    BY <2>1, <2>2, <2>3, <2>4, <2>5, <2>6 DEF Next, PoolThread
<1> QED
  BY <1>1, <1>2, InvAlways, PTL DEF SafeSpec, Actor!SafeSpec

=============================================================================
