--------------------------- MODULE ReactorLoopProofs ---------------------------
(***************************************************************************)
(* Proofs about ReactorLoop.                                               *)
(*                                                                         *)
(* Three parts: the types; the hand-over of the key from a                 *)
(* pool thread that has queued a frame to the selector thread, which may   *)
(* be giving up its interest in writing just then; and the ways of the     *)
(* read buffers between the pool, the reads that wait and running tasks.   *)
(***************************************************************************)
EXTENDS ReactorLoop, TLAPS

-----------------------------------------------------------------------------
(* Types                                                                    *)

BusyJob ==
    [at : {"frame", "sending", "ops", "disconnect"}, buf : Buffers, frames : 0..MaxFrames,
     targets : SUBSET Conns, target : Conns \cup {None}, ends : BOOLEAN]

\* A key is drained, and one is asked for, only while there is one.
KeysKnown ==
    /\ phase \in {"drained", "empty"} => drained \in Conns
    /\ \A c \in Conns : job[c].at = "ops" => job[c].target \in Conns

TypeInv == TypeOK /\ KeysKnown

\* A task that runs is a record of all its fields.
LEMMA JobCases ==
    ASSUME NEW r \in Job
    PROVE  (r = NoJob /\ r.at = "idle") \/ (r \in BusyJob /\ r.at # "idle")
BY DEF Job, BusyJob, NoJob

LEMMA BusyIsJob == BusyJob \subseteq Job
BY DEF Job, BusyJob

LEMMA BusyTyped ==
    ASSUME NEW r \in Job, r.at # "idle"
    PROVE  r \in BusyJob
BY JobCases

LEMMA NoJobTyped == NoJob \in Job /\ NoJob.at = "idle"
BY DEF Job, NoJob

\* A frame is queued or written; a buffer comes back or is leased.
LEMMA QueueTyped ==
    ASSUME writeQueue \in [Conns -> Nat], NEW c \in Conns,
           \/ writeQueue' = [writeQueue EXCEPT ![c] = @ + 1]
           \/ writeQueue' = [writeQueue EXCEPT ![c] = @ - 1] /\ writeQueue[c] > 0
    PROVE  writeQueue' \in [Conns -> Nat]
OBVIOUS

LEMMA PoolTyped ==
    ASSUME pool \in [Buffers -> Nat], NEW b \in Buffers,
           \/ pool' = [pool EXCEPT ![b] = @ + 1]
           \/ pool' = [pool EXCEPT ![b] = @ - 1] /\ pool[b] > 0
    PROVE  pool' \in [Buffers -> Nat]
OBVIOUS

LEMMA InitTypes == Init => TypeInv
<1> SUFFICES ASSUME Init PROVE TypeInv
  OBVIOUS
<1>1. /\ job \in [Conns -> Job] /\ \A c \in Conns : job[c].at = "idle"
      /\ tasks \in [Conns -> Seq(Buffers)]
  BY NoJobTyped DEF Init
<1>2. sent \in [Conns -> Nat] /\ partial \in [Conns -> 0..MaxPartial]
  BY ReactorAssumption DEF Init
<1>3. pool \in [Buffers -> Nat] /\ allocated \in 0..MaxBuffers /\ writeQueue \in [Conns -> Nat]
  BY ReactorAssumption DEF Init
<1>4. KeysKnown
  BY <1>1 DEF Init, KeysKnown
<1>5. /\ chan \in [Conns -> {"new", "connecting", "open", "closed"}]
      /\ interest \in [Conns -> {"R", "RW"}]
      /\ shouldTerminate \in [Conns -> BOOLEAN] /\ input \in [Conns -> BOOLEAN]
      /\ hungUp \in [Conns -> BOOLEAN] /\ full \in [Conns -> BOOLEAN]
  BY DEF Init
<1>6. selectorTasks \in Seq(Conns) /\ wakeup \in BOOLEAN
  <2>1. selectorTasks = <<>> /\ wakeup = FALSE
    BY DEF Init
  <2>2. <<>> \in Seq(Conns)
    OBVIOUS
  <2> QED
    BY <2>1, <2>2
<1>7. TypeOK
  BY <1>1, <1>2, <1>3, <1>5, <1>6 DEF Init, TypeOK
<1> QED
  BY <1>4, <1>7 DEF TypeInv

\* A step of the selector thread keeps the types.
LEMMA SelectorKeepsTypes ==
    ASSUME TypeInv, SelectorThread
    PROVE  TypeInv'
<1> USE ReactorAssumption DEF TypeInv, TypeOK, KeysKnown, bufferVars, chanVars, clientVars
<1>1. CASE Select
  BY <1>1 DEF Select, Open
<1>2. CASE RunSelectionThreadTask
  <2>1. Head(selectorTasks) \in Conns /\ selectorTasks' \in Seq(Conns)
    BY <1>2 DEF RunSelectionThreadTask
  <2>2. interest' \in [Conns -> {"R", "RW"}]
    BY <1>2, <2>1 DEF RunSelectionThreadTask
  <2> QED
    BY <1>2, <2>1, <2>2 DEF RunSelectionThreadTask
<1>3. CASE TasksDone
  BY <1>3 DEF TasksDone
<1>4. CASE LookAgain
  BY <1>4 DEF LookAgain
<1>5. CASE Leave
  BY <1>5 DEF Leave
<1>6. CASE KeysDone
  BY <1>6 DEF KeysDone
<1>7. ASSUME NEW c \in Conns, HandleAccept(c) PROVE TypeInv'
  BY <1>7 DEF HandleAccept
<1>8. ASSUME NEW c \in Conns, BeginRead(c) PROVE TypeInv'
  <2>1. PICK buf \in Buffers : LeaseBuffer(buf) /\ leased' = [conn |-> c, buf |-> buf]
    BY <1>8 DEF BeginRead
  <2>2. pool' \in [Buffers -> Nat] /\ allocated' \in 0..MaxBuffers
    <3>1. CASE pool[buf] > 0 /\ pool' = [pool EXCEPT ![buf] = @ - 1] /\ UNCHANGED allocated
      BY <3>1, PoolTyped
    <3>2. CASE buf = allocated + 1 /\ allocated' = buf /\ UNCHANGED pool
      BY <3>2 DEF Buffers
    <3> QED
      BY <2>1, <3>1, <3>2 DEF LeaseBuffer
  <2>3. leased' \in [conn : Conns, buf : Buffers]
    BY <2>1
  <2> QED
    BY <1>8, <2>2, <2>3 DEF BeginRead
<1>9. CASE ContinueRead
  <2>1. leased \in [conn : Conns, buf : Buffers]
    BY <1>9 DEF ContinueRead
  <2>2. tasks' \in [Conns -> Seq(Buffers)] /\ input' \in [Conns -> BOOLEAN]
    BY <1>9, <2>1 DEF ContinueRead
  <2> QED
    BY <1>9, <2>2 DEF ContinueRead
<1>12. CASE ContinueReadCloses
  <2>1. leased \in [conn : Conns, buf : Buffers]
    BY <1>12 DEF ContinueReadCloses
  <2>2. pool' \in [Buffers -> Nat]
    BY <1>12, <2>1, PoolTyped DEF ContinueReadCloses
  <2>3. chan' \in [Conns -> {"new", "connecting", "open", "closed"}]
    BY <1>12, <2>1 DEF ContinueReadCloses
  <2> QED
    BY <1>12, <2>2, <2>3 DEF ContinueReadCloses
<1>10. ASSUME NEW c \in Conns, ContinueWrite(c) PROVE TypeInv'
  <2>1. writeQueue' \in [Conns -> Nat]
    BY <1>10, QueueTyped DEF ContinueWrite
  <2>2. partial' \in [Conns -> 0..MaxPartial]
    <3>1. \/ partial' = [partial EXCEPT ![c] = 0]
          \/ partial' = [partial EXCEPT ![c] = @ + 1] /\ partial[c] < MaxPartial
          \/ UNCHANGED partial
      BY <1>10 DEF ContinueWrite
    <3>2. partial \in [Conns -> 0..MaxPartial] /\ MaxPartial \in Nat
      OBVIOUS
    <3> QED
      BY ONLY <3>1, <3>2
  <2>3. /\ chan' \in [Conns -> {"new", "connecting", "open", "closed"}]
        /\ full' \in [Conns -> BOOLEAN]
        /\ writable' \subseteq Conns
    BY <1>10 DEF ContinueWrite
  <2> QED
    BY <1>10, <2>1, <2>2, <2>3 DEF ContinueWrite
<1>11. ASSUME NEW c \in Conns, QueueDrained(c) PROVE TypeInv'
  BY <1>11 DEF QueueDrained
<1> QED
  BY <1>1, <1>2, <1>3, <1>4, <1>5, <1>6, <1>7, <1>8, <1>9, <1>10, <1>11, <1>12
     DEF SelectorThread

\* A step of a pool thread keeps the types.
LEMMA PoolThreadKeepsTypes ==
    ASSUME TypeInv, NEW c \in Conns, PoolThread(c)
    PROVE  TypeInv'
<1> USE ReactorAssumption
    DEF TypeInv, TypeOK, KeysKnown, SelectorOnly, selectorVars, chanVars, clientVars, bufferVars
<1>0. job[c].at # "idle" => job[c] \in BusyJob
  BY BusyTyped
<1>1. CASE StartTask(c)
  <2>1. PICK n \in 0..MaxFrames :
           job' = [job EXCEPT ![c] = Busy("frame", Head(tasks[c]), n, {}, None, FALSE)]
    BY <1>1 DEF StartTask
  <2>2. Head(tasks[c]) \in Buffers /\ tasks' \in [Conns -> Seq(Buffers)]
    BY <1>1 DEF StartTask
  <2>3. Busy("frame", Head(tasks[c]), n, {}, None, FALSE) \in Job
    BY <2>2 DEF Job, Busy
  <2>4. job' \in [Conns -> Job] /\ job'[c].at = "frame"
    BY <2>1, <2>3 DEF Busy
  <2>5. KeysKnown'
    BY <1>1, <2>1, <2>4 DEF StartTask
  <2> QED
    BY <1>1, <2>2, <2>4, <2>5 DEF StartTask
<1>2. CASE ProcessFrame(c)
  <2>1. PICK targets \in SUBSET Conns, ends \in BOOLEAN :
           job' = [job EXCEPT ![c].at = "sending", ![c].frames = @ - 1,
                              ![c].targets = targets, ![c].ends = ends]
    BY <1>2 DEF ProcessFrame
  <2>2. job[c] \in BusyJob /\ job[c].frames > 0
    BY <1>0, <1>2 DEF ProcessFrame
  <2>8. job[c].frames \in 0..MaxFrames
    BY <2>2 DEF BusyJob
  <2>7. job[c].frames - 1 \in 0..MaxFrames
    <3>1. \A n \in 0..MaxFrames : n > 0 => n - 1 \in 0..MaxFrames
      BY ReactorAssumption
    <3> QED
      BY <2>2, <2>8, <3>1, Zenon
  <2> DEFINE r == [job[c] EXCEPT !.at = "sending", !.frames = @ - 1, !.targets = targets,
                                 !.ends = ends]
  <2>5. r \in BusyJob /\ r.at = "sending"
    BY <2>2, <2>7 DEF BusyJob
  <2>6. job' = [job EXCEPT ![c] = r]
    BY <2>1, <2>2 DEF BusyJob
  <2> HIDE DEF r
  <2>3. job' \in [Conns -> Job] /\ job'[c].at = "sending"
    BY <2>5, <2>6, BusyIsJob
  <2>4. KeysKnown'
    <3>1. UNCHANGED <<phase, drained>>
      BY <1>2 DEF ProcessFrame
    <3>2. \A d \in Conns : d # c => job'[d] = job[d]
      BY <2>6
    <3> QED
      BY <2>3, <3>1, <3>2
  <2> QED
    BY <1>2, <2>3, <2>4 DEF ProcessFrame
<1>3. CASE Send(c)
  <2>0. job[c] \in BusyJob /\ job[c].at = "sending"
    BY <1>0, <1>3 DEF Send
  <2>1. PICK d \in job[c].targets :
          IF d \in activeClients /\ chan[d] = "open"
          THEN /\ writeQueue' = [writeQueue EXCEPT ![d] = @ + 1]
               /\ job' = [job EXCEPT ![c].at = "ops", ![c].target = d,
                                     ![c].targets = @ \ {d}]
          ELSE /\ job' = [job EXCEPT ![c].targets = @ \ {d}]
               /\ UNCHANGED writeQueue
    BY <1>3 DEF Send
  <2>2. d \in Conns
    BY <2>0 DEF BusyJob
  <2>3. writeQueue' \in [Conns -> Nat]
    BY <2>1, <2>2, QueueTyped
  <2> DEFINE queued == [job[c] EXCEPT !.at = "ops", !.target = d, !.targets = @ \ {d}]
             passed == [job[c] EXCEPT !.targets = @ \ {d}]
  <2>6. /\ queued \in BusyJob /\ queued.target = d
        /\ passed \in BusyJob /\ passed.at = "sending"
    BY <2>0, <2>2 DEF BusyJob
  <2>7. job' = [job EXCEPT ![c] = queued] \/ job' = [job EXCEPT ![c] = passed]
    BY <2>0, <2>1 DEF BusyJob
  <2> HIDE DEF queued, passed
  <2>4. job' \in [Conns -> Job] /\ (job'[c].at = "ops" => job'[c].target = d)
    <3>1. PICK r \in BusyJob : job' = [job EXCEPT ![c] = r] /\ (r.at = "ops" => r.target = d)
      BY <2>6, <2>7, Zenon
    <3>2. r \in Job
      BY <3>1, BusyIsJob, Zenon
    <3> QED
      BY <3>1, <3>2
  <2>5. KeysKnown'
    <3>1. UNCHANGED <<phase, drained>>
      BY <1>3 DEF Send
    <3>2. \A e \in Conns : e # c => job'[e] = job[e]
      BY <2>7
    <3> QED
      BY <2>2, <2>4, <3>1, <3>2
  <2> QED
    BY <1>3, <2>3, <2>4, <2>5 DEF Send
<1>4. CASE UpdateInterestedOps(c)
  <2>1. job[c] \in BusyJob /\ job[c].target \in Conns
    BY <1>0, <1>4 DEF UpdateInterestedOps
  <2>2. selectorTasks' \in Seq(Conns)
    BY <1>4, <2>1 DEF UpdateInterestedOps
  <2>3. job' \in [Conns -> Job] /\ job'[c].at = "sending"
    BY <1>4, <2>1 DEF UpdateInterestedOps, Job, BusyJob
  <2>4. KeysKnown'
    BY <1>4, <2>3 DEF UpdateInterestedOps
  <2> QED
    BY <1>4, <2>2, <2>3, <2>4 DEF UpdateInterestedOps
<1>5. CASE FrameDone(c)
  <2>1. job[c] \in BusyJob
    BY <1>0, <1>5 DEF FrameDone
  <2>2. PICK at \in {"frame", "disconnect"} : job' = [job EXCEPT ![c].at = at]
    BY <1>5 DEF FrameDone
  <2>4. [job[c] EXCEPT !.at = at] \in BusyJob
    BY <2>1 DEF BusyJob
  <2>5. job' \in [Conns -> Job] /\ job'[c].at = at
    BY <2>1, <2>2, <2>4, BusyIsJob DEF BusyJob
  <2>3. KeysKnown'
    BY <1>5, <2>2, <2>5 DEF FrameDone
  <2> QED
    BY <1>5, <2>5, <2>3 DEF FrameDone
<1>6. CASE Disconnect(c)
  <2>1. job[c] \in BusyJob
    BY <1>0, <1>6 DEF Disconnect
  <2>2. job' \in [Conns -> Job] /\ job'[c].at = "frame"
    BY <1>6, <2>1 DEF Disconnect, Job, BusyJob
  <2>3. KeysKnown'
    BY <1>6, <2>2 DEF Disconnect
  <2> QED
    BY <1>6, <2>2, <2>3 DEF Disconnect
<1>7. CASE EndTask(c)
  <2>1. job[c] \in BusyJob
    BY <1>0, <1>7 DEF EndTask
  <2>2. pool' \in [Buffers -> Nat]
    BY <1>7, <2>1, PoolTyped DEF EndTask, BusyJob
  <2>3. job' \in [Conns -> Job] /\ job'[c].at = "idle"
    BY <1>7, NoJobTyped DEF EndTask
  <2>4. KeysKnown'
    BY <1>7, <2>3 DEF EndTask
  <2> QED
    BY <1>7, <2>2, <2>3, <2>4 DEF EndTask
<1> QED
  BY <1>1, <1>2, <1>3, <1>4, <1>5, <1>6, <1>7 DEF PoolThread

\* A client's step keeps the types.
LEMMA ClientKeepsTypes ==
    ASSUME TypeInv, NEW c \in Conns, Client(c)
    PROVE  TypeInv'
<1> USE DEF TypeInv, TypeOK, KeysKnown, ServerOnly, selectorVars, bufferVars, clientVars
<1>1. CASE ClientConnects(c)
  BY <1>1 DEF ClientConnects
<1>2. CASE ClientSends(c)
  <2>1. sent' \in [Conns -> Nat]
    <3>1. sent \in [Conns -> Nat] /\ sent' = [sent EXCEPT ![c] = @ + 1]
      BY <1>2 DEF ClientSends
    <3>2. sent[c] + 1 \in Nat
      BY <3>1
    <3> QED
      BY ONLY <3>1, <3>2
  <2> QED
    BY <1>2, <2>1 DEF ClientSends
<1>3. CASE ClientHangsUp(c)
  BY <1>3 DEF ClientHangsUp
<1>4. CASE ClientReads(c)
  BY <1>4 DEF ClientReads
<1> QED
  BY <1>1, <1>2, <1>3, <1>4 DEF Client

LEMMA StepKeepsTypes == TypeInv /\ [Next]_vars => TypeInv'
<1> SUFFICES ASSUME TypeInv, [Next]_vars PROVE TypeInv'
  OBVIOUS
<1>1. CASE UNCHANGED vars
  BY <1>1 DEF vars, TypeInv, TypeOK, KeysKnown, selectorVars, chanVars, bufferVars, clientVars
<1> QED
  BY <1>1, SelectorKeepsTypes, PoolThreadKeepsTypes, ClientKeepsTypes DEF Next

LEMMA AlwaysTypeInv == Spec => []TypeInv
<1>1. Init => TypeInv
  BY InitTypes
<1>2. TypeInv /\ [Next]_vars => TypeInv'
  BY StepKeepsTypes
<1> QED
  BY <1>1, <1>2, PTL DEF Spec

\* The selector thread, the pool threads and the clients keep every variable in its
\* type, for any connections and bounds.
THEOREM TypesCorrect == Spec => []TypeOK
<1>1. TypeInv => TypeOK
  BY DEF TypeInv
<1> QED
  BY <1>1, AlwaysTypeInv, PTL

-----------------------------------------------------------------------------
(* The interest in writing                                                  *)

\* The selector thread is going to be asked for the key of c, or has been.
Pending(c) ==
    \/ \E i \in DOMAIN selectorTasks : selectorTasks[i] = c
    \/ \E d \in Conns : job[d].at = "ops" /\ job[d].target = c

\* Nothing is queued for a connection before it is accepted.
NewIsEmpty == \A c \in Conns : chan[c] \in {"new", "connecting"} => writeQueue[c] = 0

\* A key that is interested in writing only counts when the selector thread is not
\* about to give that up: between its second look at the queue and the change of the
\* interest a frame may come, whose thread then still has to ask for the key.
QueueKnown ==
    \A c \in Conns : chan[c] = "open" /\ writeQueue[c] > 0 =>
        \/ Pending(c)
        \/ interest[c] = "RW" /\ ~(phase = "empty" /\ drained = c)

WriteInv == TypeInv /\ NewIsEmpty /\ QueueKnown

\* A connection stays pending when the selector's tasks are the same and no thread
\* that was about to ask has gone on.
LEMMA PendingKept ==
    ASSUME NEW c \in Conns, Pending(c), UNCHANGED selectorTasks,
           \A d \in Conns : job[d].at = "ops" => UNCHANGED job[d]
    PROVE  Pending(c)'
BY DEF Pending

\* Taking the first element leaves every other one.
LEMMA TailKeeps ==
    ASSUME NEW S, NEW s \in Seq(S), s # <<>>, NEW i \in DOMAIN s, s[i] # Head(s)
    PROVE  i - 1 \in DOMAIN Tail(s) /\ Tail(s)[i - 1] = s[i]
<1>1. i \in 1..Len(s) /\ Head(s) = s[1]
  OBVIOUS
<1>2. i # 1
  BY <1>1
<1>3. i - 1 \in 1..(Len(s) - 1)
  BY <1>1, <1>2
<1> QED
  BY <1>1, <1>2, <1>3

\* Every step but a pool thread's leaves the jobs alone.
LEMMA SelectorKeepsWriteInv ==
    ASSUME WriteInv, SelectorThread
    PROVE  WriteInv'
<1>1. TypeInv /\ TypeInv'
  BY StepKeepsTypes DEF WriteInv, Next
<1> USE <1>1 DEF WriteInv, TypeInv, TypeOK, KeysKnown, NewIsEmpty, QueueKnown, chanVars,
                 clientVars, bufferVars
<1>2. CASE Select
  BY <1>2, PendingKept DEF Select
<1>3. CASE RunSelectionThreadTask
  <2> DEFINE h == Head(selectorTasks)
  <2>1. h \in Conns /\ selectorTasks \in Seq(Conns) /\ selectorTasks # <<>>
    BY <1>3 DEF RunSelectionThreadTask
  <2>2. ASSUME NEW c \in Conns, Pending(c), c # h
        PROVE  Pending(c)'
    <3>1. CASE \E d \in Conns : job[d].at = "ops" /\ job[d].target = c
      BY <1>3, <3>1 DEF RunSelectionThreadTask, Pending
    <3>2. CASE \E i \in DOMAIN selectorTasks : selectorTasks[i] = c
      <4>1. PICK i \in DOMAIN selectorTasks : selectorTasks[i] = c
        BY <3>2
      <4>3. i - 1 \in DOMAIN Tail(selectorTasks) /\ Tail(selectorTasks)[i - 1] = c
        <5>1. selectorTasks[i] # Head(selectorTasks)
          BY <2>2, <4>1, Zenon
        <5>2. selectorTasks \in Seq(Conns) /\ selectorTasks # <<>> /\ i \in DOMAIN selectorTasks
          BY <2>1, <4>1, Zenon
        <5>3. /\ i - 1 \in DOMAIN Tail(selectorTasks)
              /\ Tail(selectorTasks)[i - 1] = selectorTasks[i]
          BY ONLY <5>1, <5>2, TailKeeps
        <5> QED
          BY <4>1, <5>3, Zenon
      <4> QED
        BY <1>3, <4>3 DEF RunSelectionThreadTask, Pending
    <3> QED
      BY <2>2, <3>1, <3>2 DEF Pending
  <2>3. NewIsEmpty'
    BY <1>3 DEF RunSelectionThreadTask
  <2>4. ASSUME NEW c \in Conns, chan'[c] = "open", writeQueue'[c] > 0
        PROVE  Pending(c)' \/ (interest'[c] = "RW" /\ ~(phase' = "empty" /\ drained' = c))
    <3>1. phase' \in {"tasks", "dead"} /\ UNCHANGED <<chan, writeQueue>>
      BY <1>3 DEF RunSelectionThreadTask
    <3>2. CASE c = h
      BY <1>3, <2>4, <3>1, <3>2 DEF RunSelectionThreadTask
    <3>3. CASE c # h
      <4>1. interest'[c] = interest[c]
        BY <1>3, <3>3 DEF RunSelectionThreadTask
      <4> QED
        BY <2>2, <2>4, <3>1, <3>3, <4>1
    <3> QED
      BY <3>2, <3>3
  <2> QED
    BY <2>3, <2>4
<1>4. CASE TasksDone
  BY <1>4, PendingKept DEF TasksDone
<1>5. CASE LookAgain
  BY <1>5, PendingKept DEF LookAgain
<1>6. CASE Leave
  <2>1. \A c \in Conns : Pending(c) => Pending(c)'
    BY <1>6, PendingKept DEF Leave
  <2>2. NewIsEmpty'
    BY <1>6 DEF Leave
  <2>3. ASSUME NEW c \in Conns, chan'[c] = "open", writeQueue'[c] > 0
        PROVE  Pending(c)' \/ (interest'[c] = "RW" /\ ~(phase' = "empty" /\ drained' = c))
    <3>1. phase' = "keys" /\ chan[c] = "open" /\ writeQueue[c] > 0
      BY <1>6, <2>3 DEF Leave
    <3>2. c # drained => interest'[c] = interest[c]
      BY <1>6 DEF Leave
    <3> QED
      BY <1>6, <2>1, <3>1, <3>2 DEF Leave
  <2> QED
    BY <2>2, <2>3
<1>7. CASE KeysDone
  BY <1>7, PendingKept DEF KeysDone
<1>8. ASSUME NEW c \in Conns, HandleAccept(c) PROVE WriteInv'
  BY <1>8, PendingKept DEF HandleAccept
<1>9. ASSUME NEW c \in Conns, BeginRead(c) PROVE WriteInv'
  BY <1>9, PendingKept DEF BeginRead
<1>10. CASE ContinueRead \/ ContinueReadCloses
  <2>1. /\ UNCHANGED <<drained, interest, writeQueue, selectorTasks, job>> /\ phase' = "keys"
        /\ \A d \in Conns : chan'[d] = chan[d] \/ chan'[d] = "closed"
    BY <1>10 DEF ContinueRead, ContinueReadCloses
  <2>2. \A d \in Conns : Pending(d) => Pending(d)'
    BY <2>1, PendingKept
  <2> QED
    BY <2>1, <2>2
<1>11. ASSUME NEW c \in Conns, ContinueWrite(c) PROVE WriteInv'
  <2>1. /\ \A d \in Conns : chan'[d] # chan[d] => chan'[d] = "closed"
        /\ \A d \in Conns : writeQueue'[d] # writeQueue[d] =>
                               writeQueue[d] > 0 /\ chan'[d] = chan[d]
        /\ \A d \in Conns : writeQueue[d] = 0 => writeQueue'[d] = 0
    BY <1>11 DEF ContinueWrite
  <2>2. \A d \in Conns : Pending(d) => Pending(d)'
    BY <1>11, PendingKept DEF ContinueWrite
  <2>3. \A d \in Conns : writeQueue'[d] > 0 => writeQueue[d] > 0
    BY <2>1
  <2>4. UNCHANGED <<phase, drained, interest>>
    BY <1>11 DEF ContinueWrite
  <2>5. NewIsEmpty'
    BY <2>1
  <2>6. QueueKnown'
    BY <2>1, <2>2, <2>3, <2>4
  <2> QED
    BY <2>5, <2>6
<1>12. ASSUME NEW c \in Conns, QueueDrained(c) PROVE WriteInv'
  BY <1>12, PendingKept DEF QueueDrained
<1> QED
  BY <1>2, <1>3, <1>4, <1>5, <1>6, <1>7, <1>8, <1>9, <1>10, <1>11, <1>12 DEF SelectorThread

\* A pool thread that queues a frame has the key still to ask for, and one that asks
\* leaves the connection among the selector's tasks.
LEMMA PoolThreadKeepsWriteInv ==
    ASSUME WriteInv, NEW c \in Conns, PoolThread(c)
    PROVE  WriteInv'
<1>1. TypeInv /\ TypeInv'
  BY StepKeepsTypes DEF WriteInv, Next
<1>2. UNCHANGED <<phase, drained, chan, interest>>
  BY DEF PoolThread, StartTask, ProcessFrame, Send, UpdateInterestedOps, FrameDone, Disconnect,
         EndTask, SelectorOnly, selectorVars, chanVars
<1>3. job \in [Conns -> Job] /\ writeQueue \in [Conns -> Nat] /\ selectorTasks \in Seq(Conns)
  BY <1>1 DEF TypeInv, TypeOK
<1>4. \A d \in Conns : d # c => UNCHANGED job[d]
  BY <1>3 DEF PoolThread, StartTask, ProcessFrame, Send, UpdateInterestedOps, FrameDone, Disconnect,
              EndTask
<1>5. CASE UpdateInterestedOps(c)
  <2>1. UNCHANGED writeQueue
    BY <1>5 DEF UpdateInterestedOps
  <2>2. /\ job[c].target \in Conns
        /\ selectorTasks' = Append(selectorTasks, job[c].target)
    BY <1>1, <1>5 DEF UpdateInterestedOps, TypeInv, KeysKnown
  <2>3. /\ DOMAIN selectorTasks \subseteq DOMAIN selectorTasks'
        /\ \A i \in DOMAIN selectorTasks : selectorTasks'[i] = selectorTasks[i]
        /\ Len(selectorTasks) + 1 \in DOMAIN selectorTasks'
        /\ selectorTasks'[Len(selectorTasks) + 1] = job[c].target
    BY <1>3, <2>2
  <2>4. ASSUME NEW e \in Conns, Pending(e)
        PROVE  Pending(e)'
    <3>1. CASE \E i \in DOMAIN selectorTasks : selectorTasks[i] = e
      BY <2>3, <3>1 DEF Pending
    <3>2. CASE job[c].target = e
      BY <2>3, <3>2 DEF Pending
    <3>3. ASSUME NEW d \in Conns, d # c, job[d].at = "ops", job[d].target = e
          PROVE  Pending(e)'
      BY <1>4, <3>3 DEF Pending
    <3> QED
      BY <2>4, <3>1, <3>2, <3>3 DEF Pending
  <2> QED
    BY <1>1, <1>2, <2>1, <2>4 DEF WriteInv, NewIsEmpty, QueueKnown
<1>6. CASE Send(c)
  <2>1. PICK d \in job[c].targets :
          IF d \in activeClients /\ chan[d] = "open"
          THEN /\ writeQueue' = [writeQueue EXCEPT ![d] = @ + 1]
               /\ job' = [job EXCEPT ![c].at = "ops", ![c].target = d,
                                     ![c].targets = @ \ {d}]
          ELSE /\ job' = [job EXCEPT ![c].targets = @ \ {d}]
               /\ UNCHANGED writeQueue
    BY <1>6 DEF Send
  <2>2. job[c] \in BusyJob /\ job[c].at = "sending" /\ d \in Conns /\ UNCHANGED selectorTasks
    <3>1. job[c].at = "sending" /\ UNCHANGED selectorTasks
      BY <1>6 DEF Send
    <3>2. job[c] \in BusyJob
      BY <1>3, <3>1, BusyTyped
    <3>3. job[c].targets \subseteq Conns
      BY <3>2 DEF BusyJob
    <3> QED
      BY <3>1, <3>2, <3>3
  <2>3. \A e \in Conns : Pending(e) => Pending(e)'
    BY <1>4, <2>2, PendingKept
  <2>4. ASSUME NEW e \in Conns, writeQueue'[e] # writeQueue[e]
        PROVE  chan[e] = "open" /\ Pending(e)'
    <3>1. e = d /\ chan[d] = "open"
      BY <1>3, <2>1, <2>4
    <3>2. job' = [job EXCEPT ![c].at = "ops", ![c].target = d, ![c].targets = @ \ {d}]
      BY <2>1, <2>4
    <3>3. job'[c].at = "ops" /\ job'[c].target = d
      BY <1>3, <2>2, <3>2 DEF BusyJob
    <3> QED
      BY <3>1, <3>3 DEF Pending
  <2>5. NewIsEmpty'
    BY <1>2, <2>4 DEF WriteInv, NewIsEmpty
  <2>6. QueueKnown'
    BY <1>2, <2>3, <2>4 DEF WriteInv, QueueKnown
  <2> QED
    BY <1>1, <2>5, <2>6 DEF WriteInv
<1>7. CASE \/ StartTask(c) \/ ProcessFrame(c) \/ FrameDone(c) \/ Disconnect(c) \/ EndTask(c)
  <2>1. job[c].at # "ops" /\ UNCHANGED <<selectorTasks, writeQueue>>
    BY <1>7, NoJobTyped DEF StartTask, ProcessFrame, FrameDone, Disconnect, EndTask
  <2>2. \A e \in Conns : Pending(e) => Pending(e)'
    BY <1>4, <2>1, PendingKept
  <2> QED
    BY <1>1, <1>2, <2>1, <2>2 DEF WriteInv, NewIsEmpty, QueueKnown
<1> QED
  BY <1>5, <1>6, <1>7 DEF PoolThread

LEMMA ClientKeepsWriteInv ==
    ASSUME WriteInv, NEW c \in Conns, Client(c)
    PROVE  WriteInv'
<1>1. TypeInv /\ TypeInv'
  BY StepKeepsTypes DEF WriteInv, Next
<1>2. /\ UNCHANGED <<phase, drained, interest, writeQueue, selectorTasks, job>>
      /\ \A d \in Conns : chan'[d] = chan[d] \/ (chan[d] = "new" /\ chan'[d] = "connecting")
  BY <1>1 DEF Client, ClientConnects, ClientSends, ClientHangsUp, ClientReads, ServerOnly,
              selectorVars, TypeInv, TypeOK
<1>3. \A d \in Conns : Pending(d) => Pending(d)'
  BY <1>2, PendingKept
<1> QED
  BY <1>1, <1>2, <1>3 DEF WriteInv, NewIsEmpty, QueueKnown

LEMMA StepKeepsWriteInv == WriteInv /\ [Next]_vars => WriteInv'
<1> SUFFICES ASSUME WriteInv, [Next]_vars PROVE WriteInv'
  OBVIOUS
<1>1. CASE UNCHANGED vars
  <2>1. TypeInv'
    BY StepKeepsTypes DEF WriteInv
  <2>2. UNCHANGED <<phase, drained, chan, interest, writeQueue, selectorTasks, job>>
    BY <1>1 DEF vars, selectorVars, chanVars
  <2> QED
    BY <2>1, <2>2, PendingKept DEF WriteInv, NewIsEmpty, QueueKnown
<1> QED
  BY <1>1, SelectorKeepsWriteInv, PoolThreadKeepsWriteInv, ClientKeepsWriteInv DEF Next

\* A frame that is queued for an open channel is never forgotten: the selector looks for
\* writing, or has been or is going to be asked to.  The frame that comes while the
\* selector thread gives up its interest is not lost either.
THEOREM FramesKnown == Spec => []WriteInterest
<1>1. Init => WriteInv
  BY InitTypes DEF Init, WriteInv, NewIsEmpty, QueueKnown
<1>2. WriteInv /\ [Next]_vars => WriteInv'
  BY StepKeepsWriteInv
<1>3. WriteInv => WriteInterest
  BY DEF WriteInv, QueueKnown, Pending, WriteInterest
<1> QED
  BY <1>1, <1>2, <1>3, PTL DEF Spec

-----------------------------------------------------------------------------
(* The read buffers                                                         *)

\* What was never allocated is nowhere; what was is in the pool, once, or somewhere else.
PoolExact ==
    /\ \A b \in Buffers : pool[b] \in {0, 1} /\ (b > allocated => pool[b] = 0)
    /\ \A c \in Conns, b \in Buffers : HasBuffer(c, b) => b <= allocated /\ pool[b] = 0
    /\ \A b \in 1..allocated : pool[b] = 0 => \E c \in Conns : HasBuffer(c, b)

\* Two connections never have the same buffer.
OneHolder ==
    \A c, d \in Conns, b \in Buffers : HasBuffer(c, b) /\ HasBuffer(d, b) => c = d

\* Nor has one connection a buffer twice, in two reads that wait or in one and the task
\* that runs, or in one of these and the read that serve is at: who gives a buffer back
\* has given up all there is of it.
HeldOnce ==
    \A c \in Conns :
        /\ \A i, j \in DOMAIN tasks[c] : tasks[c][i] = tasks[c][j] => i = j
        /\ \A i \in DOMAIN tasks[c] : job[c] # NoJob => tasks[c][i] # job[c].buf
        /\ leased.conn = c => /\ \A i \in DOMAIN tasks[c] : tasks[c][i] # leased.buf
                              /\ job[c] # NoJob => job[c].buf # leased.buf

BufferInv == TypeInv /\ PoolExact /\ OneHolder /\ HeldOnce

\* The read that serve is at, if any.
LEMMA LeasedCases ==
    ASSUME TypeInv
    PROVE  /\ leased.conn \in Conns \cup {None}
           /\ leased.conn \in Conns => phase = "read" /\ leased \in [conn : Conns, buf : Buffers]
           /\ \A c \in Conns, b \in Buffers :
                 leased = [conn |-> c, buf |-> b] <=> leased.conn = c /\ leased.buf = b
<1>1. CASE phase = "read"
  BY <1>1 DEF TypeInv, TypeOK
<1>2. CASE phase # "read"
  <2>1. leased = NoRead
    BY <1>2 DEF TypeInv, TypeOK
  <2>2. leased.conn = None /\ None \notin Conns
    BY <2>1, ReactorAssumption DEF NoRead
  <2> QED
    BY <2>2
<1> QED
  BY <1>1, <1>2

\* When every connection has what it had, wherever, the pool is exact as before.
LEMMA HoldersKept ==
    ASSUME BufferInv, UNCHANGED <<pool, allocated>>,
           \A c \in Conns, b \in Buffers : HasBuffer(c, b)' <=> HasBuffer(c, b)
    PROVE  PoolExact' /\ OneHolder'
<1>1. 1..allocated \subseteq Buffers
  BY ReactorAssumption DEF Buffers, TypeInv, TypeOK, BufferInv
<1>2. PoolExact'
  BY <1>1 DEF BufferInv, PoolExact
<1>3. OneHolder'
  BY DEF BufferInv, OneHolder
<1> QED
  BY <1>2, <1>3

\* The buffers stay where they are when the pool, the reads and the buffers of the
\* running tasks are as before.
LEMMA BuffersKept ==
    ASSUME BufferInv, TypeInv', UNCHANGED <<leased, tasks, pool, allocated>>,
           \A c \in Conns : /\ job'[c] # NoJob <=> job[c] # NoJob
                            /\ job[c] # NoJob => job'[c].buf = job[c].buf
    PROVE  BufferInv'
<1>1. \A c \in Conns, b \in Buffers : HasBuffer(c, b)' <=> HasBuffer(c, b)
  BY DEF HasBuffer
<1>2. PoolExact' /\ OneHolder'
  BY <1>1, HoldersKept
<1>3. HeldOnce'
  BY DEF BufferInv, HeldOnce
<1> QED
  BY <1>2, <1>3 DEF BufferInv

\* A buffer that its only holder gives back is in the pool, once.
LEMMA GivenBack ==
    ASSUME BufferInv, NEW c \in Conns, NEW buf \in Buffers, HasBuffer(c, buf),
           pool' = [pool EXCEPT ![buf] = @ + 1], UNCHANGED allocated,
           \A d \in Conns, b \in Buffers : HasBuffer(d, b)' <=> HasBuffer(d, b) /\ b # buf
    PROVE  PoolExact' /\ OneHolder'
<1>1. pool \in [Buffers -> Nat] /\ allocated \in 0..MaxBuffers
  BY DEF BufferInv, TypeInv, TypeOK
<1>2. buf <= allocated /\ pool[buf] = 0
  BY DEF BufferInv, PoolExact
<1>3. pool'[buf] = 1 /\ \A b \in Buffers : b # buf => pool'[b] = pool[b]
  BY <1>1, <1>2
<1>4. 1..allocated \subseteq Buffers
  BY <1>1, ReactorAssumption DEF Buffers
<1>5. \A b \in Buffers : pool'[b] \in {0, 1} /\ (b > allocated => pool'[b] = 0)
  BY <1>1, <1>2, <1>3 DEF BufferInv, PoolExact, Buffers
<1>6. \A d \in Conns, b \in Buffers : HasBuffer(d, b)' => b <= allocated /\ pool'[b] = 0
  BY <1>3 DEF BufferInv, PoolExact
<1>7. ASSUME NEW b \in 1..allocated, pool'[b] = 0
      PROVE  \E d \in Conns : HasBuffer(d, b)'
  <2>1. b # buf /\ b \in Buffers
    BY <1>3, <1>4, <1>7
  <2>2. PICK d \in Conns : HasBuffer(d, b)
    BY <1>3, <1>7, <2>1 DEF BufferInv, PoolExact
  <2> QED
    BY <2>1, <2>2
<1>8. PoolExact'
  BY <1>5, <1>6, <1>7 DEF PoolExact
<1>9. OneHolder'
  BY DEF BufferInv, OneHolder
<1> QED
  BY <1>8, <1>9

\* A read begins with a buffer that nobody has.
LEMMA BeginKeepsBuffers ==
    ASSUME BufferInv, NEW c \in Conns, BeginRead(c)
    PROVE  BufferInv'
<1>1. TypeInv /\ TypeInv'
  BY StepKeepsTypes DEF BufferInv, Next, SelectorThread
<1>2. PICK buf \in Buffers : LeaseBuffer(buf) /\ leased' = [conn |-> c, buf |-> buf]
  BY DEF BeginRead
<1>3. /\ UNCHANGED <<job, tasks>>
      /\ pool \in [Buffers -> Nat] /\ allocated \in 0..MaxBuffers /\ allocated' \in 0..MaxBuffers
      /\ leased = NoRead /\ phase # "read"
  BY <1>1 DEF BeginRead, TypeInv, TypeOK
<1>4. leased.conn \notin Conns
  BY <1>1, <1>3, LeasedCases
<1>5. \A d \in Conns, b \in Buffers : HasBuffer(d, b)' <=> HasBuffer(d, b) \/ (d = c /\ b = buf)
  <2> SUFFICES ASSUME NEW d \in Conns, NEW b \in Buffers
               PROVE  HasBuffer(d, b)' <=> HasBuffer(d, b) \/ (d = c /\ b = buf)
    OBVIOUS
  <2>1. leased # [conn |-> d, buf |-> b]
    BY <1>4
  <2>2. leased' = [conn |-> d, buf |-> b] <=> d = c /\ b = buf
    BY <1>2
  <2> QED
    BY <1>3, <2>1, <2>2 DEF HasBuffer
<1>6. /\ \A d \in Conns : ~HasBuffer(d, buf)
      /\ buf <= allocated' /\ pool'[buf] = 0
      /\ \A b \in Buffers : b # buf => pool'[b] = pool[b]
      /\ \A b \in Buffers : b # buf => (b <= allocated' <=> b <= allocated)
      /\ allocated <= allocated'
  <2>1. CASE pool[buf] > 0 /\ pool' = [pool EXCEPT ![buf] = @ - 1] /\ UNCHANGED allocated
    <3>1. pool[buf] = 1 /\ buf <= allocated
      BY <1>3, <2>1 DEF BufferInv, PoolExact, Buffers
    <3>2. pool'[buf] = 0
      BY <1>3, <2>1, <3>1
    <3>3. \A d \in Conns : ~HasBuffer(d, buf)
      BY <2>1, <3>1 DEF BufferInv, PoolExact
    <3> QED
      BY <1>3, <2>1, <3>1, <3>2, <3>3
  <2>2. CASE /\ \A b \in Buffers : pool[b] = 0
             /\ buf = allocated + 1 /\ allocated' = buf /\ UNCHANGED pool
    <3>1. \A d \in Conns : ~HasBuffer(d, buf)
      BY <1>3, <2>2 DEF BufferInv, PoolExact
    <3> QED
      BY <1>3, <2>2, <3>1 DEF Buffers
  <2> QED
    BY <1>2, <2>1, <2>2 DEF LeaseBuffer
<1>7. PoolExact'
  <2>1. \A b \in Buffers : pool'[b] \in {0, 1} /\ (b > allocated' => pool'[b] = 0)
    BY <1>3, <1>6 DEF BufferInv, PoolExact, Buffers
  <2>2. \A d \in Conns, b \in Buffers : HasBuffer(d, b)' => b <= allocated' /\ pool'[b] = 0
    BY <1>3, <1>5, <1>6 DEF BufferInv, PoolExact, Buffers
  <2>3. ASSUME NEW b \in 1..allocated', pool'[b] = 0
        PROVE  \E d \in Conns : HasBuffer(d, b)'
    <3>1. b \in Buffers
      BY <1>3, ReactorAssumption DEF Buffers
    <3>2. CASE b = buf
      BY <1>5, <3>1, <3>2
    <3>3. CASE b # buf
      <4>1. b \in 1..allocated /\ pool[b] = 0
        BY <1>3, <1>6, <2>3, <3>1, <3>3 DEF Buffers
      <4>2. PICK d \in Conns : HasBuffer(d, b)
        BY <4>1 DEF BufferInv, PoolExact
      <4> QED
        BY <1>5, <3>1, <4>2
    <3> QED
      BY <3>2, <3>3
  <2> QED
    BY <2>1, <2>2, <2>3 DEF PoolExact
<1>8. OneHolder'
  BY <1>5, <1>6 DEF BufferInv, OneHolder
<1>9. HeldOnce'
  <2>1. /\ \A i \in DOMAIN tasks[c] : tasks[c][i] # buf
        /\ job[c] # NoJob => job[c].buf # buf
    BY <1>6 DEF HasBuffer
  <2>2. leased'.conn = c /\ leased'.buf = buf
    BY <1>2
  <2> QED
    BY <1>3, <2>1, <2>2 DEF BufferInv, HeldOnce
<1> QED
  BY <1>1, <1>7, <1>8, <1>9 DEF BufferInv

\* A read that found bytes passes its buffer on to the end of its connection's tasks.
LEMMA ReadKeepsBuffers ==
    ASSUME BufferInv, ContinueRead
    PROVE  BufferInv'
<1>1. TypeInv /\ TypeInv'
  BY StepKeepsTypes DEF BufferInv, Next, SelectorThread
<1> DEFINE c == leased.conn
           buf == leased.buf
<1>2. /\ c \in Conns /\ buf \in Buffers
      /\ tasks' = [tasks EXCEPT ![c] = Append(@, buf)]
      /\ tasks \in [Conns -> Seq(Buffers)] /\ UNCHANGED <<job, pool, allocated>>
      /\ leased' = NoRead
  BY <1>1 DEF ContinueRead, TypeInv, TypeOK, bufferVars
<1>3. /\ \A d \in Conns, b \in Buffers : leased = [conn |-> d, buf |-> b] <=> d = c /\ b = buf
      /\ \A d \in Conns, b \in Buffers : leased' # [conn |-> d, buf |-> b]
      /\ leased'.conn \notin Conns
  <2>1. \A d \in Conns, b \in Buffers : leased = [conn |-> d, buf |-> b] <=> d = c /\ b = buf
    BY <1>1, LeasedCases
  <2>2. leased'.conn = None /\ None \notin Conns
    BY <1>2, ReactorAssumption DEF NoRead
  <2> QED
    BY <2>1, <2>2
<1> HIDE DEF c, buf
<1>4. /\ DOMAIN tasks'[c] = 1..(Len(tasks[c]) + 1) /\ DOMAIN tasks[c] = 1..Len(tasks[c])
      /\ tasks'[c][Len(tasks[c]) + 1] = buf
      /\ \A i \in DOMAIN tasks[c] : tasks'[c][i] = tasks[c][i]
      /\ Len(tasks[c]) \in Nat
      /\ \A d \in Conns : d # c => tasks'[d] = tasks[d]
  BY <1>2
<1>5. \A d \in Conns, b \in Buffers : HasBuffer(d, b)' <=> HasBuffer(d, b)
  <2> SUFFICES ASSUME NEW d \in Conns, NEW b \in Buffers
               PROVE  HasBuffer(d, b)' <=> HasBuffer(d, b)
    OBVIOUS
  <2>1. CASE d # c
    BY <1>2, <1>3, <1>4, <2>1 DEF HasBuffer
  <2>2. CASE d = c
    <3>1. (\E i \in DOMAIN tasks'[c] : tasks'[c][i] = b)
             <=> (\E i \in DOMAIN tasks[c] : tasks[c][i] = b) \/ b = buf
      BY <1>4
    <3> QED
      BY <1>2, <1>3, <2>2, <3>1 DEF HasBuffer
  <2> QED
    BY <2>1, <2>2
<1>6. PoolExact' /\ OneHolder'
  BY <1>2, <1>5, HoldersKept
<1>7. HeldOnce'
  <2>1. /\ \A i \in DOMAIN tasks[c] : tasks[c][i] # buf
        /\ job[c] # NoJob => job[c].buf # buf
    BY <1>2 DEF BufferInv, HeldOnce, c, buf
  <2>2. \A i, j \in DOMAIN tasks'[c] : tasks'[c][i] = tasks'[c][j] => i = j
    <3>1. \A i, j \in DOMAIN tasks[c] : tasks[c][i] = tasks[c][j] => i = j
      BY <1>2 DEF BufferInv, HeldOnce
    <3> QED
      BY <1>4, <2>1, <3>1
  <2>3. \A i \in DOMAIN tasks'[c] : job[c] # NoJob => tasks'[c][i] # job[c].buf
    BY <1>2, <1>4, <2>1 DEF BufferInv, HeldOnce
  <2>4. ASSUME NEW d \in Conns, d # c
        PROVE  /\ \A i, j \in DOMAIN tasks'[d] : tasks'[d][i] = tasks'[d][j] => i = j
               /\ \A i \in DOMAIN tasks'[d] : job[d] # NoJob => tasks'[d][i] # job[d].buf
    BY <1>4, <2>4 DEF BufferInv, HeldOnce
  <2> QED
    BY <1>2, <1>3, <2>2, <2>3, <2>4 DEF HeldOnce
<1> QED
  BY <1>1, <1>6, <1>7 DEF BufferInv

\* A read that found the end of the stream gives its buffer back, and that is the only one
\* of it.
LEMMA CloseKeepsBuffers ==
    ASSUME BufferInv, ContinueReadCloses
    PROVE  BufferInv'
<1>1. TypeInv /\ TypeInv'
  BY StepKeepsTypes DEF BufferInv, Next, SelectorThread
<1> DEFINE c == leased.conn
           buf == leased.buf
<1>2. /\ c \in Conns /\ buf \in Buffers
      /\ UNCHANGED <<job, tasks, allocated>>
      /\ pool' = [pool EXCEPT ![buf] = @ + 1]
      /\ leased' = NoRead
  BY <1>1 DEF ContinueReadCloses, TypeInv, TypeOK
<1>3. \A d \in Conns, b \in Buffers : leased = [conn |-> d, buf |-> b] <=> d = c /\ b = buf
  BY <1>1, LeasedCases
<1>4. /\ leased'.conn \notin Conns
      /\ \A d \in Conns, b \in Buffers : leased' # [conn |-> d, buf |-> b]
  <2>1. leased'.conn = None /\ None \notin Conns
    BY <1>2, ReactorAssumption DEF NoRead
  <2> QED
    BY <2>1
<1>5. /\ \A i \in DOMAIN tasks[c] : tasks[c][i] # buf
      /\ job[c] # NoJob => job[c].buf # buf
  BY <1>2 DEF BufferInv, HeldOnce
<1> HIDE DEF c, buf
<1>6. HasBuffer(c, buf)
  BY <1>2, <1>3 DEF HasBuffer
<1>7. \A d \in Conns, b \in Buffers : HasBuffer(d, b)' <=> HasBuffer(d, b) /\ b # buf
  <2> SUFFICES ASSUME NEW d \in Conns, NEW b \in Buffers
               PROVE  HasBuffer(d, b)' <=> HasBuffer(d, b) /\ b # buf
    OBVIOUS
  <2>1. CASE d # c
    <3>1. HasBuffer(d, b) => b # buf
      BY <1>2, <1>6, <2>1 DEF BufferInv, OneHolder
    <3> QED
      BY <1>2, <1>3, <1>4, <2>1, <3>1 DEF HasBuffer
  <2>2. CASE d = c
    BY <1>2, <1>3, <1>4, <1>5, <2>2 DEF HasBuffer
  <2> QED
    BY <2>1, <2>2
<1>8. PoolExact' /\ OneHolder'
  BY <1>2, <1>6, <1>7, GivenBack
<1>9. HeldOnce'
  BY <1>2, <1>4 DEF BufferInv, HeldOnce
<1> QED
  BY <1>1, <1>8, <1>9 DEF BufferInv

\* A task takes over the buffer of its read.
LEMMA StartKeepsBuffers ==
    ASSUME BufferInv, NEW c \in Conns, StartTask(c)
    PROVE  BufferInv'
<1>1. TypeInv /\ TypeInv'
  BY StepKeepsTypes DEF BufferInv, Next, PoolThread
<1>2. PICK n \in 0..MaxFrames :
         job' = [job EXCEPT ![c] = Busy("frame", Head(tasks[c]), n, {}, None, FALSE)]
  BY DEF StartTask
<1>3. /\ UNCHANGED <<leased, pool, allocated>>
      /\ tasks \in [Conns -> Seq(Buffers)] /\ job \in [Conns -> Job]
      /\ job[c] = NoJob /\ tasks[c] # <<>>
      /\ tasks' = [tasks EXCEPT ![c] = Tail(@)]
  BY <1>1 DEF StartTask, SelectorOnly, TypeInv, TypeOK, selectorVars
<1>4. /\ job'[c] # NoJob /\ job'[c].buf = Head(tasks[c])
      /\ \A d \in Conns : d # c => job'[d] = job[d] /\ tasks'[d] = tasks[d]
  BY <1>2, <1>3 DEF Busy, NoJob
<1>5. /\ Head(tasks[c]) = tasks[c][1] /\ 1 \in DOMAIN tasks[c]
      /\ tasks'[c] = Tail(tasks[c])
      /\ \A i \in DOMAIN tasks'[c] : /\ i + 1 \in DOMAIN tasks[c] /\ i \in Nat /\ i # 0
                                     /\ tasks'[c][i] = tasks[c][i + 1]
  BY <1>3
<1>6. \A i \in DOMAIN tasks'[c] : tasks'[c][i] # Head(tasks[c])
  <2> SUFFICES ASSUME NEW i \in DOMAIN tasks'[c] PROVE tasks'[c][i] # Head(tasks[c])
    OBVIOUS
  <2>1. i + 1 \in DOMAIN tasks[c] /\ i + 1 # 1 /\ tasks'[c][i] = tasks[c][i + 1]
    BY <1>5
  <2> QED
    BY <1>5, <2>1 DEF BufferInv, HeldOnce
<1>7. \A d \in Conns, b \in Buffers : HasBuffer(d, b)' <=> HasBuffer(d, b)
  <2> SUFFICES ASSUME NEW d \in Conns, NEW b \in Buffers
               PROVE  HasBuffer(d, b)' <=> HasBuffer(d, b)
    OBVIOUS
  <2>1. CASE d # c
    BY <1>3, <1>4, <2>1 DEF HasBuffer
  <2>2. CASE d = c
    <3>1. (\E i \in DOMAIN tasks[c] : tasks[c][i] = b)
             <=> b = Head(tasks[c]) \/ \E i \in DOMAIN tasks'[c] : tasks'[c][i] = b
      <4>1. ASSUME NEW i \in DOMAIN tasks[c], tasks[c][i] # Head(tasks[c])
            PROVE  i - 1 \in DOMAIN tasks'[c] /\ tasks'[c][i - 1] = tasks[c][i]
        <5>1. tasks[c] \in Seq(Buffers)
          BY <1>3
        <5> QED
          BY <1>3, <1>5, <4>1, <5>1, TailKeeps
      <4> QED
        BY <1>5, <4>1
    <3> QED
      BY <1>3, <1>4, <2>2, <3>1 DEF HasBuffer
  <2> QED
    BY <2>1, <2>2
<1>8. PoolExact' /\ OneHolder'
  BY <1>3, <1>7, HoldersKept
<1>9. HeldOnce'
  <2>1. \A i, j \in DOMAIN tasks'[c] : tasks'[c][i] = tasks'[c][j] => i = j
    <3> SUFFICES ASSUME NEW i \in DOMAIN tasks'[c], NEW j \in DOMAIN tasks'[c],
                        tasks'[c][i] = tasks'[c][j]
                 PROVE  i = j
      OBVIOUS
    <3>1. i + 1 = j + 1
      BY <1>5 DEF BufferInv, HeldOnce
    <3> QED
      BY <1>5, <3>1
  <2>2. leased.conn = c => /\ \A i \in DOMAIN tasks'[c] : tasks'[c][i] # leased.buf
                           /\ Head(tasks[c]) # leased.buf
    BY <1>5 DEF BufferInv, HeldOnce
  <2> QED
    BY <1>3, <1>4, <1>6, <2>1, <2>2 DEF BufferInv, HeldOnce
<1> QED
  BY <1>1, <1>8, <1>9 DEF BufferInv

\* The task gives its buffer back, and that is the only one of it.
LEMMA EndKeepsBuffers ==
    ASSUME BufferInv, NEW c \in Conns, EndTask(c)
    PROVE  BufferInv'
<1>1. TypeInv /\ TypeInv'
  BY StepKeepsTypes DEF BufferInv, Next, PoolThread
<1> DEFINE buf == job[c].buf
<1>2. /\ job[c] \in BusyJob /\ job[c] # NoJob /\ job \in [Conns -> Job]
      /\ UNCHANGED <<leased, tasks, allocated>>
      /\ pool' = [pool EXCEPT ![buf] = @ + 1]
      /\ job' = [job EXCEPT ![c] = NoJob]
  BY <1>1, BusyTyped, NoJobTyped DEF EndTask, SelectorOnly, TypeInv, TypeOK, selectorVars
<1>3. buf \in Buffers /\ HasBuffer(c, buf)
  BY <1>2 DEF BusyJob, HasBuffer
<1>4. leased # [conn |-> c, buf |-> buf] /\ \A i \in DOMAIN tasks[c] : tasks[c][i] # buf
  BY <1>2 DEF BufferInv, HeldOnce
<1> HIDE DEF buf
<1>5. \A d \in Conns, b \in Buffers : HasBuffer(d, b)' <=> HasBuffer(d, b) /\ b # buf
  <2> SUFFICES ASSUME NEW d \in Conns, NEW b \in Buffers
               PROVE  HasBuffer(d, b)' <=> HasBuffer(d, b) /\ b # buf
    OBVIOUS
  <2>1. CASE d # c
    <3>1. HasBuffer(d, b) => b # buf
      BY <1>3, <2>1 DEF BufferInv, OneHolder
    <3>2. job'[d] = job[d]
      BY <1>2, <2>1
    <3> QED
      BY <1>2, <3>1, <3>2 DEF HasBuffer
  <2>2. CASE d = c
    <3>1. job'[c] = NoJob
      BY <1>2
    <3> QED
      BY <1>2, <1>4, <2>2, <3>1 DEF HasBuffer, buf
  <2> QED
    BY <2>1, <2>2
<1>6. PoolExact' /\ OneHolder'
  BY <1>2, <1>3, <1>5, GivenBack
<1>7. HeldOnce'
  BY <1>2 DEF BufferInv, HeldOnce
<1> QED
  BY <1>1, <1>6, <1>7 DEF BufferInv

LEMMA StepKeepsBuffers == BufferInv /\ [Next]_vars => BufferInv'
<1> SUFFICES ASSUME BufferInv, [Next]_vars PROVE BufferInv'
  OBVIOUS
<1>0. TypeInv /\ TypeInv'
  BY StepKeepsTypes DEF BufferInv
<1> USE DEF bufferVars, clientVars, chanVars, selectorVars
<1>1. CASE UNCHANGED vars
  BY <1>0, <1>1, BuffersKept DEF vars
<1>2. ASSUME SelectorThread PROVE BufferInv'
  <2>1. CASE \/ Select \/ RunSelectionThreadTask \/ TasksDone \/ LookAgain \/ Leave \/ KeysDone
    BY <1>0, <2>1, BuffersKept DEF Select, RunSelectionThreadTask, TasksDone, LookAgain,
                                     Leave, KeysDone
  <2>2. ASSUME NEW c \in Conns, BeginRead(c) PROVE BufferInv'
    BY <2>2, BeginKeepsBuffers
  <2>3. ASSUME NEW c \in Conns, HandleAccept(c) \/ ContinueWrite(c) \/ QueueDrained(c)
        PROVE  BufferInv'
    BY <1>0, <2>3, BuffersKept DEF HandleAccept, ContinueWrite, QueueDrained
  <2> QED
    BY <1>2, <2>1, <2>2, <2>3, ReadKeepsBuffers, CloseKeepsBuffers DEF SelectorThread
<1>3. ASSUME NEW c \in Conns, PoolThread(c) PROVE BufferInv'
  <2>1. job[c] \in Job /\ job \in [Conns -> Job]
    BY <1>0 DEF TypeInv, TypeOK
  <2>2. CASE ProcessFrame(c)
    <3>1. job[c] \in BusyJob /\ UNCHANGED <<leased, tasks, pool, allocated>>
      BY <2>1, <2>2, BusyTyped DEF ProcessFrame, SelectorOnly
    <3>2. job'[c].at = "sending" /\ job'[c].buf = job[c].buf /\ job[c].at = "frame"
      BY <2>1, <2>2, <3>1 DEF ProcessFrame, BusyJob
    <3>3. \A d \in Conns : d # c => job'[d] = job[d]
      BY <2>1, <2>2 DEF ProcessFrame
    <3> QED
      BY <1>0, <3>1, <3>2, <3>3, BuffersKept, NoJobTyped
  <2>3. CASE Send(c)
    <3>1. job[c] \in BusyJob /\ UNCHANGED <<leased, tasks, pool, allocated>>
      BY <2>1, <2>3, BusyTyped DEF Send, SelectorOnly
    <3>2. job'[c].at # "idle" /\ job'[c].buf = job[c].buf /\ job[c].at # "idle"
      BY <2>1, <2>3, <3>1 DEF Send, BusyJob
    <3>3. \A d \in Conns : d # c => job'[d] = job[d]
      BY <2>1, <2>3 DEF Send
    <3> QED
      BY <1>0, <3>1, <3>2, <3>3, BuffersKept, NoJobTyped
  <2>4. CASE UpdateInterestedOps(c) \/ FrameDone(c) \/ Disconnect(c)
    <3>1. job[c] \in BusyJob /\ UNCHANGED <<leased, tasks, pool, allocated>>
      BY <2>1, <2>4, BusyTyped DEF UpdateInterestedOps, FrameDone, Disconnect, SelectorOnly
    <3>2. job'[c].at # "idle" /\ job'[c].buf = job[c].buf /\ job[c].at # "idle"
      BY <2>1, <2>4, <3>1 DEF UpdateInterestedOps, FrameDone, Disconnect, BusyJob
    <3>3. \A d \in Conns : d # c => job'[d] = job[d]
      BY <2>1, <2>4 DEF UpdateInterestedOps, FrameDone, Disconnect
    <3> QED
      BY <1>0, <3>1, <3>2, <3>3, BuffersKept, NoJobTyped
  <2> QED
    BY <1>3, <2>2, <2>3, <2>4, StartKeepsBuffers, EndKeepsBuffers DEF PoolThread
<1>4. ASSUME NEW c \in Conns, Client(c) PROVE BufferInv'
  BY <1>0, <1>4, BuffersKept
     DEF Client, ClientConnects, ClientSends, ClientHangsUp, ClientReads, ServerOnly
<1> QED
  BY <1>1, <1>2, <1>3, <1>4 DEF Next

\* Every buffer that was allocated is in exactly one place, the pool, the read that serve
\* is at, a read that waits or a running task: no two reads share one and none is lost,
\* also not by the read that finds the end of the stream, however many connections, reads
\* and buffers there are.
THEOREM BuffersOnce == Spec => []BufferOnce
<1>1. Init => BufferInv
  <2> SUFFICES ASSUME Init PROVE BufferInv
    OBVIOUS
  <2>1. \A c \in Conns : job[c] = NoJob /\ tasks[c] = <<>>
    BY DEF Init
  <2>2. (\A b \in Buffers : pool[b] = 0) /\ allocated = 0
    BY DEF Init
  <2>3. leased.conn \notin Conns /\ \A c \in Conns, b \in Buffers : ~HasBuffer(c, b)
    <3>1. leased.conn = None /\ None \notin Conns
      BY ReactorAssumption DEF Init, NoRead
    <3> QED
      BY <2>1, <3>1 DEF HasBuffer
  <2> QED
    BY <2>1, <2>2, <2>3, InitTypes DEF BufferInv, PoolExact, OneHolder, HeldOnce
<1>2. BufferInv /\ [Next]_vars => BufferInv'
  BY StepKeepsBuffers
<1>3. BufferInv => BufferOnce
  <2> SUFFICES ASSUME BufferInv, NEW b \in 1..allocated
               PROVE  /\ pool[b] \in {0, 1}
                      /\ pool[b] = 0 <=> \E c \in Conns : HasBuffer(c, b)
                      /\ \A c, d \in Conns : HasBuffer(c, b) /\ HasBuffer(d, b) => c = d
    BY DEF BufferOnce
  <2>1. b \in Buffers
    BY ReactorAssumption DEF Buffers, BufferInv, TypeInv, TypeOK
  <2> QED
    BY <2>1 DEF BufferInv, PoolExact, OneHolder
<1> QED
  BY <1>1, <1>2, <1>3, PTL DEF Spec
=============================================================================
