------------------------------ MODULE ReactorLoop ------------------------------
(***************************************************************************)
(* The reactor's input and output: the selector thread (Reactor.serve and  *)
(* what it calls of NonBlockingConnectionHandler), the pool threads that   *)
(* handle what was read and send to any connection, and the clients' ends  *)
(* of the sockets.                                                         *)
(*                                                                         *)
(* The pool is taken at its word (SerialActors): the tasks of a connection *)
(* run one at a time, in order.  A frame is what the handler of a read     *)
(* makes of it: the connections it sends one frame each, and whether it    *)
(* ends its own connection (an ERROR, or the RECEIPT of a DISCONNECT).     *)
(***************************************************************************)
EXTENDS Integers, Sequences

CONSTANTS
    Conns,        \* connections, by their handler
    Server,       \* the server socket's key
    None,         \* no connection
    MaxReads,     \* bound: how often each client sends something
    MaxFrames,    \* bound: how many frames one read completes
    MaxBuffers,   \* bound: how many buffers are ever allocated
    MaxPartial    \* bound: how many writes of a frame stop before its end

ASSUME ReactorAssumption ==
    /\ MaxReads \in [Conns -> Nat] /\ MaxFrames \in Nat /\ MaxBuffers \in Nat
    /\ MaxPartial \in Nat
    /\ Server \notin Conns /\ None \notin Conns

VARIABLES
    \* selector thread
    phase,           \* where serve is, see TypeOK; "dead" once an exception left it
    readable,        \* selected keys that are still to be read or accepted from
    writable,        \* selected keys that are still to be written
    drained,         \* the key that continueWrite is about to leave
    leased,          \* the connection that continueRead reads from, and its buffer
    selectorTasks,   \* the connections whose keys are to get OP_READ | OP_WRITE
    wakeup,          \* Selector.wakeup() was called since the last select()
    \* connections
    chan,            \* "new", "connecting", "open" or "closed"
    interest,        \* the key's interest set, "R" or "RW"
    writeQueue,      \* how many frames wait to be written
    shouldTerminate, \* the protocol object's flag
    activeClients,   \* ConnectionsImpl
    \* pool threads
    tasks,           \* per connection, the buffers of the reads to be handled
    job,             \* per connection, what its running task is at
    pool,            \* BUFFER_POOL: how often each buffer is in it
    allocated,       \* how many buffers were ever allocated
    \* clients
    sent,            \* how often a client has sent something
    input,           \* a client's bytes wait in the socket
    hungUp,          \* the client has closed or lost its end
    full,            \* the socket takes no more until the client reads
    partial          \* how often the first frame of the queue was written in part

selectorVars == <<phase, readable, writable, drained, leased>>
chanVars == <<chan, interest>>
bufferVars == <<pool, allocated>>
clientVars == <<sent, input, hungUp, full, partial>>
vars == <<selectorVars, selectorTasks, wakeup, chanVars, writeQueue, shouldTerminate,
          activeClients, tasks, job, bufferVars, clientVars>>

Buffers == 1..MaxBuffers

Job ==
    [at : {"idle"}] \cup
    [at : {"frame", "sending", "ops", "disconnect"}, buf : Buffers, frames : 0..MaxFrames,
     targets : SUBSET Conns, target : Conns \cup {None}, ends : BOOLEAN]
NoJob == [at |-> "idle"]
Busy(at, buf, frames, targets, target, ends) ==
    [at |-> at, buf |-> buf, frames |-> frames, targets |-> targets, target |-> target,
     ends |-> ends]

NoRead == [conn |-> None, buf |-> 0]

Open == {c \in Conns : chan[c] = "open"}

-----------------------------------------------------------------------------
(* Selector thread: Reactor.serve.                                          *)

\* select() returns with the keys that are ready for an operation they are
\* interested in, or because it was woken up.
Select ==
    /\ phase = "select"
    /\ readable' = {c \in Open : input[c] \/ hungUp[c]}
                      \cup {k \in {Server} : \E c \in Conns : chan[c] = "connecting"}
    /\ writable' = {c \in Open : interest[c] = "RW" /\ ~full[c]}
    /\ readable' # {} \/ writable' # {} \/ wakeup
    /\ wakeup' = FALSE
    /\ phase' = "tasks"
    /\ UNCHANGED <<drained, leased, selectorTasks, chanVars, writeQueue, shouldTerminate,
                   activeClients, tasks, job, bufferVars, clientVars>>

\* runSelectionThreadTasks: interestOps on the key of a closed channel throws
\* (CancelledKeyException, or NullPointerException once the key is gone), and
\* nothing between here and the thread's end catches it.
RunSelectionThreadTask ==
    /\ phase = "tasks"
    /\ selectorTasks # <<>>
    /\ selectorTasks' = Tail(selectorTasks)
    /\ LET c == Head(selectorTasks)
       IN  IF chan[c] = "open"
           THEN /\ interest' = [interest EXCEPT ![c] = "RW"]
                /\ UNCHANGED phase
           ELSE /\ phase' = "dead"
                /\ UNCHANGED interest
    /\ UNCHANGED <<readable, writable, drained, leased, wakeup, chan, writeQueue, shouldTerminate,
                   activeClients, tasks, job, bufferVars, clientVars>>

TasksDone ==
    /\ phase = "tasks"
    /\ selectorTasks = <<>>
    /\ phase' = "keys"
    /\ UNCHANGED <<readable, writable, drained, leased, selectorTasks, wakeup, chanVars, writeQueue,
                   shouldTerminate, activeClients, tasks, job, bufferVars, clientVars>>

HandleAccept(c) ==
    /\ phase = "keys"
    /\ Server \in readable
    /\ chan[c] = "connecting"
    /\ readable' = readable \ {Server}
    /\ chan' = [chan EXCEPT ![c] = "open"]
    /\ activeClients' = activeClients \cup {c}
    /\ UNCHANGED <<phase, writable, drained, leased, selectorTasks, wakeup, interest, writeQueue,
                   shouldTerminate, tasks, job, bufferVars, clientVars>>

\* Fault: the pool is not asked whether it has a buffer.
LeaseBufferBlindly(buf) ==
    /\ pool' = [pool EXCEPT ![buf] = @ - 1]
    /\ allocated' = IF buf > allocated THEN buf ELSE allocated

\* leaseBuffer(): a buffer of the pool, or a new one.
LeaseBuffer(buf) ==
    \/ /\ pool[buf] > 0
       /\ pool' = [pool EXCEPT ![buf] = @ - 1]
       /\ UNCHANGED allocated
    \/ /\ \A b \in Buffers : pool[b] = 0
       /\ buf = allocated + 1
       /\ allocated' = buf
       /\ UNCHANGED pool

\* continueRead leases a buffer before it reads ...
BeginRead(c) ==
    /\ phase = "keys"
    /\ c \in readable
    /\ readable' = readable \ {c}
    /\ \E buf \in Buffers :
          /\ LeaseBuffer(buf)
          /\ leased' = [conn |-> c, buf |-> buf]
    /\ phase' = "read"
    /\ UNCHANGED <<writable, drained, selectorTasks, wakeup, chanVars, writeQueue,
                   shouldTerminate, activeClients, tasks, job, clientVars>>

\* ... and when there were bytes the task goes to the pool, with the buffer ...
ContinueRead ==
    /\ phase = "read"
    /\ input[leased.conn]
    /\ input' = [input EXCEPT ![leased.conn] = FALSE]
    /\ tasks' = [tasks EXCEPT ![leased.conn] = Append(@, leased.buf)]
    /\ leased' = NoRead
    /\ phase' = "keys"
    /\ UNCHANGED <<readable, writable, drained, selectorTasks, wakeup, chanVars, writeQueue,
                   shouldTerminate, activeClients, job, bufferVars, sent, hungUp, full,
                   partial>>

\* Fault: the buffer is given back by the task only.
ContinueReadClosesLeaks ==
    /\ phase = "read"
    /\ hungUp[leased.conn]
    /\ chan' = [chan EXCEPT ![leased.conn] = "closed"]
    /\ writable' = writable \ {leased.conn}
    /\ leased' = NoRead
    /\ phase' = "keys"
    /\ UNCHANGED <<readable, drained, selectorTasks, wakeup, interest, writeQueue,
                   shouldTerminate, activeClients, tasks, job, bufferVars, clientVars>>

\* ... or, at the end of the stream or on an I/O error, the buffer goes back and the
\* channel is closed; the key is not valid any more for a write.
ContinueReadCloses ==
    /\ phase = "read"
    /\ hungUp[leased.conn]
    /\ pool' = [pool EXCEPT ![leased.buf] = @ + 1]
    /\ chan' = [chan EXCEPT ![leased.conn] = "closed"]
    /\ writable' = writable \ {leased.conn}
    /\ leased' = NoRead
    /\ phase' = "keys"
    /\ UNCHANGED <<readable, drained, selectorTasks, wakeup, interest, writeQueue,
                   shouldTerminate, activeClients, tasks, job, allocated, clientVars>>

\* continueWrite's loop: the first frame is written to its end, or in part, or the
\* write fails and the channel is closed.
ContinueWrite(c) ==
    /\ phase = "keys"
    /\ c \in writable \ readable
    /\ writeQueue[c] > 0
    /\ \/ /\ ~full[c]
          /\ writeQueue' = [writeQueue EXCEPT ![c] = @ - 1]
          /\ partial' = [partial EXCEPT ![c] = 0]
          /\ UNCHANGED <<writable, chan, full>>
       \/ /\ ~full[c] /\ partial[c] < MaxPartial
          /\ full' = [full EXCEPT ![c] = TRUE]
          /\ partial' = [partial EXCEPT ![c] = @ + 1]
          /\ writable' = writable \ {c}
          /\ UNCHANGED <<writeQueue, chan>>
       \/ /\ hungUp[c]
          /\ chan' = [chan EXCEPT ![c] = "closed"]
          /\ writable' = writable \ {c}
          /\ UNCHANGED <<writeQueue, full, partial>>
    /\ UNCHANGED <<phase, readable, drained, leased, selectorTasks, wakeup, interest,
                   shouldTerminate, activeClients, tasks, job, bufferVars, sent, input,
                   hungUp>>

\* continueWrite leaves its loop when it sees the queue empty ...
QueueDrained(c) ==
    /\ phase = "keys"
    /\ c \in writable \ readable
    /\ writeQueue[c] = 0
    /\ writable' = writable \ {c}
    /\ drained' = c
    /\ phase' = "drained"
    /\ UNCHANGED <<readable, leased, selectorTasks, wakeup, chanVars, writeQueue, shouldTerminate,
                   activeClients, tasks, job, bufferVars, clientVars>>

\* ... looks a second time ...
LookAgain ==
    /\ phase = "drained"
    /\ IF writeQueue[drained] = 0
       THEN phase' = "empty" /\ UNCHANGED drained
       ELSE phase' = "keys" /\ drained' = None
    /\ UNCHANGED <<readable, writable, leased, selectorTasks, wakeup, chanVars, writeQueue,
                   shouldTerminate, activeClients, tasks, job, bufferVars, clientVars>>

\* Fault: the key goes back to reading without a look at shouldTerminate.
LeaveStays ==
    /\ phase = "empty"
    /\ interest' = [interest EXCEPT ![drained] = "R"]
    /\ phase' = "keys"
    /\ drained' = None
    /\ UNCHANGED <<readable, writable, leased, selectorTasks, wakeup, chan, writeQueue,
                   shouldTerminate, activeClients, tasks, job, bufferVars, clientVars>>

\* ... and then closes the channel or gives up its interest in writing.
Leave ==
    /\ phase = "empty"
    /\ IF shouldTerminate[drained]
       THEN chan' = [chan EXCEPT ![drained] = "closed"] /\ UNCHANGED interest
       ELSE interest' = [interest EXCEPT ![drained] = "R"] /\ UNCHANGED chan
    /\ phase' = "keys"
    /\ drained' = None
    /\ UNCHANGED <<readable, writable, leased, selectorTasks, wakeup, writeQueue, shouldTerminate,
                   activeClients, tasks, job, bufferVars, clientVars>>

KeysDone ==
    /\ phase = "keys"
    /\ readable = {} /\ writable = {}
    /\ phase' = "select"
    /\ UNCHANGED <<readable, writable, drained, leased, selectorTasks, wakeup, chanVars, writeQueue,
                   shouldTerminate, activeClients, tasks, job, bufferVars, clientVars>>

SelectorThread ==
    \/ Select \/ RunSelectionThreadTask \/ TasksDone \/ ContinueRead \/ ContinueReadCloses
    \/ LookAgain \/ Leave \/ KeysDone
    \/ \E c \in Conns : \/ HandleAccept(c) \/ BeginRead(c)
                        \/ ContinueWrite(c) \/ QueueDrained(c)

-----------------------------------------------------------------------------
(* Pool threads: the task of a read, and NonBlockingConnectionHandler.send.  *)

\* What a pool thread leaves alone in every one of its steps.
SelectorOnly == UNCHANGED <<selectorVars, chanVars, allocated, clientVars>>

StartTask(c) ==
    /\ job[c] = NoJob
    /\ tasks[c] # <<>>
    /\ \E n \in 0..MaxFrames :
          job' = [job EXCEPT ![c] = Busy("frame", Head(tasks[c]), n, {}, None, FALSE)]
    /\ tasks' = [tasks EXCEPT ![c] = Tail(@)]
    /\ UNCHANGED <<selectorTasks, wakeup, writeQueue, shouldTerminate, activeClients, pool>>
    /\ SelectorOnly

\* A frame answers or is passed on to any connections, or it ends its own.
ProcessFrame(c) ==
    /\ job[c].at = "frame"
    /\ job[c].frames > 0
    /\ \E targets \in SUBSET Conns, ends \in BOOLEAN :
          /\ ends => targets = {c}
          /\ job' = [job EXCEPT ![c].at = "sending", ![c].frames = @ - 1,
                                ![c].targets = targets, ![c].ends = ends]
    /\ UNCHANGED <<tasks, selectorTasks, wakeup, writeQueue, shouldTerminate, activeClients,
                   pool>>
    /\ SelectorOnly

\* send(msg): a frame for an open channel goes into its writeQueue ...
Send(c) ==
    /\ job[c].at = "sending"
    /\ \E d \in job[c].targets :
          IF d \in activeClients /\ chan[d] = "open"
          THEN /\ writeQueue' = [writeQueue EXCEPT ![d] = @ + 1]
               /\ job' = [job EXCEPT ![c].at = "ops", ![c].target = d,
                                     ![c].targets = @ \ {d}]
          ELSE /\ job' = [job EXCEPT ![c].targets = @ \ {d}]
               /\ UNCHANGED writeQueue
    /\ UNCHANGED <<tasks, selectorTasks, wakeup, shouldTerminate, activeClients, pool>>
    /\ SelectorOnly

\* Fault: the pool thread sets the interest itself.
UpdateInterestedOpsDirectly(c) ==
    /\ job[c].at = "ops"
    /\ interest' = [interest EXCEPT ![job[c].target] = "RW"]
    /\ wakeup' = TRUE
    /\ job' = [job EXCEPT ![c].at = "sending", ![c].target = None]
    /\ UNCHANGED <<selectorVars, selectorTasks, chan, tasks, writeQueue, shouldTerminate,
                   activeClients, bufferVars, clientVars>>

\* Fault: the selector is not woken up.
UpdateInterestedOpsQuietly(c) ==
    /\ job[c].at = "ops"
    /\ selectorTasks' = Append(selectorTasks, job[c].target)
    /\ job' = [job EXCEPT ![c].at = "sending", ![c].target = None]
    /\ UNCHANGED <<tasks, wakeup, writeQueue, shouldTerminate, activeClients, pool>>
    /\ SelectorOnly

\* ... and updateInterestedOps hands the key to the selector thread.
UpdateInterestedOps(c) ==
    /\ job[c].at = "ops"
    /\ selectorTasks' = Append(selectorTasks, job[c].target)
    /\ wakeup' = TRUE
    /\ job' = [job EXCEPT ![c].at = "sending", ![c].target = None]
    /\ UNCHANGED <<tasks, writeQueue, shouldTerminate, activeClients, pool>>
    /\ SelectorOnly

\* The handler of the frame returns, or goes on to end the connection.
FrameDone(c) ==
    /\ job[c].at = "sending"
    /\ job[c].targets = {}
    /\ IF job[c].ends
       THEN /\ shouldTerminate' = [shouldTerminate EXCEPT ![c] = TRUE]
            /\ job' = [job EXCEPT ![c].at = "disconnect"]
       ELSE /\ job' = [job EXCEPT ![c].at = "frame"]
            /\ UNCHANGED shouldTerminate
    /\ UNCHANGED <<tasks, selectorTasks, wakeup, writeQueue, activeClients, pool>>
    /\ SelectorOnly

Disconnect(c) ==
    /\ job[c].at = "disconnect"
    /\ activeClients' = activeClients \ {c}
    /\ job' = [job EXCEPT ![c].at = "frame", ![c].ends = FALSE]
    /\ UNCHANGED <<tasks, selectorTasks, wakeup, writeQueue, shouldTerminate, pool>>
    /\ SelectorOnly

\* The task ends after its last frame, or because a frame throws; either way the
\* buffer goes back.
EndTask(c) ==
    /\ job[c].at = "frame"
    /\ pool' = [pool EXCEPT ![job[c].buf] = @ + 1]
    /\ job' = [job EXCEPT ![c] = NoJob]
    /\ UNCHANGED <<tasks, selectorTasks, wakeup, writeQueue, shouldTerminate, activeClients>>
    /\ SelectorOnly

PoolThread(c) ==
    \/ StartTask(c) \/ ProcessFrame(c) \/ Send(c) \/ UpdateInterestedOps(c)
    \/ FrameDone(c) \/ Disconnect(c) \/ EndTask(c)

-----------------------------------------------------------------------------
(* Clients.                                                                 *)

\* What a client leaves alone in every one of its steps.
ServerOnly == UNCHANGED <<selectorVars, selectorTasks, wakeup, interest, writeQueue,
                          shouldTerminate, activeClients, tasks, job, bufferVars>>

ClientConnects(c) ==
    /\ chan[c] = "new"
    /\ chan' = [chan EXCEPT ![c] = "connecting"]
    /\ UNCHANGED clientVars
    /\ ServerOnly

ClientSends(c) ==
    /\ chan[c] = "open" /\ ~hungUp[c]
    /\ sent[c] < MaxReads[c]
    /\ sent' = [sent EXCEPT ![c] = @ + 1]
    /\ input' = [input EXCEPT ![c] = TRUE]
    /\ UNCHANGED <<chan, hungUp, full, partial>>
    /\ ServerOnly

ClientHangsUp(c) ==
    /\ chan[c] = "open" /\ ~hungUp[c]
    /\ hungUp' = [hungUp EXCEPT ![c] = TRUE]
    /\ full' = [full EXCEPT ![c] = FALSE]
    /\ UNCHANGED <<chan, sent, input, partial>>
    /\ ServerOnly

ClientReads(c) ==
    /\ full[c]
    /\ full' = [full EXCEPT ![c] = FALSE]
    /\ UNCHANGED <<chan, sent, input, hungUp, partial>>
    /\ ServerOnly

Client(c) == ClientConnects(c) \/ ClientSends(c) \/ ClientHangsUp(c) \/ ClientReads(c)

-----------------------------------------------------------------------------
Init ==
    /\ phase = "select"
    /\ readable = {}
    /\ writable = {}
    /\ drained = None
    /\ leased = NoRead
    /\ selectorTasks = <<>>
    /\ wakeup = FALSE
    /\ chan = [c \in Conns |-> "new"]
    /\ interest = [c \in Conns |-> "R"]
    /\ writeQueue = [c \in Conns |-> 0]
    /\ shouldTerminate = [c \in Conns |-> FALSE]
    /\ activeClients = {}
    /\ tasks = [c \in Conns |-> <<>>]
    /\ job = [c \in Conns |-> NoJob]
    /\ pool = [b \in Buffers |-> 0]
    /\ allocated = 0
    /\ sent = [c \in Conns |-> 0]
    /\ input = [c \in Conns |-> FALSE]
    /\ hungUp = [c \in Conns |-> FALSE]
    /\ full = [c \in Conns |-> FALSE]
    /\ partial = [c \in Conns |-> 0]

Next ==
    \/ SelectorThread
    \/ \E c \in Conns : PoolThread(c)
    \/ \E c \in Conns : Client(c)

\* The selector thread and the pool threads are scheduled fairly; a client that is
\* sent something goes on reading.  No client need ever connect, send or hang up.
Spec ==
    /\ Init /\ [][Next]_vars
    /\ WF_vars(SelectorThread)
    /\ \A c \in Conns : WF_vars(PoolThread(c)) /\ WF_vars(ClientReads(c))

-----------------------------------------------------------------------------
(* Properties                                                               *)

\* The variables hold the values their Java types allow.
TypeOK ==
    /\ phase \in {"select", "tasks", "keys", "read", "drained", "empty", "dead"}
    /\ readable \subseteq Conns \cup {Server}
    /\ writable \subseteq Conns
    /\ drained \in Conns \cup {None}
    /\ IF phase = "read" THEN leased \in [conn : Conns, buf : Buffers] ELSE leased = NoRead
    /\ selectorTasks \in Seq(Conns)
    /\ wakeup \in BOOLEAN
    /\ chan \in [Conns -> {"new", "connecting", "open", "closed"}]
    /\ interest \in [Conns -> {"R", "RW"}]
    /\ writeQueue \in [Conns -> Nat]
    /\ shouldTerminate \in [Conns -> BOOLEAN]
    /\ activeClients \subseteq Conns
    /\ tasks \in [Conns -> Seq(Buffers)]
    /\ job \in [Conns -> Job]
    /\ pool \in [Buffers -> Nat]
    /\ allocated \in 0..MaxBuffers
    /\ sent \in [Conns -> Nat]
    /\ input \in [Conns -> BOOLEAN]
    /\ hungUp \in [Conns -> BOOLEAN]
    /\ full \in [Conns -> BOOLEAN]
    /\ partial \in [Conns -> 0..MaxPartial]

\* A frame that waits for an open channel is known to the selector: the key is
\* interested in writing, or a selector task will make it so, or a pool thread is
\* about to ask for one.  The selector thread's own "read only" never wins over it.
WriteInterest ==
    \A c \in Conns : chan[c] = "open" /\ writeQueue[c] > 0 =>
        \/ interest[c] = "RW"
        \/ \E i \in DOMAIN selectorTasks : selectorTasks[i] = c
        \/ \E d \in Conns : job[d].at = "ops" /\ job[d].target = c

\* Every buffer that was allocated is in one place: the pool, the read that serve is at,
\* a read that waits, or a running task; so no two reads ever share one, and none is
\* lost, whether a read finds bytes or the end of the stream, or a frame throws.
HasBuffer(c, b) ==
    \/ leased = [conn |-> c, buf |-> b]
    \/ job[c] # NoJob /\ job[c].buf = b
    \/ \E i \in DOMAIN tasks[c] : tasks[c][i] = b

BufferOnce ==
    \A b \in 1..allocated :
        /\ pool[b] \in {0, 1}
        /\ pool[b] = 0 <=> \E c \in Conns : HasBuffer(c, b)
        /\ \A c, d \in Conns : HasBuffer(c, b) /\ HasBuffer(d, b) => c = d

\* What is queued for a client is written in the end, unless its channel is closed,
\* and as long as serve runs.
EveryFrameLeaves ==
    \A c \in Conns :
        writeQueue[c] > 0 ~> writeQueue[c] = 0 \/ chan[c] = "closed" \/ phase = "dead"

\* A session that ends while frames wait for its client is closed in the end, although
\* shouldTerminate is set by one thread after the last frame was queued, and is looked
\* at by another after the queue was.  (When the queue was empty before the flag is set,
\* nothing looks at the flag again: that is the only way to be left open.)
EndedCloses ==
    \A c \in Conns :
        shouldTerminate[c] /\ writeQueue[c] > 0 ~> chan[c] = "closed" \/ phase = "dead"

-----------------------------------------------------------------------------
(* What the texts of the repository say and the code does not keep.         *)

\* serve is "the main loop of the server", left when "server was requested to be
\* closed": no client, however it comes and goes, ends it.
ServeGoesOn == phase # "dead"
=============================================================================
