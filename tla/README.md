# Formal model of the Emergency Service Platform

TLA+ specifications of the STOMP server (`server/`, Java) and of its client
(`client/`, C++), the TLC configurations that check them on small instances, and
proofs about them that TLAPS checks for every value of the constants. Paths below
are relative to the repository; Java files without a directory are under
`server/src/main/java/bgu/spl/net/`, C++ files under `client/src/`.

## 1. The system

| Component | State | Operations | Interacts with |
|---|---|---|---|
| Protocol object, `impl/stomp/StompMessageProtocolImpl`, one per connection | `shouldTerminate`, `connectionError`, `subIdToDestination`, `destinationToSubId` | one handler per frame: CONNECT, SEND, SUBSCRIBE, UNSUBSCRIBE, DISCONNECT, anything else; `sendError` | calls the registry; a SEND reads the maps of other connections' protocol objects |
| Registry, `srv/ConnectionsImpl`, and accounts, `srv/User` | `activeClients`, `chanelSubscription`, `activeUsers`, `users`, `counterMessageId` | `send`, `connect`, `disconnect`, `subscribeClient`, `unSubscribeClient`, `userIsExists` | shared by all protocol objects; calls `send` of connection handlers |
| Reactor, `srv/Reactor` | the selector with its keys, `selectorThreadTasks`, `countUniqeID` | `serve`: select, selector tasks, accept, read, write; `updateInterestedOps` from any thread | submits tasks to the pool; pool threads call back through `updateInterestedOps` and `wakeup` |
| `srv/NonBlockingConnectionHandler` | `writeQueue`, the channel, the shared `BUFFER_POOL` | `continueRead`, `continueWrite`, `send`, `close` | read and write by the selector thread, the task of a read and `send` by pool threads |
| `srv/ActorThreadPool` | `acts`, `playingNow`, an executor | `submit`, `execute`, `complete`, `shutdown` | the reactor submits, executor threads run |
| Thread-per-client server, `srv/BaseServer`, `srv/BlockingConnectionHandler` | `countUniqeID`, one thread per connection | accept, read loop, `send`, `decreaseCounter` | the registry |
| Frame parser and codec, `impl/stomp/StompFrame`, `StompMessageEncoderDecoder` | bytes of an incomplete frame | `decodeNextByte`, `encode`, `parse` | handlers and protocol objects |
| Client, `StompClient.cpp`, `StompProtocol.cpp`, `ConnectionHandler.cpp` | `messageQueue`, `isRunning`, the `ConnectionHandler`, the `StompProtocol` (ids, flags, receipt maps, reports) | main thread: `getline`, `validateInput`, `handleInput`, push; server thread: send, `getMessage`, `process`, `resetProtocol`, close | the two threads share everything but their locals, and only the queue is under a mutex |
| Events and summary, `event.cpp` and part of `StompProtocol.cpp` | reports per channel and user | parse a report file, parse a MESSAGE body, write a summary file | the client's protocol object |
| `Server`, `StompServer`, interfaces | none | choose a server and its protocol factory | |
| `echoClient.cpp`, `json.hpp` | | an example and a vendored library | not part of the system |

What is hard in it, and what makes each part correct:

* **Broker.** Three views of one subscription (two maps of the protocol object, the
  queue of the registry) and three of one login (`activeUsers`, the `User`, its
  `connectionId`) are kept in step by hand over every error path; frames that were
  read together with the one that ended a session are handled all the same. Correct:
  the views agree, an account has one session, nothing follows the frame that ends a
  session, a SEND reaches exactly the subscribers.
* **Pool.** `submit` by the selector thread races `complete` by pool threads. Correct:
  tasks of a connection run one at a time and in order, and none is forgotten.
* **Reactor.** Interest in writing is set by one thread for another through a queue
  and `wakeup`, and reset by the selector thread; the last frame and `shouldTerminate`
  are two writes that `continueWrite` reads in two reads; a key may be cancelled while
  a task for it waits; buffers cross threads. Correct: queued frames get written,
  channels close when and only when they should, no client stops the server.
* **Thread-per-client.** Handlers of all connections overlap in the registry, whose maps
  are concurrent while its sequences of accesses are not; ids are counted down again
  after refused logins, by threads that do not wait for each other. Correct: each client
  is registered under its own id, a login is exclusive, subscriptions are not lost, a SEND
  reaches those who stay.
* **Client.** The handler is deleted by either thread, the protocol object is written
  by both, receipt ids start again with each login, frames outlive a session in the
  queue, and nobody notices a lost connection. Correct: no receipt is misread, the
  handler is not used after its deletion, joins return, queued frames are sent, the user
  can always log out and quit.
* **Reports.** Three programs agree on the layout of a report by line numbers and columns:
  the client that writes it, the frame parser, the client that takes it apart. Correct:
  what a summary says is what the report files said.

`PROJECT.json` lists these hazards at their lines, with the properties that cover them.

## 2. The modules

| Module | Models | State and actions |
|---|---|---|
| `StompBroker` | `StompMessageProtocolImpl`, `ConnectionsImpl`, `User` | variables have the fields' names; `HandleConnect`, `HandleSend`, ... are the handlers, one action for a whole frame with all registry calls it makes; `HandleAccept`, `Close` are what the selector thread does to connections |
| `MCStompBroker` | | constants, symmetry and view for TLC |
| `StompBrokerProofs` | | proofs about `StompBroker` |
| `UserSessions` | what the broker promises of logins | abstract specification: a user is logged in from one client at a time; `StompBroker` implements it, `BrokerThreads` does not |
| `BrokerThreads` | the same files as `StompBroker`, with handlers in several threads | one action is one access to a map, queue or `User` that handlers share; `job[c]` is the place of the handler of connection `c` and what it has read |
| `MCBrokerThreads` | | symmetry for TLC |
| `BrokerThreadsProofs`, `BrokerQueuesProofs` | | proofs about `BrokerThreads`: types, accounts and channels; the queues and the loops of SENDs. The second extends the first |
| `ThreadPerClient` | `BaseServer.java`, `BlockingConnectionHandler.java` | `acceptor` is the place of the accept loop, `thread[c]` that of a handler's thread; `countUniqeID` and `activeClients` are the fields |
| `ThreadPerClientProofs` | | proofs about `ThreadPerClient` |
| `SerialActors` | what the reactor expects of its pool | abstract specification: tasks of an actor start in order, one at a time, each one in the end |
| `ActorThreadPool` | `ActorThreadPool.java` over an external FIFO executor | `Submit`, `Complete` (each in a monitor, so one step), `Take`, `Finish`, `Shutdown`; implements `SerialActors` |
| `ActorThreadPoolProofs` | | proofs about `ActorThreadPool` |
| `ReactorLoop` | `Reactor.java`, `NonBlockingConnectionHandler.java` | `phase` is the selector thread's place in `serve`, `job[c]` the place of a connection's task; the client's end of the socket is part of the module |
| `MCReactorLoop` | | how often each client sends |
| `ReactorLoopProofs` | | proofs about `ReactorLoop` |
| `StompClient` | `StompClient.cpp`, `StompProtocol.cpp`, `ConnectionHandler.cpp` | `mainAt` and `serverThread` are the places of the two threads; the broker as one connection sees it is the other end |
| `StompClientProofs` | | proofs about `StompClient` |
| `StompReports` | `event.cpp`, `handleReport`, `process` and `summary` of `StompProtocol.cpp`, `StompMessageEncoderDecoder.java`, `StompFrame.java` | frames as sequences of lines; `outbox`, `decoder`, `inbox` and `kept` are the places a report goes through |
| `MCStompReports` | | report files for TLC |
| `StompReportsProofs` | | proofs about `StompReports`: the layout of frames and messages, what arrives, what is sorted |

How they fit together: `ReactorLoop` takes the pool at its word, as `SerialActors`
states it and `ActorThreadPool` implements it: `tasks[c]` is served in order by one
`job[c]`. It abstracts a frame to what its handler sends and whether it ends its
connection; `StompBroker` is what those handlers do when one runs at a time, and
`BrokerThreads` when the handlers of different connections overlap, of which again
the pool (`OnePlace`) makes sure that each connection has one. `ThreadPerClient` is the
other server around the same handlers. `StompClient` takes from
`StompBroker` that nothing follows the frame that ends a session
(`LastFrameIsLast`) and that the broker's two maps are one (`MapsInverse`), both
proved. `StompReports` follows the content of the frames whose control the others model.

Definitions whose comment begins with "Fault:" are wrong variants of the definition
that follows them. No specification uses them; put in its place, each must make TLC
find one property violated, so that a property is known to notice the error it is
there for.

### What was abstracted

* **StompBroker.** One frame is one step. `StompServer` gives the reactor
  `availableProcessors()` pool threads, so this is its schedule on a host with one
  processor; with more, handlers overlap, as in `BrokerThreads`. Close of
  a channel may come between any two frames, and any connection may get frames
  before its CONNECT and after its end, as no handler looks at `shouldTerminate`
  first. A queue of subscriber ids is kept as a count per id; the order matters only
  where the loop of `handleSend` dies in its middle, and there any part of the
  other subscribers may have been served (`Reached`). `out` is what the last step
  put on open channels. The topic of a message, its body and the wording of errors
  are left out, `message-id` is kept.
* **BrokerThreads.** The maps are `ConcurrentHashMap`s and `ConcurrentLinkedQueue`s, so one
  access is one step; iterators of the queues hold the element they return next, as
  those of `ConcurrentLinkedQueue` do, and see what is added behind it. What only the
  handler of one connection reads and writes (its `activeUsers` entry, its frames) goes with
  the step before or after it. Passcodes, subscription ids and malformed frames are left
  out: every way to an ERROR is `SendError`. No handler looks at `shouldTerminate` or
  at `activeUsers` before it acts: a connection may send a second CONNECT, and what it sent
  before it learnt of its end is handled after the end (the reactor does so, and what is
  shown of it holds for the other server, too). Two histories say what that leaves:
  `late[c]` is what `c` has subscribed to since its end, `stranded` the accounts that no end of
  a session will log out. A handler that dies of an exception leaves its
  connection idle (reactor) or dead (thread-per-client). The plain `boolean` and `int`
  fields of `User` and the counter are read as last written.
* **ThreadPerClient.** A frame is answered, refused, ends the session or throws; what it
  does besides is in the other broker modules. `countUniqeID++` and `--` are a read and a
  write. A thread may end at any frame by an I/O error, the end of the stream or an
  exception (`Die`).
* **ActorThreadPool.** Tasks are numbered; `submitted`, `started`, `finished` are
  history. The executor is external. `shutdownNow` drops the queue, and a task
  submitted after it is rejected.
* **ReactorLoop.** `select` may return at any time it could. A write may stop in the
  middle of a frame (`MaxPartial`) and then the socket is full until the client
  reads. An exception that leaves `serve` is `phase = "dead"`. `continueRead` leases its
  buffer in one step (`BeginRead`) and reads in the next, which gives the buffer to a task
  (`ContinueRead`) or back to the pool and closes the channel (`ContinueReadCloses`). The
  handling of the bytes is a task of another thread, `send` is an
  `add` and an `updateInterestedOps` step, and an ending frame is followed by separate
  steps for `shouldTerminate` and for `disconnect`. A client that hangs up may lose
  or complete what it sent.
* **StompClient.** Two threads with the order of their reads and writes: the makefile asks
  for no optimisation, so every use of `receiptId` and `subscriptionId` reads them
  again. In `handleInput` and `handleReport` every read and every store of a number is a
  step (`number` is what was read and not yet stored or sent), and so is every entry of a
  map; `resetProtocol` is one step per number and map, so that a command runs between any
  two of its stores. A login alone is one step: the old server thread has been joined and
  the new one is not started. That unsynchronised C++ maps may be corrupted is not modelled.
  `sendMessage` may find no room in the socket and then waits, with the mutex held, until
  the other end reads (`WriteBlocks`, `RoomForWrite`). `isSocketOpen` of a
  deleted handler may say anything to the main thread; the server thread's own call,
  right after its `delete`, finds the closed socket, as nothing has used the memory
  since. A second `delete` in `main` aborts the process or goes on. A frame may have
  arrived in part when the server thread looks, and then it waits with the mutex held.
  The connection may be lost at any time, with any end of what is on its way
  (`LoseConnection`). The reports kept for `summary` are in `StompReports`.
* **StompReports.** A line is a label the program writes and a text it does not. A column
  other than the length of the label gives a garbled text or, behind the end of the line,
  the exception of `substr`; a line behind the last one is undefined and gives a text or
  ends the program. The decoder takes a frame line by line. `general_information` has any
  of three keys, with values of several JSON types; names are texts in a given order
  (`EventNames`). A `date_time` is a JSON value with its type: `int date_time` refuses what is
  neither a number nor a truth value (`Parses`), takes the low bits of an integer (`Narrow`) and
  cuts off a fraction (`ToInt`); what it makes of a double outside of an int is undefined and
  one of `Undefined`. The frame carries the text of the int (`Decimal`), `stoi` reads it again
  (`Stoi`), and `summary` sorts by the number. `InfoLines` puts the keys in the order of `std::map`;
  `Ascending` says so rather than how, and so does `Sorted` of `std::sort`, which may leave
  reports of one date and name in any order. The vector of a user and a channel is the set of
  its places in `kept`.

## 3. What TLC checks

| Run | Bounds | Shows |
|---|---|---|
| `broker` | 2 connections, 2 names, 2 passcodes, 2 subscription ids, 1 channel with and without its leading slash, 1 accepted SEND | `TypeOK`, `MapsInverse`, `SubscriptionsMatch`, `SessionsExact`, `UniqueUserNames`, `LastFrameIsLast`, `EverySubscriberServed` hold, and the broker implements `UserSessions` |
| `broker_session` | one name, one id | finding: a lost client keeps its account logged in (`RefusedOnlyForLiveSession`) |
| `threads` | 2 connections, 2 names, 2 channels, 3 frames each | `QueuedOnce`, `LoggedInHasSession`, `ChannelStaysSettled`, `SteadySubscribersServed`, `DiesOnlyByOverlap` hold for overlapping handlers |
| `threads_login` | 2 connections, 1 name | finding: two CONNECTs at the same time are both accepted (`ImplementsUserSessions`) |
| `tpc` | 4 clients | the counter stays in its range (`TypeOK`), and the registry is exact while ids are given back in turn (`RegistryExact`) |
| `pool` | 3 actors, 2 threads, 3 tasks each | `OnePlace`, `NothingStranded` hold and the pool implements `SerialActors`, with its liveness |
| `reactor` | 2 connections of which one sends once, up to 2 frames a read, 3 buffers, 1 partial write | `WriteInterest`, `BufferOnce` hold; every queued frame is written, or its channel closed (`EveryFrameLeaves`), and a session that ends with frames to write is closed (`EndedCloses`) |
| `reactor_serve` | 2 connections, 1 read each of 1 frame | finding: a client that hangs up can end `serve` for all (`ServeGoesOn`) |
| `client` | 2 channels, 4 receipt ids, 2 connections, reports of at most 1 event, at most 2 frames and answers on their way when a line is read | `ReceiptsUnderstood`, `HandlerKept`, `JoinReturns`, `QueueDrains` hold |
| `client_logout` | 1 channel, 1 connection | finding: after a lost connection, or `logout` twice, there is no way out (`CanLogOut`) |
| `reports` | 2 users with a report file each, of nine: regular ones with up to 3 events, and ones with more, fewer or no general information, a date of the wrong type, or dates that are no int of 3 bits | `ReportsFaithful`, `EndedByIrregularOnly`, `SummaryTells` hold |
| `reports_sample` | 1 user with the first three events of `events1.json` | findings: a summary of a whole file is neither in the order of the file nor shows the descriptions, as `events1_out.txt` does (`SummaryAsSample`) |

Why the bounds are enough to be of interest:

* Two connections are what the broker's properties relate: two accounts under one
  connection, one account over two, two subscribers of one channel. Two subscription
  ids and destinations are what it takes for the maps to disagree. The safety
  properties of `broker` but `EverySubscriberServed`, and all of `threads`, are proved without bounds. A
  SEND without end changes nothing but the message counter, so one accepted SEND shows
  each delivery. `MCView` leaves `out` out of the fingerprint: it is a function of the
  step, and no guard reads it.
* In `threads` two connections are what any of the races needs. Three frames let a
  connection log in or subscribe, send or leave, and do one thing more, as subscribing after
  its end; two names let it log in a second time under another; two channels let a
  connection that ends be in one queue no longer and in the other one still.
* Four clients in `tpc` let two refused logins count down, crossing each other, while a
  third client stays and a fourth is accepted: the counter then falls to -1 and ids repeat.
* The files of `reports` hold two events of one date out of the order of their names, an
  earlier event behind them, empty texts, flags as JSON literals and as strings, and each way
  to miss the layout; two reporters at a time mix frames in every order. An int of 3 bits
  (`Half` is 4) is wide enough for dates in and out of order, and an integer of 5 wraps.
* Three actors for two threads let a task wait in the executor while others run; three
  tasks let `pending` grow to two behind a running one, so that an order can be wrong.
* In the reactor, two connections give a task that sends to another connection while
  the selector thread writes, reads or closes it; two frames of one read give a queue that
  fills while it is drained, and a session that ends with a frame before its last one; three
  buffers are one more than any reachable state has out, so that a fresh one is never missing.
* Four receipt ids in `client` (the login takes one) let a session hold a join, an exit and a logout,
  or two logouts; two logins are what it takes for something old to meet something new. They
  are enough for a join that a reset overtakes between `receiptId` and `subscriptionId`, its
  SUBSCRIBE with id 0 in the next session and an exit of a channel never joined behind it:
  without its exception for subscription 0 `ReceiptsUnderstood` fails with three already. The user
  reads what is printed before typing on, but may be ahead by two frames (`MaxInFlight`).

`CHECK_DEADLOCK FALSE` stands where the system really stops: a pool that was shut
down or has no more tasks, clients that are done or dead, a client process that has
ended, a bound on frames that is used up.
The broker always accepts another frame, and its runs check for deadlock.

### Fairness

* `ActorThreadPool`: weak fairness of each pool thread. Threads of an executor run, and
  a task ends: `process` makes no blocking call in the reactor. The shutdown and the
  selector thread's submissions are not fair.
* `ReactorLoop`: weak fairness of the selector thread, of each connection's pool thread
  and of a client's reading; a client that never reads is owed nothing. Clients need
  not connect, send or hang up.
* `StompClient`: weak fairness of each thread's own steps. The user types when and
  what they like, the broker may stay silent, and the rest of a frame may never come. The server thread lets go of
  `queueMutex` only for an instant per iteration and `std::mutex` is not fair, so a
  strong fairness of `Push` has no ground in the code; nothing is claimed of the
  main thread getting the mutex. `JoinReturns` and `QueueDrains` need the server thread
  only. Nothing is asked of the broker and the network either: `RoomForWrite` and `RestArrives` are not
  fair, and `QueueDrains` excepts a server thread that waits for room in the socket or for
  the rest of a frame.
* `BrokerThreads`, `ThreadPerClient`, `StompReports`: none, and no liveness is claimed: no
  handler of theirs waits for another.

## 4. What is proved

TLAPS checks every proof to its last leaf. The constants are arbitrary but for the
named assumptions (`BrokerAssumption`, `PoolAssumption`, `ClientAssumption`, `ThreadsAssumption`,
`ReactorAssumption`, `MaxConnectionsAssumption`), which say that bounds are naturals and
that the null value is none of the others. `StompReports` has six of its own: `UsersAssumption`
(the reader is no reporter), `FilesAssumption` (a report file is a sequence of events with
texts and finitely many keys), `KeysAssumption` (`InfoKeys` has the two keys, in the order of
`std::map`), `NamesAssumption` (every event of a file has its place in `EventNames`, by which reports of one
date are sorted), `IntsAssumption` (an int holds more than one number on either side of 0, and
every int has a text of its own), and `LabelLengths`, facts about the labels that TLC
evaluates and the provers cannot, as they do not look into strings: these are the columns at which `process` cuts.

* `StompBrokerProofs`. `TypeCorrect` first; `DisconnectUserFacts`,
  `RemoveFromChanelsFacts` and `StepKinds` sort the handlers by what they do to the
  registry, so that later proofs have a case per kind.
  `MapsAlwaysInverse` and `SubscriptionsAlwaysMatch` are inductive given the types (the
  second uses that an id is queued once at most, so that `queue.remove`, which takes out one
  occurrence, takes out all).
  `SessionsAlwaysExact` and `NamesAlwaysUnique` are inductive only together (`Sessions`):
  a login is refused by the first account of its name, so that an account has one session
  needs that it is the only one of its name; `DisconnectSessions` shows that logging one
  connection out leaves the sessions of the others alone.
  `LoginsExclusive` is the refinement of `UserSessions`: `SessionType` and the invariant
  `Sessions` give every step of the broker as a login under a name nobody has a session
  of (`ConnectLogsIn`), a logout (`DisconnectLogsOut`) or a stutter (`SessionsRefined`).
  `NothingAfterLastFrame` rests on `Retired`: a terminated connection has left
  `activeClients`, and an accept puts in only an id that was never terminated.
  `SubscribersAlwaysServed` is an action property: with the two views of a subscription
  in agreement, what the loop of a SEND puts on channels (`DeliveredMessage`) goes to the
  connections whose own map holds the destination, and that no id without a handler is
  in the queue is what makes the loop reach them all.
* `ActorThreadPoolProofs`. `OnePlace` and `NothingStranded` are not inductive alone:
  the invariant also says (`InOrder`) that what the executor holds of an actor and its
  pending tasks are consecutive numbers from `started` to `submitted`. From it follow `PoolTypeCorrect`, `MutualExclusion`, `NoTaskStranded`
  and the refinement `RunsInOrder`: every step of the pool is a step of
  `SerialActors` or a stutter.
* `StompClientProofs`. `HandlerAlwaysKept`: the main thread never closes or deletes the
  handler under the server thread. The invariant says that `main` leaves its loop only
  once `isRunning` is false, that resetting it is the server thread's last act, and that
  a login that has made its connection has not started its thread yet.
  `ClientTypes`: ids stay in range. A command takes its bound when it is read and uses it
  some steps later, with the stores of a reset possible between; that a reset only makes
  room, also for a number that was read before it, is the invariant (`IdsInRange`).
  `ReceiptsAlwaysUnderstood` is `ReceiptsUnderstood`, which depends on the order of frames
  over the command, `output`, the two queues and the answers, over the stores of
  `resetProtocol` and of a command that alternate, and over the end of one session and the
  beginning of the next. Its invariant is `ReceiptInv`. In a session (`SessionExact`) every
  frame and every answer on its way has its record under its own receipt id and no record of
  another kind, and a subscription id other than 0 belongs to one channel, so that the
  broker's answer to a join or an exit is about the channel recorded. Between two sessions
  (`OneLeft`) all frames, answers and records that are left belong to one command: there is
  one main thread, and it was in that command while `resetProtocol` ran. What a record says
  of it is known only once `resetProtocol` has passed the number or the map
  (`LeftInRecords`), so that the invariant distinguishes its stages. As the broker answers
  in order, the answer to it comes before the CONNECTED (`ConnectedLast`), that is before a
  command of the next session can be recorded; a logout whose own receipt id was reset under
  it ends that session before its CONNECTED comes (`LogoutFirst`). After an ERROR no receipt
  is read any more (`ErrorEnds`). What is left of a command may have receipt 0, or name
  subscription 0: these two answers the property, and so the theorem, excepts (section 5).
* `ReactorLoopProofs`. `TypesCorrect`, with the keys that the selector thread and the
  tasks have at hand. `FramesKnown` is `WriteInterest`, which is not inductive: interest in
  writing is worth nothing while the selector thread is about to give it up after its
  look at the queue (`QueueKnown`), when the pool thread that has queued the frame must
  still have to ask for it. `BuffersOnce`: a buffer is in the pool once at most and then nowhere else
  (`PoolExact`), has one connection (`OneHolder`), and is in one place of that connection,
  the read `serve` is at, a read that waits or the running task (`HeldOnce`). Who gives a
  buffer back, a task or the read that found the end of the stream, so gives back all
  there is of it (`GivenBack`).
* `ThreadPerClientProofs`. `CounterBounded`: the accept loop's `++` and any number of
  threads' `--` are a read and a write each, and a value that was read may be written late.
  The invariant (`Counted`) bounds the counter and all such values from below by the number
  of threads that are over (each counts down once) and from above by the clients
  accepted. `RegistryAlwaysExact`: as long as ids are given back in turn the ids that are
  taken ascend with age, and even if all younger clients were to count down the counter
  would stay above them (`RoomAbove`, `Ascending`), so that the next id is free.

* `StompReportsProofs`. `ReportsAlwaysFaithful` is `ReportsFaithful`, `OnlyIrregularEnds` is
  `EndedByIrregularOnly`, for any users, files and texts of one line, empty ones
  included. First come the constants: where each line of a frame lies
  (`FrameLaidOut`), that an empty description cuts the body off only behind all that
  `process` reads (`BodyLaidOut`, `MessageLaidOut`), and so what `process` finds at its line
  numbers and columns (`FieldsRead`, `RegularAccepted`). A date is an int from `ToInt` on
  (`Converted`), and that of the file if it fits; `stoi` finds it again in its text (`KeptRead`). Then the way (`ReportInv`): what the
  decoder has of a frame and what is still to be sent are together the frame of the next
  report (`Served`), and what is kept and what is on its way to the reader are together
  what is due (`Delivered`). `SummaryAlwaysTells` is `SummaryTells`. That some order of
  any finite set of reports rises by date and name (`SortExists`) is an induction over
  sizes, done without an induction theorem: of the sizes of sets that cannot be sorted one
  would be least (`LeastExists`), and a first element put before the rest (`RisesOnward`)
  makes that impossible. What a summary picks by what it reads is then what was due by
  what was reported (`SummaryTold`).
* `BrokerThreadsProofs`. `FirstIsLeast` (a nonempty set of numbers has a least one, by the
  library's well-founded subsets of an interval) gives what `Remove` and an iterator's
  `NextAfter` return. The invariant `Types` says for each place of a handler what it has
  read there, and that it still refers to something (`ReferencesOf`): a queue once put is
  never taken from a channel. From it follow `ThreadsTypeCorrect`, `NoAccountLocked` (who
  enters an account puts it into `activeUsers` of the connection, and it leaves that entry by the
  logout, or by a second CONNECT, which makes it `stranded`; `EndsKept` shows that a
  session whose end begins goes on to that logout) and `QueueKept` (only `PutQueue` changes the queue
  of a channel, and a handler comes there only by finding none).
* `BrokerQueuesProofs`. `HeldIsQueued` is `QueuedOnce`: where a connection is queued agrees
  with what it is `Wanted` for, its map until its end, then `late`. The invariant `Queues` adds what
  holds inside a SUBSCRIBE, UNSUBSCRIBE and end (`Entering`, `Left`, `Ended`): that no two channels
  have one queue, and that a connection has one cell in a queue at most, so that one
  `remove` takes out all. A subscription is followed into a queue that was replaced by
  saying that no other channel has that queue (`HeldIn`). `Growth` and `OthersQueues` show
  once for all steps that a handler disturbs only its own elements.
  `OnlyOverlapKills` and `SteadyServed`, about the SENDs, follow from an invariant on
  each loop (`PassesOver`, `Reaches`): a subscriber that has begun nothing since the loop
  began has been served, is being served, is the element the iterator holds, or stands
  behind that element, which rests on the least cell `NextAfter` returns; and a
  connection that had ended, with no SUBSCRIBE to the channel since, is none of these until its next frame.

Only model-checked:

* Everything with fairness (`ImplementsSerialActors` beyond its safety part,
  `EveryFrameLeaves`, `EndedCloses`, `JoinReturns`, `QueueDrains`), which is beyond this prover.

Every invariant and action property of a passing run is proved.

## 5. What the code does and its texts do not say

Five runs find a statement of the repository violated; `PROJECT.json` quotes each
under "findings". Further observations, met while modelling, that no run states:

* A second CONNECT with another login on one connection is accepted. `activeUsers`
  then holds the second account; the first stays logged in for good, as `disconnect`
  only sees the second. So does the account of a CONNECT that is handled after the end of its
  connection, unless that connection ends once more. `LoggedInHasSession` excepts just
  these two (`stranded`).
* `handleSend` sends the receipt of a SEND to the subscribers, each with the message, and
  not to the sender as such. The client asks for none.
* `continueWrite` looks at `writeQueue.isEmpty()` and then at `shouldTerminate`. When a
  pool thread queues the RECEIPT or the ERROR that ends a session and sets the flag
  between the two, the channel is closed with that frame unwritten.
  And when the selector thread has written that frame before the flag is set, it gives
  up `OP_WRITE`, nothing looks at the flag again, and the channel stays open. `EndedCloses`
  therefore speaks of a session with frames still to write.
* After an ERROR a connection is told "the socket is closed", but its subscription maps are
  not cleared, and in the reactor the frames behind the refused one are handled. A SUBSCRIBE
  among them queues the id of a connection that has left `activeClients`; nothing takes it
  out again unless the connection ends once more, and every later SEND to that channel dies
  at it, with whatever part of the other subscribers it has served
  (`StompMessageProtocolImpl.java:136`). `QueuedOnce` and `DiesOnlyByOverlap` except just these
  subscriptions (`late`).
* After an ERROR both threads delete the handler, and the process may be aborted for it.
  The "enter" that the ERROR asks for is an empty line, and `main` reads element 0 of
  the empty vector it gives (`StompClient.cpp:170`).
* The client asks for a receipt of its CONNECT in a `receipt` header; `handleConnect` looks
  for one named `receipt-id` and sends none.
* A command typed in the moment of a logout may be given receipt 0. The RECEIPT of its
  frame, answered in the next session, equals the `logoutReceiptId` of a session that never
  logged out, and the client resets itself and closes. `ReceiptsUnderstood` excepts it.
* A join typed in that moment may send its SUBSCRIBE with subscription id 0, when the stores
  of `resetProtocol` and of `handleInput` alternate, and the broker takes it in the next session.
  There the exit of a channel never joined, which asks for id 0, is no error any more: the
  client says "Exited" with that channel, and the broker has taken it out of another one.
  `ReceiptsUnderstood` excepts exits of id 0, too.
* The client's `exit` of a channel it never joined sends subscription id 0, which the
  broker answers with an ERROR, which ends the client.
* `join` of a channel twice gets a RECEIPT twice, but the broker ignores the second id,
  and the client keeps just that one: a later `exit` is answered with an ERROR.
* A command typed in the moment of a logout stays in `messageQueue` and is the first
  frame on the next connection, before its CONNECT. The broker handles it.
* Two SENDs that overlap may carry the same message-id, and one SEND two of them
  (`counterMessageId` is read again per subscriber). A subscriber that leaves and
  subscribes again under the iterator of a SEND may get the message twice.
* Two first subscribers of a channel at the same time may put a queue each; the one whose
  queue is replaced holds the destination for good and gets nothing (`QueuedOnce` states
  just this exception, `ChannelStaysSettled` that it happens to no later one).
* In the thread-per-client server a refused login counts `countUniqeID` down although younger
  clients may have come since. The next client then shares the id of one that is there,
  takes its place in `activeClients`, and gets its answers and messages; a send in the moment
  between registration and the start of its thread finds no `out`. Two decrements
  that cross, both past the test, leave the counter at -1. A handler thread that ends by the end
  of the stream or an exception leaves its handler registered.
* The sample summary `events1_out.txt` differs from what the code writes for `events1.json` in
  more than the order and the descriptions that `reports_sample` finds: "forces arrival at
  scene:", "Event Reports:" and "summary:" are "forces:", "Event Report:" and "description:".
* `int date_time = event["date_time"]` (`event.cpp:138`) takes any number and `true`: 3000000000
  becomes a date of 1928, 1.5 becomes 1, and the report goes out with it, without a word to the
  user. `ReportsFaithful` and `SummaryTells` speak of dates that an int can hold.
* A report whose general information does not have exactly the keys `active` and
  `forces_arrival_at_scene` ends or misleads the client of every subscriber; there is no
  handler for the exceptions of `substr` and `stoi`. The dates of `client/data/events1_partial.json`
  are strings, and reporting it ends the reporting client.
* `summary` copies the reports, and `handleReport` reads the user's name, while the server
  thread may change them; neither is under a lock.
* While the server thread waits in `getMessage` for the rest of a frame, or in `sendMessage` for
  a server that does not read (as after `serve` has ended), it holds `queueMutex`, and
  commands wait with it, for good if need be.

## 6. Plan

Done: broker, one frame at a time and in steps; pool; reactor; thread-per-client server;
client; reports; and the proofs of section 4. In this order, next:

1. **Client and broker together** (`StompSystem`): two clients with their frames in
   flight over one broker; a client that believes it is logged in has a session unless
   an ERROR or RECEIPT is on its way; double joins, frames of an old session.

Not modelled:

* What the memory models may add to a data race: torn or stale reads in Java, corrupted
  maps and strings in C++. A model of steps has no outcome to give them beyond an order.
* The constructor of `Event` from a frame body, `ConnectionsImpl.send(channel, msg)`,
  `close` of the servers and of `BlockingConnectionHandler`: nothing calls them.
* `StompServer` (reads two arguments and starts a server) and the interfaces, which have no
  state; `echoClient.cpp`, an example; `json.hpp`, a vendored library, by far the longest
  file of the repository; the text of summaries and of what the client prints.

## 7. Running it

    tlc -config broker.cfg MCStompBroker        # likewise the other runs
    tlapm StompBrokerProofs.tla                 # likewise the other proof modules

`PROJECT.json` names the module and the configuration of every run. The longest,
`client`, takes some four minutes; all others together take less than that.
