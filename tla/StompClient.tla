------------------------------ MODULE StompClient ------------------------------
(***************************************************************************)
(* The C++ client: the main thread, which reads the keyboard and makes     *)
(* frames, the server thread, which sends and receives, and what they      *)
(* share: the message queue under queueMutex, and, under no lock, the      *)
(* StompProtocol object and the ConnectionHandler.                         *)
(*                                                                         *)
(* The other end of the socket is the broker as one connection sees it: it *)
(* answers frames in their order, and nothing after the ERROR or RECEIPT   *)
(* that ends the session (StompBroker: LastFrameIsLast).                   *)
(***************************************************************************)
EXTENDS Integers, Sequences

CONSTANTS
    Channels,
    None,          \* no channel
    MaxReceipts,   \* bound: the receipt and the subscription ids of one session
    MaxEvents,     \* bound: the events of a report file
    MaxLogins,     \* bound: how often a connection is made
    MaxInFlight    \* bound: the frames and answers on the way when a line is read

ASSUME ClientAssumption ==
    /\ MaxReceipts \in Nat /\ MaxEvents \in Nat /\ MaxLogins \in Nat /\ MaxInFlight \in Nat
    /\ MaxEvents > 0
    /\ None \notin Channels

VARIABLES
    \* main thread
    mainAt,            \* see TypeOK; "crashed": the process is gone
    command,           \* the command being handled
    number,            \* what was read and is not used yet, 0 for nothing
    subId,             \* handleInput's local, the id to unsubscribe
    output,            \* the frames still to be pushed
    \* server thread
    serverThread,      \* where serverThreadfunc is, see TypeOK
    \* shared
    isRunning,
    handler,           \* the object connectionHandler points to, "none" for nullptr
    messageQueue,
    \* StompProtocol
    receiptId, subscriptionId, logoutReceiptId,
    userLoggedIn, shouldLogOut, gotError,
    eventsMap, joinReciepts, exitReciepts,
    \* the connection and its other end
    logins,            \* how many connections were made
    toServer, toClient,
    session,           \* "fresh", "in" or "over"
    subIdToDestination \* the broker's map of this connection

mainVars == <<mainAt, command, number, subId, output>>
ids == <<receiptId, subscriptionId, logoutReceiptId>>
flags == <<userLoggedIn, shouldLogOut, gotError>>
maps == <<eventsMap, joinReciepts, exitReciepts>>
protocol == <<ids, flags, maps>>
wire == <<toServer, toClient>>
server == <<session, subIdToDestination>>
vars == <<mainVars, serverThread, isRunning, handler, messageQueue, protocol, logins,
          wire, server>>

Receipts == 0..MaxReceipts
SubIds == 0..MaxReceipts

Connect(r) == [type |-> "CONNECT", receipt |-> r]
Subscribe(ch, id, r) == [type |-> "SUBSCRIBE", channel |-> ch, id |-> id, receipt |-> r]
Unsubscribe(id, r) == [type |-> "UNSUBSCRIBE", id |-> id, receipt |-> r]
SendTo(ch) == [type |-> "SEND", channel |-> ch]
Disconnect(r) == [type |-> "DISCONNECT", receipt |-> r]

ClientFrame ==
    {SendTo(ch) : ch \in Channels} \cup [type : {"CONNECT", "DISCONNECT"}, receipt : Receipts]
    \cup [type : {"SUBSCRIBE"}, channel : Channels, id : SubIds, receipt : Receipts]
    \cup [type : {"UNSUBSCRIBE"}, id : SubIds, receipt : Receipts]

\* What the RECEIPT is an answer to is not in the frame: only its id is.
Receipt(r, what, ch, id) ==
    [type |-> "RECEIPT", id |-> r, answers |-> what, channel |-> ch, subscription |-> id]
Connected == [type |-> "CONNECTED"]
Message == [type |-> "MESSAGE"]
Error == [type |-> "ERROR"]

ServerFrame ==
    {Connected, Message, Error} \cup
    [type : {"RECEIPT"}, id : Receipts,
     answers : {"SUBSCRIBE", "UNSUBSCRIBE", "DISCONNECT"},
     channel : Channels \cup {None}, subscription : SubIds]

NoCommand == [verb |-> "none", channel |-> None]

\* Where the server thread is in resetProtocol: what it resets next.
Resetting == {"receiptId", "subscriptionId", "logoutReceiptId", "userLoggedIn",
              "eventsMap", "joinReciepts", "exitReciepts"}

\* The server thread holds queueMutex from the top of an iteration to its end, while it
\* waits for the socket ("write", "rest") too.
HoldsQueueMutex ==
    serverThread \in {"drain", "write", "receive", "rest", "close", "delete", "stop"} \cup Resetting

Joined == serverThread \in {"none", "done"}

-----------------------------------------------------------------------------
(* Main thread.                                                             *)

Top ==
    /\ mainAt = "top"
    /\ mainAt' = IF isRunning THEN "read" ELSE "end"
    /\ UNCHANGED <<command, number, subId, output, serverThread, isRunning, handler, messageQueue,
                   protocol, logins, wire, server>>

\* A line that is refused, or a summary, which sends nothing.
ReadLineInVain ==
    /\ mainAt = "read"
    /\ mainAt' = "top"
    /\ UNCHANGED <<command, number, subId, output, serverThread, isRunning, handler, messageQueue,
                   protocol, logins, wire, server>>

\* An empty line, or the end of the input: InputVec[0] of an empty vector.
ReadEmptyLine ==
    /\ mainAt = "read"
    /\ mainAt' = "crashed"
    /\ UNCHANGED <<command, number, subId, output, serverThread, isRunning, handler, messageQueue,
                   protocol, logins, wire, server>>

ReadLine(verb, ch) ==
    /\ mainAt = "read"
    /\ receiptId + MaxEvents <= MaxReceipts /\ subscriptionId < MaxReceipts
    /\ Len(messageQueue) + Len(toServer) + Len(toClient) < MaxInFlight
    /\ ch # None <=> verb \in {"join", "exit", "report"}
    /\ verb = "login" \/ userLoggedIn
    /\ mainAt' = CASE verb = "login" -> "login" [] verb = "exit" -> "look up" [] OTHER -> "input"
    /\ command' = [verb |-> verb, channel |-> ch]
    /\ UNCHANGED <<number, subId, output, serverThread, isRunning, handler, messageQueue, protocol,
                   logins, wire, server>>

\* isSocketOpen() of a handler that the server thread has deleted may say anything.
RefuseLogin ==
    /\ mainAt = "login"
    /\ handler \in {"open", "freed"}
    /\ mainAt' = "top"
    /\ command' = NoCommand
    /\ UNCHANGED <<number, subId, output, serverThread, isRunning, handler, messageQueue, protocol,
                   logins, wire, server>>

AcceptLogin ==
    /\ mainAt = "login"
    /\ handler # "open"
    /\ mainAt' = "join"
    /\ UNCHANGED <<command, number, subId, output, serverThread, isRunning, handler, messageQueue,
                   protocol, logins, wire, server>>

\* The old server thread has ended; the connection is logins, or it is not.
MakeConnection ==
    /\ mainAt = "join"
    /\ Joined
    /\ serverThread' = "none"
    /\ \/ /\ logins < MaxLogins
          /\ logins' = logins + 1
          /\ handler' = "open"
          /\ toServer' = <<>> /\ toClient' = <<>>
          /\ session' = "fresh"
          /\ subIdToDestination' = [id \in SubIds |-> None]
          /\ mainAt' = "handle login"
          /\ UNCHANGED command
       \/ /\ handler' = "none"
          /\ mainAt' = "top"
          /\ command' = NoCommand
          /\ UNCHANGED <<logins, wire, server>>
    /\ UNCHANGED <<number, subId, output, isRunning, messageQueue, protocol>>

\* handleInput of a login, and the thread it is for: no other thread is running yet, and
\* the new one runs before the CONNECT is in the queue.
HandleLogin ==
    /\ mainAt = "handle login"
    /\ receiptId' = receiptId + 1
    /\ output' = <<Connect(receiptId + 1)>>
    /\ serverThread' = "loop"
    /\ mainAt' = "push"
    /\ UNCHANGED <<command, number, subId, isRunning, handler, messageQueue, subscriptionId,
                   logoutReceiptId, flags, maps, logins, wire, server>>

\* handleInput and handleReport against resetProtocol in the server thread, with no lock:
\* every read and every store of a number is a step, as the build without optimisation
\* makes them, and every use of a number reads it again.
Input(at, next) ==
    /\ mainAt = at
    /\ mainAt' = next
    /\ UNCHANGED <<command, serverThread, isRunning, handler, messageQueue, flags, logins, wire,
                   server>>

\* exit: the subscription is 0 for a channel that was never joined.
LookUpSubscription ==
    /\ Input("look up", "input")
    /\ subId' = eventsMap[command.channel]
    /\ UNCHANGED <<number, output, ids, maps>>

ReadReceiptId ==
    /\ Input("input", "store")
    /\ command.verb = "report" => Len(output) < MaxEvents
    /\ number' = receiptId + 1
    /\ UNCHANGED <<subId, output, ids, maps>>

StoreReceiptId ==
    /\ command.verb # "report"
    /\ Input("store", IF command.verb = "join" THEN "read subscription" ELSE "record")
    /\ receiptId' = number
    /\ number' = 0
    /\ UNCHANGED <<subId, output, subscriptionId, logoutReceiptId, maps>>

ReadSubscriptionId ==
    /\ Input("read subscription", "store subscription")
    /\ number' = subscriptionId + 1
    /\ UNCHANGED <<subId, output, ids, maps>>

StoreSubscriptionId ==
    /\ Input("store subscription", "record subscription")
    /\ subscriptionId' = number
    /\ number' = 0
    /\ UNCHANGED <<subId, output, receiptId, logoutReceiptId, maps>>

\* operator[] comes first and the number is read for the store, so that a map is read
\* or written in one step with the number.
RecordSubscription ==
    /\ Input("record subscription", "record")
    /\ eventsMap' = [eventsMap EXCEPT ![command.channel] = subscriptionId]
    /\ UNCHANGED <<number, subId, output, ids, joinReciepts, exitReciepts>>

RecordJoin ==
    /\ command.verb = "join"
    /\ Input("record", "read receipt")
    /\ joinReciepts' = [joinReciepts EXCEPT ![receiptId] = command.channel]
    /\ UNCHANGED <<number, subId, output, ids, eventsMap, exitReciepts>>

RecordExit ==
    /\ command.verb = "exit"
    /\ Input("record", "frame")
    /\ exitReciepts' = [exitReciepts EXCEPT ![receiptId] = command.channel]
    /\ UNCHANGED <<number, subId, output, ids, eventsMap, joinReciepts>>

ReadLogout ==
    /\ command.verb = "logout"
    /\ Input("record", "store logout")
    /\ number' = receiptId
    /\ UNCHANGED <<subId, output, ids, maps>>

StoreLogout ==
    /\ Input("store logout", "frame")
    /\ logoutReceiptId' = number
    /\ number' = 0
    /\ UNCHANGED <<subId, output, receiptId, subscriptionId, maps>>

\* The SUBSCRIBE's receipt id is made into a text before its subscription id.
ReadReceiptOfFrame ==
    /\ Input("read receipt", "frame")
    /\ number' = receiptId
    /\ UNCHANGED <<subId, output, ids, maps>>

MakeFrame(verb, frame) ==
    /\ command.verb = verb
    /\ Input("frame", "push")
    /\ output' = <<frame>>
    /\ number' = 0 /\ subId' = 0
    /\ UNCHANGED <<ids, maps>>

ReturnFrame ==
    \/ MakeFrame("join", Subscribe(command.channel, subscriptionId, number))
    \/ MakeFrame("exit", Unsubscribe(subId, receiptId))
    \/ MakeFrame("logout", Disconnect(receiptId))

\* Fault: a receipt id is skipped.
HandleEventSkips ==
    /\ command.verb = "report"
    /\ Input("store", "input")
    /\ receiptId' = number + 1
    /\ number' = 0
    /\ output' = Append(output, SendTo(command.channel))
    /\ UNCHANGED <<subId, subscriptionId, logoutReceiptId, maps>>

\* An event of the report: the receipt of a SEND is in its body, where the broker does
\* not look for one.
HandleEvent ==
    /\ command.verb = "report"
    /\ Input("store", "input")
    /\ receiptId' = number
    /\ number' = 0
    /\ output' = Append(output, SendTo(command.channel))
    /\ UNCHANGED <<subId, subscriptionId, logoutReceiptId, maps>>

NoMoreEvents ==
    /\ command.verb = "report"
    /\ Input("input", "push")
    /\ UNCHANGED <<number, subId, output, ids, maps>>

Push ==
    /\ mainAt = "push"
    /\ IF output = <<>>
       THEN /\ mainAt' = "top"
            /\ command' = NoCommand
            /\ UNCHANGED <<output, messageQueue>>
       ELSE /\ ~HoldsQueueMutex
            /\ messageQueue' = Append(messageQueue, Head(output))
            /\ output' = Tail(output)
            /\ UNCHANGED <<mainAt, command>>
    /\ UNCHANGED <<number, subId, serverThread, isRunning, handler, protocol, logins, wire, server>>

\* The handler is closed and deleted; if the server thread has done so already, the
\* process is aborted or goes on.
End ==
    /\ mainAt = "end"
    /\ \/ handler = "none" /\ mainAt' = "join end" /\ UNCHANGED handler
       \/ handler # "none" /\ mainAt' = "join end" /\ handler' = "freed"
       \/ handler = "freed" /\ mainAt' = "crashed" /\ UNCHANGED handler
    /\ UNCHANGED <<command, number, subId, output, serverThread, isRunning, messageQueue, protocol,
                   logins, wire, server>>

JoinAtEnd ==
    /\ mainAt = "join end"
    /\ Joined
    /\ mainAt' = "ended"
    /\ UNCHANGED <<command, number, subId, output, serverThread, isRunning, handler, messageQueue,
                   protocol, logins, wire, server>>

\* What the main thread does without waiting for the user.
MainThread ==
    \/ Top \/ RefuseLogin \/ AcceptLogin \/ MakeConnection \/ HandleLogin
    \/ LookUpSubscription \/ ReadReceiptId \/ StoreReceiptId
    \/ ReadSubscriptionId \/ StoreSubscriptionId \/ RecordSubscription
    \/ RecordJoin \/ RecordExit \/ ReadLogout \/ StoreLogout \/ ReadReceiptOfFrame \/ ReturnFrame
    \/ HandleEvent \/ NoMoreEvents
    \/ Push \/ End \/ JoinAtEnd

User ==
    \/ ReadLineInVain \/ ReadEmptyLine
    \/ \E verb \in {"login", "join", "exit", "report", "logout"}, ch \in Channels \cup {None} :
          ReadLine(verb, ch)

-----------------------------------------------------------------------------
(* Server thread: serverThreadfunc.                                         *)

\* Fault: the loop goes on although the socket is closed.
LoopRunsOn ==
    /\ serverThread = "loop"
    /\ serverThread' = IF isRunning THEN "drain" ELSE "done"
    /\ UNCHANGED <<mainVars, isRunning, handler, messageQueue, protocol, logins, wire, server>>

\* The thread's own isSocketOpen() of the handler it has deleted finds the closed
\* socket: nothing else has used the memory yet.
Loop ==
    /\ serverThread = "loop"
    /\ serverThread' = IF isRunning /\ handler = "open" THEN "drain" ELSE "done"
    /\ UNCHANGED <<mainVars, isRunning, handler, messageQueue, protocol, logins, wire, server>>

\* Fault: nothing is sent before the login is confirmed.
SendMessageLoggedIn(from) ==
    /\ serverThread = from
    /\ IF messageQueue = <<>> \/ ~userLoggedIn
       THEN serverThread' = "receive" /\ UNCHANGED <<messageQueue, toServer>>
       ELSE /\ toServer' = Append(toServer, Head(messageQueue))
            /\ messageQueue' = Tail(messageQueue)
            /\ serverThread' = "drain"
    /\ UNCHANGED <<mainVars, isRunning, handler, protocol, logins, toClient, server>>

SendMessage(from) ==
    /\ serverThread = from
    /\ IF messageQueue = <<>>
       THEN serverThread' = "receive" /\ UNCHANGED <<messageQueue, toServer>>
       ELSE /\ toServer' = Append(toServer, Head(messageQueue))
            /\ messageQueue' = Tail(messageQueue)
            /\ serverThread' = "drain"
    /\ UNCHANGED <<mainVars, isRunning, handler, protocol, logins, toClient, server>>

\* write_some finds no room in the socket and waits until the other end reads.
WriteBlocks ==
    /\ serverThread = "drain"
    /\ messageQueue # <<>>
    /\ serverThread' = "write"
    /\ UNCHANGED <<mainVars, isRunning, handler, messageQueue, protocol, logins, wire, server>>

NothingAvailable ==
    /\ serverThread = "receive"
    /\ toClient = <<>>
    /\ serverThread' = "loop"
    /\ UNCHANGED <<mainVars, isRunning, handler, messageQueue, protocol, logins, wire, server>>

\* Fault: isRunning is reset before the handler is closed and deleted.
ProcessStopsFirst(frame) ==
    /\ userLoggedIn' = (userLoggedIn \/ frame.type = "CONNECTED")
    /\ gotError' = (gotError \/ frame.type = "ERROR")
    /\ shouldLogOut' = (shouldLogOut \/ (frame.type = "RECEIPT" /\ frame.id = logoutReceiptId))
    /\ isRunning' = (isRunning /\ ~gotError')
    /\ serverThread' = IF gotError' THEN "close" ELSE IF shouldLogOut' THEN "receiptId" ELSE "loop"

\* process(): a MESSAGE is filed among the reports, a RECEIPT is looked up.
Process(frame) ==
    /\ userLoggedIn' = (userLoggedIn \/ frame.type = "CONNECTED")
    /\ gotError' = (gotError \/ frame.type = "ERROR")
    /\ shouldLogOut' = (shouldLogOut \/ (frame.type = "RECEIPT" /\ frame.id = logoutReceiptId))
    /\ serverThread' = IF gotError' THEN "close" ELSE IF shouldLogOut' THEN "receiptId" ELSE "loop"
    /\ UNCHANGED isRunning

\* available() > 0, but only a part of the frame is there: getMessage waits for the rest.
GetPart ==
    /\ serverThread = "receive"
    /\ toClient # <<>>
    /\ serverThread' = "rest"
    /\ UNCHANGED <<mainVars, isRunning, handler, messageQueue, protocol, logins, wire, server>>

GetMessage(from) ==
    /\ serverThread = from
    /\ toClient # <<>>
    /\ toClient' = Tail(toClient)
    /\ Process(Head(toClient))
    /\ UNCHANGED <<mainVars, handler, messageQueue, ids, maps, logins, toServer, server>>

\* The connection was lost before the rest came: getMessage returns false.
GetMessageFails ==
    /\ serverThread = "rest"
    /\ toClient = <<>>
    /\ serverThread' = "loop"
    /\ UNCHANGED <<mainVars, isRunning, handler, messageQueue, protocol, logins, wire, server>>

\* resetProtocol(), store by store; shouldLogOut and gotError are this thread's own.
Reset(what, next) ==
    /\ serverThread = what
    /\ serverThread' = next
    /\ UNCHANGED <<mainVars, isRunning, handler, messageQueue, logins, wire, server>>

ResetReceiptId ==
    /\ Reset("receiptId", "subscriptionId")
    /\ receiptId' = 0
    /\ UNCHANGED <<subscriptionId, logoutReceiptId, flags, maps>>

ResetSubscriptionId ==
    /\ Reset("subscriptionId", "logoutReceiptId")
    /\ subscriptionId' = 0
    /\ UNCHANGED <<receiptId, logoutReceiptId, flags, maps>>

ResetLogoutReceiptId ==
    /\ Reset("logoutReceiptId", "userLoggedIn")
    /\ logoutReceiptId' = 0
    /\ UNCHANGED <<receiptId, subscriptionId, flags, maps>>

ResetFlags ==
    /\ Reset("userLoggedIn", "eventsMap")
    /\ userLoggedIn' = FALSE /\ shouldLogOut' = FALSE /\ gotError' = FALSE
    /\ UNCHANGED <<ids, maps>>

ClearEventsMap ==
    /\ Reset("eventsMap", "joinReciepts")
    /\ eventsMap' = [ch \in Channels |-> 0]
    /\ UNCHANGED <<ids, flags, joinReciepts, exitReciepts>>

\* Fault: the receipts of the joins are kept.
ClearJoinRecieptsNot ==
    /\ Reset("joinReciepts", "exitReciepts")
    /\ UNCHANGED <<ids, flags, maps>>

ClearJoinReciepts ==
    /\ Reset("joinReciepts", "exitReciepts")
    /\ joinReciepts' = [r \in Receipts |-> None]
    /\ UNCHANGED <<ids, flags, eventsMap, exitReciepts>>

ClearExitReciepts ==
    /\ Reset("exitReciepts", "close")
    /\ exitReciepts' = [r \in Receipts |-> None]
    /\ UNCHANGED <<ids, flags, eventsMap, joinReciepts>>

ResetProtocol ==
    \/ ResetReceiptId \/ ResetSubscriptionId \/ ResetLogoutReceiptId \/ ResetFlags
    \/ ClearEventsMap \/ ClearJoinReciepts \/ ClearExitReciepts

\* What is on the way when the socket is closed does not matter any more.
Close ==
    /\ serverThread = "close"
    /\ handler' = "closed"
    /\ toServer' = <<>> /\ toClient' = <<>>
    /\ serverThread' = "delete"
    /\ UNCHANGED <<mainVars, isRunning, messageQueue, protocol, logins, server>>

Delete ==
    /\ serverThread = "delete"
    /\ handler' = "freed"
    /\ serverThread' = IF gotError THEN "stop" ELSE "loop"
    /\ UNCHANGED <<mainVars, isRunning, messageQueue, protocol, logins, wire, server>>

Stop ==
    /\ serverThread = "stop"
    /\ isRunning' = FALSE
    /\ serverThread' = "done"
    /\ UNCHANGED <<mainVars, handler, messageQueue, protocol, logins, wire, server>>

ServerThread ==
    /\ mainAt # "crashed"
    /\ \/ Loop \/ SendMessage("drain") \/ WriteBlocks
       \/ NothingAvailable \/ GetPart \/ GetMessage("receive") \/ GetMessageFails
       \/ ResetProtocol \/ Close \/ Delete \/ Stop

\* The rest of a frame comes, and a full socket takes more, when the network and the other
\* end like.
RestArrives == mainAt # "crashed" /\ GetMessage("rest")
RoomForWrite == mainAt # "crashed" /\ SendMessage("write")

-----------------------------------------------------------------------------
(* The broker's end of the connection.                                      *)

Answer(frames, state) ==
    /\ toClient' = toClient \o frames
    /\ session' = state

Subscribed(ch) == \E id \in SubIds : subIdToDestination[id] = ch

\* A login is refused for a wrong password or an account that is logged in, which is
\* not for this connection to tell.  The client asks for a receipt with a "receipt"
\* header; handleConnect looks for one named "receipt-id" and sends none.
AnswerConnect ==
    /\ Head(toServer).type = "CONNECT"
    /\ Answer(<<Connected>>, "in") \/ Answer(<<Error>>, "over")
    /\ UNCHANGED subIdToDestination

AnswerSubscribe ==
    LET f == Head(toServer)
    IN  /\ f.type = "SUBSCRIBE"
        /\ IF subIdToDestination[f.id] # None
           THEN Answer(<<Error>>, "over") /\ UNCHANGED subIdToDestination
           ELSE /\ Answer(<<Receipt(f.receipt, "SUBSCRIBE", f.channel, f.id)>>, session)
                /\ subIdToDestination' =
                      IF Subscribed(f.channel) THEN subIdToDestination
                      ELSE [subIdToDestination EXCEPT ![f.id] = f.channel]

AnswerUnsubscribe ==
    LET f == Head(toServer)
    IN  /\ f.type = "UNSUBSCRIBE"
        /\ IF subIdToDestination[f.id] = None
           THEN Answer(<<Error>>, "over")
           ELSE Answer(<<Receipt(f.receipt, "UNSUBSCRIBE", subIdToDestination[f.id], f.id)>>,
                       session)
        /\ subIdToDestination' = [subIdToDestination EXCEPT ![f.id] = None]

AnswerSend ==
    LET f == Head(toServer)
    IN  /\ f.type = "SEND"
        /\ IF Subscribed(f.channel) THEN Answer(<<Message>>, session)
                                    ELSE Answer(<<Error>>, "over")
        /\ UNCHANGED subIdToDestination

AnswerDisconnect ==
    LET f == Head(toServer)
    IN  /\ f.type = "DISCONNECT"
        /\ Answer(<<Receipt(f.receipt, "DISCONNECT", None, 0)>>, "over")
        /\ UNCHANGED subIdToDestination

Broker ==
    /\ mainAt # "crashed"
    /\ toServer # <<>>
    /\ IF session = "over"
       THEN toServer' = <<>> /\ UNCHANGED <<toClient, server>>
       ELSE /\ toServer' = Tail(toServer)
            /\ \/ AnswerConnect \/ AnswerSubscribe \/ AnswerUnsubscribe \/ AnswerSend
               \/ AnswerDisconnect
    /\ UNCHANGED <<mainVars, serverThread, isRunning, handler, messageQueue, protocol, logins>>

\* The server closes the connection, or it is lost, with what is on the way: nothing
\* that is sent is answered any more, whatever the broker has subscribed it to.  The
\* client is not told: a frame that arrived in part is dropped by getMessage, the socket
\* stays open for isSocketOpen, available() finds nothing, and sendMessage's result is not
\* looked at.
LoseConnection ==
    /\ mainAt # "crashed" /\ handler = "open"
    /\ session # "over" \/ toClient # <<>>
    /\ session' = "over"
    /\ toServer' = <<>>
    /\ \E n \in 0..Len(toClient) : toClient' = SubSeq(toClient, 1, n)
    /\ subIdToDestination' = [id \in SubIds |-> None]
    /\ UNCHANGED <<mainVars, serverThread, isRunning, handler, messageQueue, protocol, logins>>

-----------------------------------------------------------------------------
Init ==
    /\ mainAt = "top" /\ command = NoCommand /\ number = 0 /\ subId = 0 /\ output = <<>>
    /\ serverThread = "none"
    /\ isRunning = TRUE
    /\ handler = "none"
    /\ messageQueue = <<>>
    /\ receiptId = 0 /\ subscriptionId = 0 /\ logoutReceiptId = 0
    /\ userLoggedIn = FALSE /\ shouldLogOut = FALSE /\ gotError = FALSE
    /\ eventsMap = [ch \in Channels |-> 0]
    /\ joinReciepts = [r \in Receipts |-> None]
    /\ exitReciepts = [r \in Receipts |-> None]
    /\ logins = 0
    /\ toServer = <<>> /\ toClient = <<>>
    /\ session = "fresh"
    /\ subIdToDestination = [id \in SubIds |-> None]

Next ==
    \/ MainThread \/ User \/ ServerThread \/ RestArrives \/ RoomForWrite
    \/ Broker \/ LoseConnection

\* Both threads are scheduled fairly.  The user need not type anything, and nothing
\* is asked of the broker and the network.  A blocked main thread is owed the mutex only if the
\* server thread leaves it free for good, so nothing is promised of what it pushes.
Spec == Init /\ [][Next]_vars /\ WF_vars(ServerThread) /\ WF_vars(MainThread)

-----------------------------------------------------------------------------
(* Properties                                                               *)

\* The variables hold the values their C++ types and the code's states allow.
TypeOK ==
    /\ mainAt \in {"top", "read", "login", "join", "handle login", "look up", "input", "store",
                   "read subscription", "store subscription", "record subscription", "record",
                   "store logout", "read receipt", "frame", "push", "end", "join end", "ended",
                   "crashed"}
    /\ command \in [verb : {"none", "login", "join", "exit", "report", "logout"},
                    channel : Channels \cup {None}]
    /\ number \in 0..MaxReceipts
    /\ subId \in SubIds
    /\ output \in Seq(ClientFrame)
    /\ serverThread \in {"none", "loop", "drain", "write", "receive", "rest", "close", "delete",
                         "stop", "done"} \cup Resetting
    /\ isRunning \in BOOLEAN
    /\ handler \in {"none", "open", "closed", "freed"}
    /\ messageQueue \in Seq(ClientFrame)
    /\ receiptId \in 0..MaxReceipts
    /\ subscriptionId \in SubIds
    /\ logoutReceiptId \in 0..MaxReceipts
    /\ userLoggedIn \in BOOLEAN /\ shouldLogOut \in BOOLEAN /\ gotError \in BOOLEAN
    /\ eventsMap \in [Channels -> SubIds]
    /\ joinReciepts \in [Receipts -> Channels \cup {None}]
    /\ exitReciepts \in [Receipts -> Channels \cup {None}]
    /\ logins \in 0..MaxLogins
    /\ toServer \in Seq(ClientFrame)
    /\ toClient \in Seq(ServerFrame)
    /\ session \in {"fresh", "in", "over"}
    /\ subIdToDestination \in [SubIds -> Channels \cup {None}]

\* What the client makes of a RECEIPT is right: it logs out, or says "Joined" or
\* "Exited" with a channel, only for an answer to just that, although receipt ids
\* start again with each login, resetProtocol runs against handleInput store by store,
\* and frames of one session are sent in the next.  Two answers only are misread, both
\* left of a command that resetProtocol has overtaken: receipt 0, which no command asks
\* for, and the answer to an exit of a channel that was never joined, whose id 0 is a
\* subscription only if a join was sent with the id that was reset under it.
ReceiptsUnderstood ==
    (/\ serverThread \in {"receive", "rest"} /\ toClient # <<>>
     /\ Head(toClient).type = "RECEIPT" /\ Head(toClient).id # 0
     /\ ~(Head(toClient).answers = "UNSUBSCRIBE" /\ Head(toClient).subscription = 0)) =>
        LET f == Head(toClient)
            meant == IF f.id = logoutReceiptId THEN <<"DISCONNECT", None>>
                     ELSE IF joinReciepts[f.id] # None THEN <<"SUBSCRIBE", joinReciepts[f.id]>>
                     ELSE IF exitReciepts[f.id] # None THEN <<"UNSUBSCRIBE", exitReciepts[f.id]>>
                     ELSE <<f.answers, f.channel>>
        IN  meant = <<f.answers, f.channel>>

\* While the server thread works on the handler, the main thread does not close,
\* delete or replace it, although neither holds a lock for it.
HandlerKept ==
    /\ serverThread \in {"drain", "write", "receive", "rest", "close"} \cup Resetting =>
          handler = "open"
    /\ serverThread = "delete" => handler = "closed"

\* A login never waits for the old server thread for good, nor does the end.
JoinReturns ==
    mainAt \in {"join", "join end"} ~> mainAt \notin {"join", "join end"}

\* Queued frames are sent as long as there is a server thread to send them that waits
\* neither for room in the socket nor for the rest of a frame.
QueueDrains ==
    messageQueue # <<>> ~>
        messageQueue = <<>> \/ Joined \/ serverThread \in {"write", "rest"} \/ mainAt = "crashed"

-----------------------------------------------------------------------------
(* What the texts of the repository say and the code does not keep.         *)

\* Who is told to "log out before trying again" has a session to log out of: it is
\* not over, or the frame that ends it is still to be handled or is being handled.
CanLogOut ==
    [][RefuseLogin /\ handler = "open" =>
          \/ session # "over"
          \/ serverThread \in Resetting \cup {"close"}
          \/ \E i \in DOMAIN toClient :
                \/ toClient[i].type = "ERROR"
                \/ toClient[i].type = "RECEIPT" /\ toClient[i].id = logoutReceiptId]_vars
=============================================================================
