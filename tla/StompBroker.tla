----------------------------- MODULE StompBroker -----------------------------
(***************************************************************************)
(* The STOMP broker at the grain of one frame: the per-connection protocol *)
(* objects (StompMessageProtocolImpl), the registry they share             *)
(* (ConnectionsImpl) and the user accounts (User).                         *)
(*                                                                         *)
(* One action is one whole frame handler.  This is the schedule of the     *)
(* reactor server on a host with one processor: StompServer gives the      *)
(* reactor availableProcessors() pool threads, so one thread runs every    *)
(* handler to its end before it starts the next one, while the selector    *)
(* thread accepts and closes connections.  The reactor never takes a       *)
(* connection id back, so a connection, its handler, its protocol object   *)
(* and its id are one number here.                                         *)
(***************************************************************************)
EXTENDS Integers, Sequences

CONSTANTS
    MaxConnections,  \* bound: how many connections are ever accepted
    MaxMessages,     \* bound: how many SEND frames are ever accepted
    Names,           \* "login" header values
    Passcodes,       \* "passcode" header values
    Destinations,    \* destination names, with and without a leading slash
    StripSlash,      \* what handleSend makes of a "destination" header
    SubIds,          \* subscription "id" header values
    Receipts,        \* "receipt" header values
    NULL             \* Java's null: a header or a map entry that is absent

Ids == 1..MaxConnections

ASSUME BrokerAssumption ==
    /\ MaxConnections \in Nat
    /\ MaxMessages \in Nat
    /\ StripSlash \in [Destinations -> Destinations]
    /\ NULL \notin Names \cup Passcodes \cup Destinations \cup SubIds \cup Receipts

VARIABLES
    countUniqeID,         \* Reactor: the id of the last accepted connection
    activeClients,        \* ConnectionsImpl: the ids that still have a handler
    openChans,            \* the connections whose SocketChannel is open
    chanelSubscription,   \* ConnectionsImpl: per channel, how often each id is queued
    users,                \* ConnectionsImpl: the User objects, in creation order
    activeUsers,          \* ConnectionsImpl: the index in users of an id's User, or 0
    counterMessageId,     \* ConnectionsImpl: the last message-id given out
    shouldTerminate,      \* per protocol object
    subIdToDestination,   \* per protocol object
    destinationToSubId,   \* per protocol object
    out                   \* <<id, frame>>: what the last step queued on open channels

registry == <<activeClients, chanelSubscription, users, activeUsers>>
subscriptions == <<subIdToDestination, destinationToSubId>>
vars == <<countUniqeID, openChans, registry, counterMessageId, shouldTerminate,
          subscriptions, out>>

User == [userName : Names, passcode : Passcodes, isLoggedIn : BOOLEAN,
         connectionId : Ids \cup {-1}]

Accepted == 1..countUniqeID

-----------------------------------------------------------------------------
(* Frames the server sends.  A send to an id without a handler, or to a     *)
(* handler whose channel is closed, is dropped without a sign.              *)

Connected == [type |-> "CONNECTED"]
Receipt(receipt) == [type |-> "RECEIPT", receiptId |-> receipt]
Error(message) == [type |-> "ERROR", message |-> message]
Message(subId, messageId, dest, copies) ==
    [type |-> "MESSAGE", subscription |-> subId, messageId |-> messageId,
     destination |-> dest, copies |-> copies]

OptionalReceipt(receipt) == IF receipt = NULL THEN {} ELSE {Receipt(receipt)}

Send(c, frames) ==
    IF c \in activeClients \cap openChans THEN {c} \X frames ELSE {}

-----------------------------------------------------------------------------
(* ConnectionsImpl                                                          *)

\* A queue of subscriber ids is kept as the number of times it holds each id.
\* Fault: a removal that does not look whether the id is queued.
RemoveFromQueueBlindly(queue, c) == [queue EXCEPT ![c] = @ - 1]

RemoveFromQueue(queue, c) == [queue EXCEPT ![c] = IF @ > 0 THEN @ - 1 ELSE 0]

RemoveFromChanels(c) ==
    [d \in Destinations |-> RemoveFromQueue(chanelSubscription[d], c)]

\* Fault: every subscription puts a fresh queue into the map.
SubscribeClientFreshQueue(c, d) ==
    [chanelSubscription EXCEPT ![d] = [i \in Ids |-> IF i = c THEN 1 ELSE 0]]

SubscribeClient(c, d) == [chanelSubscription EXCEPT ![d][c] = @ + 1]

\* Fault: the id stays queued.
UnSubscribeClientKeepsId(c, d) == chanelSubscription

UnSubscribeClient(c, d) ==
    [chanelSubscription EXCEPT ![d] = RemoveFromQueue(@, c)]

\* userIsExists(name) returns the first account of that name.
IsAccountOf(u, name) ==
    /\ u \in DOMAIN users
    /\ users[u].userName = name
    /\ \A v \in 1..(u - 1) : users[v].userName # name

\* Fault: only the accounts that are logged in are looked through.
NoAccountLoggedIn(name) ==
    \A u \in DOMAIN users : users[u].isLoggedIn => users[u].userName # name

NoAccount(name) == \A u \in DOMAIN users : users[u].userName # name

DisconnectUser(c) ==
    IF activeUsers[c] = 0
    THEN users
    ELSE [users EXCEPT ![activeUsers[c]].isLoggedIn = FALSE,
                       ![activeUsers[c]].connectionId = -1]

\* Fault: the handler stays in activeClients.
DisconnectKeepsHandler(c) ==
    /\ users' = DisconnectUser(c)
    /\ activeUsers' = [activeUsers EXCEPT ![c] = 0]
    /\ chanelSubscription' = RemoveFromChanels(c)
    /\ UNCHANGED activeClients

\* Fault: the user stays in activeUsers.
DisconnectKeepsUser(c) ==
    /\ users' = DisconnectUser(c)
    /\ activeClients' = activeClients \ {c}
    /\ chanelSubscription' = RemoveFromChanels(c)
    /\ UNCHANGED activeUsers

Disconnect(c) ==
    /\ users' = DisconnectUser(c)
    /\ activeUsers' = [activeUsers EXCEPT ![c] = 0]
    /\ activeClients' = activeClients \ {c}
    /\ chanelSubscription' = RemoveFromChanels(c)

\* Fault: the user is not marked as logged in again.
ConnectKnownUnmarked(c, u) ==
    /\ users' = [users EXCEPT ![u].connectionId = c]
    /\ activeUsers' = [activeUsers EXCEPT ![c] = u]
    /\ UNCHANGED <<activeClients, chanelSubscription>>

\* connect(c, user) for a User object that is already in users.
ConnectKnown(c, u) ==
    /\ users' = [users EXCEPT ![u].isLoggedIn = TRUE, ![u].connectionId = c]
    /\ activeUsers' = [activeUsers EXCEPT ![c] = u]
    /\ UNCHANGED <<activeClients, chanelSubscription>>

\* connect(c, new User(login, passcode, c)).
ConnectNew(c, login, passcode) ==
    /\ users' = Append(users, [userName |-> login, passcode |-> passcode,
                               isLoggedIn |-> TRUE, connectionId |-> c])
    /\ activeUsers' = [activeUsers EXCEPT ![c] = Len(users) + 1]
    /\ UNCHANGED <<activeClients, chanelSubscription>>

-----------------------------------------------------------------------------
(* StompMessageProtocolImpl: one action per frame handler.  A reactor       *)
(* handler is not asked shouldTerminate before it gets the next frame of    *)
(* its buffer, and frames already read are handled after the channel        *)
(* closed, so every accepted connection may have a frame handled.           *)

\* sendError: the subscription maps of the protocol object are not cleared.
SendError(c, message) ==
    /\ out' = Send(c, {Error(message)})
    /\ shouldTerminate' = [shouldTerminate EXCEPT ![c] = TRUE]
    /\ Disconnect(c)
    /\ UNCHANGED <<countUniqeID, openChans, counterMessageId, subscriptions>>

\* A malformed CONNECT has no login or passcode header, or an accept-version
\* other than 1.2, or a host other than stomp.cs.bgu.ac.il.
HandleMalformedConnect(c) == SendError(c, "malformed frame received")

HandleConnect(c, login, passcode, receipt) ==
    \/ \E u \in DOMAIN users :
          /\ IsAccountOf(u, login)
          /\ passcode # users[u].passcode
          /\ SendError(c, "Wrong password")
    \/ \E u \in DOMAIN users :
          /\ IsAccountOf(u, login)
          /\ passcode = users[u].passcode
          /\ users[u].isLoggedIn
          /\ SendError(c, "User is already logged in")
    \/ /\ \/ \E u \in DOMAIN users :
               /\ IsAccountOf(u, login)
               /\ passcode = users[u].passcode
               /\ ~users[u].isLoggedIn
               /\ ConnectKnown(c, u)
          \/ NoAccount(login) /\ ConnectNew(c, login, passcode)
       /\ out' = Send(c, {Connected} \cup OptionalReceipt(receipt))
       /\ UNCHANGED <<countUniqeID, openChans, counterMessageId, shouldTerminate,
                      subscriptions>>

Subscribers(d) == {i \in Ids : chanelSubscription[d][i] > 0}

\* The loop over the queue dies on the first subscriber that has no handler any
\* more (get(subscriber) is null), so then only those before it are reached.
Reached(d) ==
    IF Subscribers(d) \subseteq activeClients
    THEN {Subscribers(d)}
    ELSE SUBSET (Subscribers(d) \cap activeClients)

DeliverTo(i, d, receipt) ==
    IF destinationToSubId[i][d] = NULL
    THEN {}
    ELSE Send(i, {Message(destinationToSubId[i][d], counterMessageId', d,
                          chanelSubscription[d][i])} \cup OptionalReceipt(receipt))

\* A SEND without a destination header throws before the null check is reached:
\* the thread's task ends and nothing else happens.
HandleSendWithoutDestination(c) ==
    /\ out' = {}
    /\ UNCHANGED <<countUniqeID, openChans, registry, counterMessageId,
                   shouldTerminate, subscriptions>>

HandleSend(c, destination, receipt) ==
    \/ /\ destinationToSubId[c][StripSlash[destination]] = NULL
       /\ SendError(c, "User is not subscribed to the destination")
    \/ /\ destinationToSubId[c][StripSlash[destination]] # NULL
       /\ counterMessageId < MaxMessages
       /\ counterMessageId' = counterMessageId + 1
       /\ \E reached \in Reached(StripSlash[destination]) :
            out' = UNION {DeliverTo(i, StripSlash[destination], receipt) : i \in reached}
       /\ UNCHANGED <<countUniqeID, openChans, registry, shouldTerminate, subscriptions>>

\* The destination, id or receipt header is missing.
HandleMalformedSubscribe(c) == SendError(c, "malformed frame received")

HandleSubscribe(c, destination, subId, receipt) ==
    \/ /\ subIdToDestination[c][subId] # NULL
       /\ SendError(c, "Subscription ID is already in use")
    \/ /\ subIdToDestination[c][subId] = NULL
       /\ IF destinationToSubId[c][destination] = NULL
          THEN /\ destinationToSubId' = [destinationToSubId EXCEPT ![c][destination] = subId]
               /\ subIdToDestination' = [subIdToDestination EXCEPT ![c][subId] = destination]
               /\ chanelSubscription' = SubscribeClient(c, destination)
          ELSE UNCHANGED <<subscriptions, chanelSubscription>>
       /\ out' = Send(c, {Receipt(receipt)})
       /\ UNCHANGED <<countUniqeID, openChans, activeClients, users, activeUsers,
                      counterMessageId, shouldTerminate>>

\* The id or receipt header is missing.
HandleMalformedUnsubscribe(c) == SendError(c, "malformed frame received")

HandleUnsubscribe(c, subId, receipt) ==
    \/ /\ subIdToDestination[c][subId] = NULL
       /\ SendError(c, "user doesn't subscribe to the chanel")
    \/ /\ subIdToDestination[c][subId] # NULL
       /\ LET destination == subIdToDestination[c][subId]
          IN  /\ destinationToSubId' = [destinationToSubId EXCEPT ![c][destination] = NULL]
              /\ subIdToDestination' = [subIdToDestination EXCEPT ![c][subId] = NULL]
              /\ chanelSubscription' = UnSubscribeClient(c, destination)
       /\ out' = Send(c, {Receipt(receipt)})
       /\ UNCHANGED <<countUniqeID, openChans, activeClients, users, activeUsers,
                      counterMessageId, shouldTerminate>>

\* Fault: one of the two maps is not cleared.
ClearSubIds(c) ==
    /\ subIdToDestination' = [subIdToDestination EXCEPT ![c] = [s \in SubIds |-> NULL]]
    /\ UNCHANGED destinationToSubId

ClearSubscriptions(c) ==
    /\ subIdToDestination' = [subIdToDestination EXCEPT ![c] = [s \in SubIds |-> NULL]]
    /\ destinationToSubId' = [destinationToSubId EXCEPT ![c] = [d \in Destinations |-> NULL]]

\* Without a receipt the client gets an ERROR, and the rest is done all the same.
\* (disconnect then runs twice; the second call finds nothing left to undo.)
HandleDisconnect(c, receipt) ==
    /\ out' = Send(c, IF receipt = NULL THEN {Error("malformed frame received")}
                                        ELSE {Receipt(receipt)})
    /\ shouldTerminate' = [shouldTerminate EXCEPT ![c] = TRUE]
    /\ ClearSubscriptions(c)
    /\ Disconnect(c)
    /\ UNCHANGED <<countUniqeID, openChans, counterMessageId>>

HandleUnknown(c) == SendError(c, "Unknown command")

-----------------------------------------------------------------------------
(* Reactor: the selector thread.                                            *)

HandleAccept ==
    /\ countUniqeID < MaxConnections
    /\ countUniqeID' = countUniqeID + 1
    /\ activeClients' = activeClients \cup {countUniqeID'}
    /\ openChans' = openChans \cup {countUniqeID'}
    /\ out' = {}
    /\ UNCHANGED <<chanelSubscription, users, activeUsers, counterMessageId,
                   shouldTerminate, subscriptions>>

\* End of stream, an I/O error, or the drained queue of a terminated connection:
\* the channel is closed and the registry is not told.
Close(c) ==
    /\ c \in openChans
    /\ openChans' = openChans \ {c}
    /\ out' = {}
    /\ UNCHANGED <<countUniqeID, registry, counterMessageId, shouldTerminate, subscriptions>>

-----------------------------------------------------------------------------
Init ==
    /\ countUniqeID = 0
    /\ activeClients = {}
    /\ openChans = {}
    /\ chanelSubscription = [d \in Destinations |-> [c \in Ids |-> 0]]
    /\ users = <<>>
    /\ activeUsers = [c \in Ids |-> 0]
    /\ counterMessageId = 0
    /\ shouldTerminate = [c \in Ids |-> FALSE]
    /\ subIdToDestination = [c \in Ids |-> [s \in SubIds |-> NULL]]
    /\ destinationToSubId = [c \in Ids |-> [d \in Destinations |-> NULL]]
    /\ out = {}

OrNull(S) == S \cup {NULL}

ProcessFrame(c) ==
    \/ HandleMalformedConnect(c)
    \/ \E login \in Names, passcode \in Passcodes, receipt \in OrNull(Receipts) :
            HandleConnect(c, login, passcode, receipt)
    \/ HandleSendWithoutDestination(c)
    \/ \E destination \in Destinations, receipt \in OrNull(Receipts) :
            HandleSend(c, destination, receipt)
    \/ HandleMalformedSubscribe(c)
    \/ \E destination \in Destinations, subId \in SubIds, receipt \in Receipts :
            HandleSubscribe(c, destination, subId, receipt)
    \/ HandleMalformedUnsubscribe(c)
    \/ \E subId \in SubIds, receipt \in Receipts : HandleUnsubscribe(c, subId, receipt)
    \/ \E receipt \in OrNull(Receipts) : HandleDisconnect(c, receipt)
    \/ HandleUnknown(c)

Next ==
    \/ HandleAccept
    \/ \E c \in Accepted : ProcessFrame(c)
    \/ \E c \in Accepted : Close(c)

Spec == Init /\ [][Next]_vars

-----------------------------------------------------------------------------
(* Properties                                                               *)

\* The variables hold the values their Java types allow.
TypeOK ==
    /\ countUniqeID \in 0..MaxConnections
    /\ activeClients \subseteq Accepted
    /\ openChans \subseteq Accepted
    /\ chanelSubscription \in [Destinations -> [Ids -> Nat]]
    /\ users \in Seq(User)
    /\ activeUsers \in [Ids -> 0..Len(users)]
    /\ counterMessageId \in 0..MaxMessages
    /\ shouldTerminate \in [Ids -> BOOLEAN]
    /\ subIdToDestination \in [Ids -> [SubIds -> OrNull(Destinations)]]
    /\ destinationToSubId \in [Ids -> [Destinations -> OrNull(SubIds)]]

\* The two subscription maps of a protocol object are inverse to each other at
\* every moment, whatever mix of SUBSCRIBE, UNSUBSCRIBE, errors and DISCONNECT
\* the connection has been through: an UNSUBSCRIBE by id and a SEND by
\* destination can never disagree on what is subscribed.
MapsInverse ==
    \A c \in Ids, s \in SubIds, d \in Destinations :
        subIdToDestination[c][s] = d <=> destinationToSubId[c][d] = s

\* The registry and the protocol objects agree: a connection is queued in a
\* channel at most once, and only if its own map holds the destination; while
\* it has not been terminated it is queued exactly then.
SubscriptionsMatch ==
    \A c \in Ids, d \in Destinations :
        LET held == IF destinationToSubId[c][d] = NULL THEN 0 ELSE 1
        IN  /\ chanelSubscription[d][c] <= held
            /\ ~shouldTerminate[c] => chanelSubscription[d][c] = held

\* A connection in activeUsers is the one its User object was last logged in
\* through, and that User is logged in: no account has two sessions, and no
\* error path logs out a user under a connection that still counts as its.
SessionsExact ==
    \A c \in Ids :
        activeUsers[c] # 0 =>
            /\ users[activeUsers[c]].isLoggedIn
            /\ users[activeUsers[c]].connectionId = c

\* connect never adds a second account of a name that has one, so the passcode
\* that a CONNECT is held against is the first one the name was used with.
UniqueUserNames ==
    \A u, v \in DOMAIN users : users[u].userName = users[v].userName => u = v

\* The ERROR, or the RECEIPT of a DISCONNECT, is the last frame a connection is
\* sent, although its channel may stay open, its id may still be queued in
\* channels and its later frames are still handled.
LastFrameIsLast ==
    [][\A c \in Ids : shouldTerminate[c] => \A f \in out' : f[1] # c]_vars

\* A user is logged in from one client at a time, whatever mix of new accounts, known
\* accounts, refused logins, errors and logouts the connections go through: a CONNECT
\* is answered CONNECTED only when no other connection is in a session of that user.
Session(c) == IF activeUsers[c] = 0 THEN NULL ELSE users[activeUsers[c]].userName
Exclusive ==
    INSTANCE UserSessions WITH Conns <- Ids, None <- NULL, session <- [c \in Ids |-> Session(c)]
ImplementsUserSessions == Exclusive!Spec

\* An accepted SEND puts the message, once and under its own subscription id, on
\* the connections whose own map holds the destination; unless an id without a
\* handler is queued in the channel it leaves none of those out.
EverySubscriberServed ==
    [][counterMessageId' # counterMessageId =>
       \A c \in Accepted, destination \in Destinations, receipt \in OrNull(Receipts) :
        HandleSend(c, destination, receipt) =>
           LET d == StripSlash[destination]
               subscribed == {i \in activeClients \cap openChans :
                                destinationToSubId[i][d] # NULL}
               due == {<<i, Message(destinationToSubId[i][d], counterMessageId', d, 1)>> :
                            i \in subscribed}
               sent == {f \in out' : f[2].type = "MESSAGE"}
           IN  /\ sent \subseteq due
               /\ Subscribers(d) \subseteq activeClients => sent = due]_vars

-----------------------------------------------------------------------------
(* What the texts of the repository say and the code does not keep.         *)

\* A login is refused with "already logged in from another client" only while
\* a client whose channel is open is logged in under that account.
RefusedOnlyForLiveSession ==
    [][\A c \in Ids, login \in Names, passcode \in Passcodes, receipt \in OrNull(Receipts) :
        /\ <<c, Error("User is already logged in")>> \in out'
        /\ HandleConnect(c, login, passcode, receipt)
        => \E d \in openChans : activeUsers[d] # 0 /\ users[activeUsers[d]].userName = login]_vars
=============================================================================
