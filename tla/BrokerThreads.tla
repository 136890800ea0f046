---------------------------- MODULE BrokerThreads ----------------------------
(***************************************************************************)
(* The broker with the handlers of different connections running at the    *)
(* same time: the reactor with several pool threads, or the server with a  *)
(* thread per client.  One action is one access to an object that the      *)
(* handlers share; what one connection keeps for itself goes with the      *)
(* access before or after it.  The shared maps are concurrent collections, *)
(* each access of which is atomic; the sequences of them that              *)
(* ConnectionsImpl makes are not.                                          *)
(*                                                                         *)
(* ActorThreadPool shows that a connection has one handler at a time.      *)
(* Every connection is accepted from the start.  Header checks, passcodes  *)
(* and subscription ids are in StompBroker.                                *)
(***************************************************************************)
EXTENDS Integers, Sequences, FiniteSets

CONSTANTS
    Conns,         \* connections, their ids and their protocol objects
    Names,         \* user names
    Destinations,  \* channels
    None,          \* no user, and no element of a queue
    MaxFrames      \* bound: the frames a connection sends

ASSUME ThreadsAssumption == None \notin Names \cup Conns /\ MaxFrames \in Nat

VARIABLES
    users,               \* ConnectionsImpl: User objects, in creation order
    activeUsers,         \* ConnectionsImpl: per id, the index of its User, or 0
    activeClients,       \* ConnectionsImpl: the ids that have a handler
    chanelSubscription,  \* ConnectionsImpl: per channel, the index of its queue, or 0
    queues,              \* the ConcurrentLinkedQueue objects, in creation order
    counterMessageId,    \* ConnectionsImpl
    destinationToSubId,  \* per protocol object, the destinations it holds
    shouldTerminate,     \* per protocol object, whether its session has ended
    job,                 \* per connection, where its handler is
    frames,              \* per connection, the frames it has sent
    late,                \* history: per connection, what it subscribed to since it ended
    stranded             \* history: the accounts that no end of a session will log out

accounts == <<users, activeUsers, stranded>>
channels == <<chanelSubscription, queues>>
protocols == <<destinationToSubId, shouldTerminate, late>>
vars == <<accounts, activeClients, channels, counterMessageId, protocols, job, frames>>

-----------------------------------------------------------------------------
(* A ConcurrentLinkedQueue: an element that is removed leaves an empty cell. *)
(* An iterator holds the next element it will return, so it returns that one *)
(* even when it is removed meanwhile, and sees no more once it has none.     *)

Live(q, c) == {k \in DOMAIN queues[q] : queues[q][k] = c}
FirstOf(cells) == IF cells = {} THEN 0 ELSE CHOOSE k \in cells : \A l \in cells : k <= l

NextAfter(q, k) ==
    LET l == FirstOf({l \in DOMAIN queues[q] : l > k /\ queues[q][l] # None})
    IN  [cell |-> l, element |-> IF l = 0 THEN None ELSE queues[q][l]]

\* Fault: the elements behind the removed one move up.
RemoveShifting(q, c) ==
    LET k == FirstOf(Live(q, c))
    IN  IF k = 0 THEN queues
        ELSE [queues EXCEPT ![q] = SubSeq(@, 1, k - 1) \o SubSeq(@, k + 1, Len(@))]

Remove(q, c) ==
    LET k == FirstOf(Live(q, c))
    IN  IF k = 0 THEN queues ELSE [queues EXCEPT ![q][k] = None]

-----------------------------------------------------------------------------
(* Handlers                                                                 *)

Idle == [at |-> "idle"]
Dead == [at |-> "dead"]

\* The handler of c goes on to where r says.
Goes(c, r) == job' = [job EXCEPT ![c] = r]

\* A frame of c is taken by a thread, its handler goes on to where r says.  Frames that
\* were read together with the one that ended the session are handled all the same.
Begin(c, r) ==
    /\ job[c] = Idle
    /\ frames[c] < MaxFrames
    /\ frames' = [frames EXCEPT ![c] = @ + 1]
    /\ Goes(c, r)

(* CONNECT                                                                  *)

AccountsOf(name) == {u \in DOMAIN users : users[u].userName = name}

UserIsExists(c) ==
    /\ \E name \in Names :
        Begin(c, [at |-> "check", name |-> name, user |-> FirstOf(AccountsOf(name))])
    /\ UNCHANGED <<accounts, activeClients, channels, counterMessageId, protocols>>

\* sendError before it disconnects, and the same of handleDisconnect.
Terminates(c) ==
    /\ shouldTerminate' = [shouldTerminate EXCEPT ![c] = TRUE]
    /\ late' = [late EXCEPT ![c] = {}]

\* user.isLoggedIn(), or sendError.
IsLoggedIn(c) ==
    /\ job[c].at = "check"
    /\ job[c].user # 0
    /\ IF users[job[c].user].isLoggedIn
       THEN Goes(c, [at |-> "logout"]) /\ Terminates(c)
       ELSE Goes(c, [job[c] EXCEPT !.at = "connect"]) /\ UNCHANGED <<shouldTerminate, late>>
    /\ UNCHANGED <<accounts, activeClients, channels, counterMessageId,
                   destinationToSubId, frames>>

\* activeUsers.put.  The account that c had there is left logged in, and an account that c
\* enters after its end stays so.
EnterAccount(c, u) ==
    LET former == activeUsers[c]
        left == IF former \notin {0, u} /\ users[former].isLoggedIn THEN {former} ELSE {}
    IN  /\ activeUsers' = [activeUsers EXCEPT ![c] = u]
        /\ stranded' = (stranded \ {u}) \cup left \cup (IF shouldTerminate[c] THEN {u} ELSE {})

ConnectKnown(c) ==
    /\ job[c].at = "connect"
    /\ users' = [users EXCEPT ![job[c].user].isLoggedIn = TRUE]
    /\ EnterAccount(c, job[c].user)
    /\ Goes(c, Idle)
    /\ UNCHANGED <<activeClients, channels, counterMessageId, protocols, frames>>

ConnectNew(c) ==
    /\ job[c].at = "check"
    /\ job[c].user = 0
    /\ users' = Append(users, [userName |-> job[c].name, isLoggedIn |-> TRUE])
    /\ EnterAccount(c, Len(users) + 1)
    /\ Goes(c, Idle)
    /\ UNCHANGED <<activeClients, channels, counterMessageId, protocols, frames>>

(* SUBSCRIBE and UNSUBSCRIBE                                                *)

\* Into the connection's own maps, which the SENDs of others look into.
HoldDestination(c, d) ==
    /\ d \notin destinationToSubId[c]
    /\ destinationToSubId' = [destinationToSubId EXCEPT ![c] = @ \cup {d}]
    /\ late' = [late EXCEPT ![c] = IF shouldTerminate[c] THEN @ \cup {d} ELSE @]
    /\ Begin(c, [at |-> "containsKey", dest |-> d])
    /\ UNCHANGED <<accounts, activeClients, channels, counterMessageId, shouldTerminate>>

\* Fault: nobody looks whether the channel has a queue.
ContainsKeyNever(d) == FALSE

\* Fault: a queue is taken for granted.
ContainsKeyAlways(d) == TRUE

ContainsKey(d) == chanelSubscription[d] # 0

LookForQueue(c) ==
    /\ job[c].at = "containsKey"
    /\ Goes(c, [job[c] EXCEPT !.at = IF ContainsKey(job[c].dest) THEN "get" ELSE "put"])
    /\ UNCHANGED <<accounts, activeClients, channels, counterMessageId,
                   protocols, frames>>

PutQueue(c) ==
    /\ job[c].at = "put"
    /\ queues' = Append(queues, <<>>)
    /\ chanelSubscription' = [chanelSubscription EXCEPT ![job[c].dest] = Len(queues) + 1]
    /\ Goes(c, [job[c] EXCEPT !.at = "get"])
    /\ UNCHANGED <<accounts, activeClients, counterMessageId, protocols, frames>>

GetQueue(c) ==
    /\ job[c].at = "get"
    /\ Goes(c, [at |-> "add", queue |-> chanelSubscription[job[c].dest]])
    /\ UNCHANGED <<accounts, activeClients, channels, counterMessageId,
                   protocols, frames>>

AddToQueue(c) ==
    /\ job[c].at = "add"
    /\ queues' = [queues EXCEPT ![job[c].queue] = Append(@, c)]
    /\ Goes(c, Idle)
    /\ UNCHANGED <<accounts, activeClients, chanelSubscription, counterMessageId,
                   protocols, frames>>

GiveUpDestination(c, d) ==
    /\ d \in destinationToSubId[c]
    /\ destinationToSubId' = [destinationToSubId EXCEPT ![c] = @ \ {d}]
    /\ late' = [late EXCEPT ![c] = @ \ {d}]
    /\ Begin(c, [at |-> "unsubscribe", dest |-> d])
    /\ UNCHANGED <<accounts, activeClients, channels, counterMessageId, shouldTerminate>>

\* Between get and remove nobody can take the element: only c removes c.
UnSubscribeClient(c) ==
    /\ job[c].at = "unsubscribe"
    /\ queues' = Remove(chanelSubscription[job[c].dest], c)
    /\ Goes(c, Idle)
    /\ UNCHANGED <<accounts, activeClients, chanelSubscription, counterMessageId,
                   protocols, frames>>

(* DISCONNECT, and sendError after any frame                                *)

HandleDisconnect(c) ==
    /\ Begin(c, [at |-> "logout"])
    /\ Terminates(c)
    /\ destinationToSubId' = [destinationToSubId EXCEPT ![c] = {}]
    /\ UNCHANGED <<accounts, activeClients, channels, counterMessageId>>

\* The destinations stay in the connection's own map.
SendError(c) ==
    /\ Begin(c, [at |-> "logout"])
    /\ Terminates(c)
    /\ UNCHANGED <<accounts, activeClients, channels, counterMessageId, destinationToSubId>>

\* Fault: the id is taken out of activeUsers before its User is looked up there.
LogoutForgets(c) ==
    /\ activeUsers' = [activeUsers EXCEPT ![c] = 0]
    /\ UNCHANGED <<users, stranded>>

Logout(c) ==
    /\ users' = IF activeUsers[c] = 0 THEN users
                ELSE [users EXCEPT ![activeUsers[c]].isLoggedIn = FALSE]
    /\ activeUsers' = [activeUsers EXCEPT ![c] = 0]
    /\ stranded' = stranded \ {activeUsers[c]}

DisconnectUser(c) ==
    /\ job[c].at = "logout"
    /\ Logout(c)
    /\ Goes(c, [at |-> "removeClient"])
    /\ UNCHANGED <<activeClients, channels, counterMessageId, protocols, frames>>

RemoveClient(c) ==
    /\ job[c].at = "removeClient"
    /\ activeClients' = activeClients \ {c}
    /\ Goes(c, [at |-> "removeFromChanels", left |-> Destinations])
    /\ UNCHANGED <<accounts, channels, counterMessageId, protocols, frames>>

\* Fault: the queue of the last channel is not looked into.
RemoveFromChanelSkips(c, d) ==
    IF chanelSubscription[d] = 0 \/ job[c].left = {d} THEN queues
    ELSE Remove(chanelSubscription[d], c)

RemoveFromChanel(c, d) ==
    IF chanelSubscription[d] = 0 THEN queues ELSE Remove(chanelSubscription[d], c)

RemoveFromChanels(c) ==
    /\ job[c].at = "removeFromChanels"
    /\ \E d \in job[c].left :
        /\ queues' = RemoveFromChanel(c, d)
        /\ Goes(c, IF job[c].left = {d} THEN Idle ELSE [job[c] EXCEPT !.left = @ \ {d}])
    /\ UNCHANGED <<accounts, activeClients, chanelSubscription, counterMessageId,
                   protocols, frames>>

(* SEND                                                                     *)

\* counterMessageId++ reads ...
HandleSend(c, d) ==
    /\ d \in destinationToSubId[c]
    /\ Begin(c, [at |-> "increment", dest |-> d, count |-> counterMessageId])
    /\ UNCHANGED <<accounts, activeClients, channels, counterMessageId, protocols>>

\* ... and writes.
IncrementCounterMessageId(c) ==
    /\ job[c].at = "increment"
    /\ counterMessageId' = job[c].count + 1
    /\ Goes(c, [at |-> "subscribers", dest |-> job[c].dest])
    /\ UNCHANGED <<accounts, activeClients, channels, protocols, frames>>

\* getSubscribersToChanel, and the iterator of the loop.  With it is kept what the
\* properties ask about: the subscribers that the loop has to reach unless they do
\* something meanwhile (seen: their frames so far), those it has served, and the
\* connections that had ended before it and not subscribed to the channel again.
GetSubscribers(c) ==
    /\ job[c].at = "subscribers"
    /\ LET d == job[c].dest
           q == chanelSubscription[d]
       IN  Goes(c, [at |-> "loop", dest |-> d, queue |-> q, subscriber |-> None,
                    next |-> NextAfter(q, 0),
                    due |-> {i \in Conns : /\ Live(q, i) # {}
                                           /\ d \in destinationToSubId[i]
                                           /\ i = c \/ job[i] = Idle},
                    seen |-> frames, served |-> {},
                    over |-> {i \in Conns : /\ shouldTerminate[i] /\ job[i] = Idle
                                            /\ d \notin late[i]}])
    /\ UNCHANGED <<accounts, activeClients, channels, counterMessageId,
                   protocols, frames>>

NextSubscriber(c) ==
    /\ job[c].at = "loop"
    /\ job[c].next.cell # 0
    /\ Goes(c, [job[c] EXCEPT !.at = "client", !.subscriber = job[c].next.element,
                              !.next = NextAfter(job[c].queue, job[c].next.cell)])
    /\ UNCHANGED <<accounts, activeClients, channels, counterMessageId,
                   protocols, frames>>

EndSend(c) ==
    /\ job[c].at = "loop"
    /\ job[c].next.cell = 0
    /\ Goes(c, Idle)
    /\ UNCHANGED <<accounts, activeClients, channels, counterMessageId,
                   protocols, frames>>

\* A NullPointerException: in the reactor it ends the task, in the server with a
\* thread per client the thread of the connection, which nothing cleans up after.
Dies(c) == Goes(c, Idle) \/ Goes(c, Dead)

\* getActiveClients().get(subscriber).getProtocol()
GetActiveClient(c) ==
    /\ job[c].at = "client"
    /\ IF job[c].subscriber \in activeClients
       THEN Goes(c, [job[c] EXCEPT !.at = "subscriptionId"])
       ELSE Dies(c)
    /\ UNCHANGED <<accounts, activeClients, channels, counterMessageId,
                   protocols, frames>>

GetSubscriptionId(c) ==
    /\ job[c].at = "subscriptionId"
    /\ Goes(c, [job[c] EXCEPT !.at =
            IF job[c].dest \in destinationToSubId[job[c].subscriber] THEN "send" ELSE "loop"])
    /\ UNCHANGED <<accounts, activeClients, channels, counterMessageId,
                   protocols, frames>>

\* ConnectionsImpl.send: containsKey ...
Send(c) ==
    /\ job[c].at = "send"
    /\ Goes(c, [job[c] EXCEPT !.at =
            IF job[c].subscriber \in activeClients THEN "handler" ELSE "loop"])
    /\ UNCHANGED <<accounts, activeClients, channels, counterMessageId,
                   protocols, frames>>

\* ... and get.  The MESSAGE may be followed by a RECEIPT, sent in the same way.
SendToHandler(c) ==
    /\ job[c].at = "handler"
    /\ IF job[c].subscriber \in activeClients
       THEN \E next \in {"send", "loop"} :
               /\ next = "send" => job[c].subscriber \notin job[c].served
               /\ Goes(c, [job[c] EXCEPT !.at = next, !.served = @ \cup {job[c].subscriber}])
       ELSE Dies(c)
    /\ UNCHANGED <<accounts, activeClients, channels, counterMessageId,
                   protocols, frames>>

-----------------------------------------------------------------------------
Init ==
    /\ users = <<>>
    /\ activeUsers = [c \in Conns |-> 0]
    /\ activeClients = Conns
    /\ chanelSubscription = [d \in Destinations |-> 0]
    /\ queues = <<>>
    /\ counterMessageId = 0
    /\ destinationToSubId = [c \in Conns |-> {}]
    /\ shouldTerminate = [c \in Conns |-> FALSE]
    /\ job = [c \in Conns |-> Idle]
    /\ frames = [c \in Conns |-> 0]
    /\ late = [c \in Conns |-> {}]
    /\ stranded = {}

Connect(c) == UserIsExists(c) \/ IsLoggedIn(c) \/ ConnectKnown(c) \/ ConnectNew(c)

Subscribe(c) ==
    \/ \E d \in Destinations : HoldDestination(c, d)
    \/ LookForQueue(c) \/ PutQueue(c) \/ GetQueue(c) \/ AddToQueue(c)

Unsubscribe(c) == (\E d \in Destinations : GiveUpDestination(c, d)) \/ UnSubscribeClient(c)

Disconnect(c) ==
    \/ HandleDisconnect(c) \/ SendError(c)
    \/ DisconnectUser(c) \/ RemoveClient(c) \/ RemoveFromChanels(c)

SendFrame(c) ==
    \/ \E d \in Destinations : HandleSend(c, d)
    \/ IncrementCounterMessageId(c) \/ GetSubscribers(c)
    \/ NextSubscriber(c) \/ EndSend(c)
    \/ GetActiveClient(c) \/ GetSubscriptionId(c) \/ Send(c) \/ SendToHandler(c)

Handler(c) == Connect(c) \/ Subscribe(c) \/ Unsubscribe(c) \/ Disconnect(c) \/ SendFrame(c)

Next == \E c \in Conns : Handler(c)

Spec == Init /\ [][Next]_vars

-----------------------------------------------------------------------------
(* Properties                                                               *)

\* The variables hold the values their Java types allow, and a handler waits for
\* nothing that is not there: an index it has read is that of an object.
TypeOK ==
    /\ users \in Seq([userName : Names, isLoggedIn : BOOLEAN])
    /\ activeUsers \in [Conns -> 0..Len(users)]
    /\ activeClients \subseteq Conns
    /\ chanelSubscription \in [Destinations -> 0..Len(queues)]
    /\ queues \in Seq(Seq(Conns \cup {None}))
    /\ counterMessageId \in Nat
    /\ destinationToSubId \in [Conns -> SUBSET Destinations]
    /\ shouldTerminate \in [Conns -> BOOLEAN]
    /\ late \in [Conns -> SUBSET Destinations]
    /\ stranded \subseteq DOMAIN users
    /\ frames \in [Conns -> 0..MaxFrames]
    /\ \A c \in Conns :
        /\ job[c].at \in {"check", "connect"} => job[c].user \in 0..Len(users)
        /\ job[c].at \in {"add", "loop"} => job[c].queue \in DOMAIN queues

\* Between two frames of a connection, the queue of a channel agrees with what it asked for,
\* whatever the handlers of the others were doing meanwhile: it is queued once if its own
\* map holds the destination and not at all otherwise.  Its end takes it out of all queues,
\* and only a SUBSCRIBE that is handled after that puts it in again.  The only exception
\* is a subscription that went into a queue that another one has replaced.
Wanted(c) == IF shouldTerminate[c] THEN late[c] ELSE destinationToSubId[c]
QueuedOnce ==
    \A c \in Conns, d \in Destinations :
        LET q == chanelSubscription[d]
            queued == IF q = 0 THEN 0 ELSE Cardinality(Live(q, c))
        IN  job[c] = Idle =>
                /\ queued <= 1
                /\ d \notin Wanted(c) => queued = 0
                /\ d \in Wanted(c) /\ queued = 0 =>
                        \E lost \in 1..(q - 1) : Live(lost, c) # {}

\* A queue can be replaced only while the first subscribers of its channel overlap:
\* once the channel has a queue and no SUBSCRIBE has still to put one, it keeps that
\* queue for good, and no subscription to it is lost any more.
Settled(d) ==
    /\ chanelSubscription[d] # 0
    /\ \A c \in Conns : job[c].at = "put" => job[c].dest # d
ChannelStaysSettled ==
    [][\A d \in Destinations : Settled(d) =>
            Settled(d)' /\ chanelSubscription'[d] = chanelSubscription[d]]_vars

\* A SEND whose loop comes to its end has served every subscriber that was queued when
\* it began and has not had a frame handled since, although others subscribed,
\* unsubscribed and ended under its iterator.
SteadySubscribersServed ==
    [][\A c \in Conns : job[c].at = "loop" /\ job'[c] = Idle =>
            \A i \in job[c].due : frames[i] = job[c].seen[i] => i \in job[c].served]_vars

\* The exception that ends a SEND before all subscribers are served needs a connection
\* that is just being ended, or one that has subscribed to the channel after its end: none
\* that had ended before the loop, and done nothing since, can cause it.
DiesOnlyByOverlap ==
    [][\A c \in Conns : job[c].at \in {"client", "handler"} /\ job'[c] \in {Idle, Dead} =>
            LET i == job[c].subscriber
            IN  ~ (i \in job[c].over /\ frames[i] = job[c].seen[i])]_vars

\* An account that is logged in can be logged out: some connection that has not ended has
\* it in activeUsers, so that the end of that connection sets it free, also when several
\* connections got into the account at the same time.  There are two exceptions: an
\* account that its connection left for another by a second CONNECT, and one that was
\* entered by a connection after its end.
LoggedInHasSession ==
    \A u \in DOMAIN users : users[u].isLoggedIn /\ u \notin stranded =>
        \E c \in Conns : /\ activeUsers[c] = u
                        /\ (~shouldTerminate[c] \/ job[c].at = "logout")

-----------------------------------------------------------------------------
(* What the texts of the repository say and the code does not keep.         *)

\* A user is logged in from one client at a time: handleConnect means to "check if the
\* user is already logged in throught another client".
Session(c) == IF activeUsers[c] = 0 THEN None ELSE users[activeUsers[c]].userName
Exclusive == INSTANCE UserSessions WITH session <- [c \in Conns |-> Session(c)]
ImplementsUserSessions == Exclusive!Spec
=============================================================================
