--------------------------- MODULE StompBrokerProofs ---------------------------
(***************************************************************************)
(* Proofs about StompBroker, for any number of connections, accounts,      *)
(* destinations and subscription ids.                                      *)
(***************************************************************************)
EXTENDS StompBroker, TLAPS

\* The step a handler takes when it sends an ERROR, whatever the reason.
Fails(c) == \E message : SendError(c, message)

\* A CONNECT that logs the connection in.
LogsIn(c, login, passcode) ==
    /\ \/ \E u \in DOMAIN users :
            /\ IsAccountOf(u, login)
            /\ passcode = users[u].passcode
            /\ ~users[u].isLoggedIn
            /\ ConnectKnown(c, u)
       \/ NoAccount(login) /\ ConnectNew(c, login, passcode)
    /\ \E receipt : out' = Send(c, {Connected} \cup OptionalReceipt(receipt))
    /\ UNCHANGED <<countUniqeID, openChans, counterMessageId, shouldTerminate,
                   subscriptions>>

\* A SEND that reaches the subscribers.
Publishes(c, d) ==
    /\ counterMessageId < MaxMessages
    /\ counterMessageId' = counterMessageId + 1
    /\ \E reached \in Reached(d) : \E receipt :
            out' = UNION {DeliverTo(i, d, receipt) : i \in reached}
    /\ UNCHANGED <<countUniqeID, openChans, registry, shouldTerminate, subscriptions>>

\* A SUBSCRIBE to a destination the connection did not hold.
Joins(c, d, s) ==
    /\ subIdToDestination[c][s] = NULL
    /\ destinationToSubId[c][d] = NULL
    /\ destinationToSubId' = [destinationToSubId EXCEPT ![c][d] = s]
    /\ subIdToDestination' = [subIdToDestination EXCEPT ![c][s] = d]
    /\ chanelSubscription' = SubscribeClient(c, d)
    /\ \E receipt : out' = Send(c, {Receipt(receipt)})
    /\ UNCHANGED <<countUniqeID, openChans, activeClients, users, activeUsers,
                   counterMessageId, shouldTerminate>>

\* An UNSUBSCRIBE of the destination d that the id s stands for.
Leaves(c, d, s) ==
    /\ d # NULL
    /\ d = subIdToDestination[c][s]
    /\ destinationToSubId' = [destinationToSubId EXCEPT ![c][d] = NULL]
    /\ subIdToDestination' = [subIdToDestination EXCEPT ![c][s] = NULL]
    /\ chanelSubscription' = UnSubscribeClient(c, d)
    /\ \E receipt : out' = Send(c, {Receipt(receipt)})
    /\ UNCHANGED <<countUniqeID, openChans, activeClients, users, activeUsers,
                   counterMessageId, shouldTerminate>>

\* A step that changes neither the registry nor a protocol object, and sends
\* nothing to anyone but c.
Idles(c) ==
    /\ \E frames : out' = Send(c, frames)
    /\ UNCHANGED <<countUniqeID, registry, counterMessageId, shouldTerminate, subscriptions>>
    /\ openChans' \subseteq openChans

-----------------------------------------------------------------------------
(* Every step of the broker is one of these kinds.                           *)
LEMMA StepKinds ==
    ASSUME TypeOK, Next
    PROVE  \/ HandleAccept
           \/ \E c \in Accepted :
                \/ Fails(c)
                \/ Idles(c)
                \/ \E receipt : HandleDisconnect(c, receipt)
                \/ \E login \in Names, passcode \in Passcodes : LogsIn(c, login, passcode)
                \/ \E d \in Destinations : Publishes(c, d)
                \/ \E d \in Destinations, s \in SubIds : Joins(c, d, s)
                \/ \E d \in Destinations, s \in SubIds : Leaves(c, d, s)
<1>1. CASE HandleAccept
  BY <1>1
<1>2. CASE \E c \in Accepted : Close(c)
  <2>1. PICK c \in Accepted : Close(c)
    BY <1>2
  <2>2. out' = Send(c, {})
    BY <2>1 DEF Close, Send
  <2>3. Idles(c)
    BY <2>1, <2>2 DEF Close, Idles
  <2> QED
    BY <2>3
<1>3. CASE \E c \in Accepted : ProcessFrame(c)
  <2>1. PICK c \in Accepted : ProcessFrame(c)
    BY <1>3
  <2>2. CASE HandleMalformedConnect(c)
    BY <2>2 DEF HandleMalformedConnect, Fails
  <2>3. ASSUME NEW login \in Names, NEW passcode \in Passcodes,
               NEW receipt \in OrNull(Receipts),
               HandleConnect(c, login, passcode, receipt)
        PROVE  Fails(c) \/ LogsIn(c, login, passcode)
    <3>1. CASE \E message : SendError(c, message)
      BY <3>1 DEF Fails
    <3>2. CASE ~ \E message : SendError(c, message)
      BY <2>3, <3>2 DEF HandleConnect, LogsIn
    <3> QED
      BY <3>1, <3>2
  <2>4. CASE HandleSendWithoutDestination(c)
    <3>1. out' = Send(c, {})
      BY <2>4 DEF HandleSendWithoutDestination, Send
    <3>2. Idles(c)
      BY <2>4, <3>1 DEF HandleSendWithoutDestination, Idles
    <3> QED
      BY <3>2
  <2>5. ASSUME NEW destination \in Destinations, NEW receipt \in OrNull(Receipts),
               HandleSend(c, destination, receipt)
        PROVE  Fails(c) \/ \E d \in Destinations : Publishes(c, d)
    <3>1. StripSlash[destination] \in Destinations
      BY BrokerAssumption
    <3>2. CASE destinationToSubId[c][StripSlash[destination]] = NULL
      BY <2>5, <3>2 DEF HandleSend, Fails
    <3>3. CASE destinationToSubId[c][StripSlash[destination]] # NULL
      <4>1. Publishes(c, StripSlash[destination])
        BY <2>5, <3>3 DEF HandleSend, Publishes
      <4> QED
        BY <3>1, <4>1
    <3> QED
      BY <3>2, <3>3
  <2>6. CASE HandleMalformedSubscribe(c)
    BY <2>6 DEF HandleMalformedSubscribe, Fails
  <2>7. ASSUME NEW destination \in Destinations, NEW subId \in SubIds,
               NEW receipt \in Receipts,
               HandleSubscribe(c, destination, subId, receipt)
        PROVE  Fails(c) \/ Joins(c, destination, subId) \/ Idles(c)
    <3>1. CASE subIdToDestination[c][subId] # NULL
      BY <2>7, <3>1 DEF HandleSubscribe, Fails
    <3>2. CASE subIdToDestination[c][subId] = NULL /\ destinationToSubId[c][destination] = NULL
      BY <2>7, <3>2 DEF HandleSubscribe, Joins
    <3>3. CASE subIdToDestination[c][subId] = NULL /\ destinationToSubId[c][destination] # NULL
      BY <2>7, <3>3 DEF HandleSubscribe, Idles, registry, subscriptions
    <3> QED
      BY <3>1, <3>2, <3>3
  <2>8. CASE HandleMalformedUnsubscribe(c)
    BY <2>8 DEF HandleMalformedUnsubscribe, Fails
  <2>9. ASSUME NEW subId \in SubIds, NEW receipt \in Receipts,
               HandleUnsubscribe(c, subId, receipt)
        PROVE  Fails(c) \/ \E d \in Destinations : Leaves(c, d, subId)
    <3>1. CASE subIdToDestination[c][subId] = NULL
      BY <2>9, <3>1 DEF HandleUnsubscribe, Fails
    <3>2. CASE subIdToDestination[c][subId] # NULL
      <4>1. c \in Ids
        BY BrokerAssumption DEF TypeOK, Accepted, Ids
      <4>2. subIdToDestination[c][subId] \in Destinations
        BY <3>2, <4>1 DEF TypeOK, OrNull
      <4>3. Leaves(c, subIdToDestination[c][subId], subId)
        BY <2>9, <3>2 DEF HandleUnsubscribe, Leaves
      <4> QED
        BY <4>2, <4>3
    <3> QED
      BY <3>1, <3>2
  <2>10. CASE HandleUnknown(c)
    BY <2>10 DEF HandleUnknown, Fails
  <2> QED
    BY <2>1, <2>2, <2>3, <2>4, <2>5, <2>6, <2>7, <2>8, <2>9, <2>10 DEF ProcessFrame
<1> QED
  BY <1>1, <1>2, <1>3 DEF Next

-----------------------------------------------------------------------------
(* What disconnect does to the accounts and to the channels.                 *)

\* Logging a connection out keeps the list of accounts and their names, and
\* changes no other account than the connection's own.
LEMMA DisconnectUserFacts ==
    ASSUME TypeOK, NEW c \in Ids
    PROVE  /\ DisconnectUser(c) \in Seq(User)
           /\ Len(DisconnectUser(c)) = Len(users)
           /\ \A u \in 1..Len(users) :
                /\ DisconnectUser(c)[u].userName = users[u].userName
                /\ u # activeUsers[c] => DisconnectUser(c)[u] = users[u]
<1>1. users \in Seq(User) /\ Len(users) \in Nat /\ activeUsers[c] \in 0..Len(users)
  BY DEF TypeOK
<1>2. CASE activeUsers[c] = 0
  BY <1>1, <1>2 DEF DisconnectUser
<1>3. CASE activeUsers[c] # 0
  <2>1. PICK a \in 1..Len(users) : a = activeUsers[c]
    BY <1>1, <1>3
  <2>2. [users[a] EXCEPT !.isLoggedIn = FALSE, !.connectionId = -1] \in User
    <3>1. users[a] \in User
      BY <1>1, <2>1
    <3> QED
      BY <3>1 DEF User
  <2>3. DisconnectUser(c)
          = [users EXCEPT ![a] = [users[a] EXCEPT !.isLoggedIn = FALSE, !.connectionId = -1]]
    BY <1>1, <1>3, <2>1 DEF DisconnectUser, User
  <2>4. users[a].userName
          = [users[a] EXCEPT !.isLoggedIn = FALSE, !.connectionId = -1].userName
    BY <1>1, <2>1 DEF User
  <2> DEFINE loggedOut == [users[a] EXCEPT !.isLoggedIn = FALSE, !.connectionId = -1]
  <2>5. loggedOut \in User /\ loggedOut.userName = users[a].userName /\ DisconnectUser(c) = [users EXCEPT ![a] = loggedOut]
    BY <2>2, <2>3, <2>4
  <2> HIDE DEF loggedOut
  <2> QED
    BY <1>1, <2>1, <2>5
<1> QED
  BY <1>2, <1>3

\* After disconnect the connection is queued in no channel and the others are
\* queued as they were, as long as no connection was queued twice.
LEMMA RemoveFromChanelsFacts ==
    ASSUME TypeOK, NEW c \in Ids
    PROVE  /\ RemoveFromChanels(c) \in [Destinations -> [Ids -> Nat]]
           /\ \A d \in Destinations, i \in Ids :
                 RemoveFromChanels(c)[d][i] =
                    IF i # c THEN chanelSubscription[d][i]
                    ELSE IF chanelSubscription[d][i] > 0
                         THEN chanelSubscription[d][i] - 1 ELSE 0
BY DEF TypeOK, RemoveFromChanels, RemoveFromQueue

-----------------------------------------------------------------------------
(* Type correctness.                                                         *)

LEMMA TypeOKInit == Init => TypeOK
BY BrokerAssumption DEF Init, TypeOK, Accepted, Ids, OrNull

\* disconnect keeps the types of what it changes.
LEMMA DisconnectType ==
    ASSUME TypeOK, NEW c \in Ids, Disconnect(c), UNCHANGED countUniqeID
    PROVE  /\ activeClients' \subseteq Accepted'
           /\ chanelSubscription' \in [Destinations -> [Ids -> Nat]]
           /\ users' \in Seq(User)
           /\ activeUsers' \in [Ids -> 0..Len(users')]
<1>1. activeClients' \subseteq Accepted'
  BY DEF TypeOK, Disconnect, Accepted
<1>2. chanelSubscription' \in [Destinations -> [Ids -> Nat]]
  BY RemoveFromChanelsFacts DEF Disconnect
<1>3. users' \in Seq(User) /\ Len(users') = Len(users)
  BY DisconnectUserFacts DEF Disconnect
<1>4. activeUsers' \in [Ids -> 0..Len(users')]
  BY <1>3 DEF TypeOK, Disconnect
<1> QED
  BY <1>1, <1>2, <1>3, <1>4

LEMMA TypeOKStep == TypeOK /\ [Next]_vars => TypeOK'
<1> SUFFICES ASSUME TypeOK, [Next]_vars PROVE TypeOK'
  OBVIOUS
<1> Accepted \subseteq Ids
  BY BrokerAssumption DEF TypeOK, Accepted, Ids
<1>1. CASE UNCHANGED vars
  BY <1>1 DEF TypeOK, vars, registry, subscriptions, Accepted
<1>2. CASE HandleAccept
  BY <1>2, BrokerAssumption DEF TypeOK, HandleAccept, Accepted, subscriptions
<1>3. ASSUME NEW c \in Accepted, Fails(c) PROVE TypeOK'
  <2>1. PICK message : SendError(c, message)
    BY <1>3 DEF Fails
  <2>2. Disconnect(c) /\ UNCHANGED countUniqeID
    BY <2>1 DEF SendError
  <2>3. /\ UNCHANGED <<openChans, counterMessageId, subIdToDestination, destinationToSubId>>
        /\ shouldTerminate' = [shouldTerminate EXCEPT ![c] = TRUE]
    BY <2>1 DEF SendError, subscriptions
  <2> QED
    BY <2>2, <2>3, DisconnectType DEF TypeOK, Accepted
<1>4. ASSUME NEW c \in Accepted, Idles(c) PROVE TypeOK'
  BY <1>4 DEF TypeOK, Idles, registry, subscriptions, Accepted
<1>5. ASSUME NEW c \in Accepted, NEW receipt, HandleDisconnect(c, receipt) PROVE TypeOK'
  <2>1. /\ Disconnect(c) /\ ClearSubscriptions(c)
        /\ UNCHANGED <<countUniqeID, openChans, counterMessageId>>
        /\ shouldTerminate' = [shouldTerminate EXCEPT ![c] = TRUE]
    BY <1>5 DEF HandleDisconnect
  <2>2. /\ subIdToDestination' \in [Ids -> [SubIds -> OrNull(Destinations)]]
        /\ destinationToSubId' \in [Ids -> [Destinations -> OrNull(SubIds)]]
    BY <2>1 DEF TypeOK, ClearSubscriptions, OrNull
  <2> QED
    BY <2>1, <2>2, DisconnectType DEF TypeOK, Accepted
<1>6. ASSUME NEW c \in Accepted, NEW login \in Names, NEW passcode \in Passcodes,
             LogsIn(c, login, passcode)
      PROVE  TypeOK'
  <2>1. /\ UNCHANGED <<countUniqeID, openChans, counterMessageId, shouldTerminate,
                       subIdToDestination, destinationToSubId, activeClients,
                       chanelSubscription>>
    BY <1>6 DEF LogsIn, subscriptions, ConnectKnown, ConnectNew
  <2>2. users' \in Seq(User) /\ activeUsers' \in [Ids -> 0..Len(users')]
    <3>1. CASE \E u \in DOMAIN users : ConnectKnown(c, u)
      <4>1. PICK u \in 1..Len(users) : ConnectKnown(c, u)
        BY <3>1 DEF TypeOK
      <4>2. [users[u] EXCEPT !.isLoggedIn = TRUE, !.connectionId = c] \in User
        <5>1. users[u] \in User /\ c \in Ids
          BY DEF TypeOK
        <5> QED
          BY <5>1 DEF User
      <4>3. users' = [users EXCEPT
                        ![u] = [users[u] EXCEPT !.isLoggedIn = TRUE, !.connectionId = c]]
        BY <4>1 DEF ConnectKnown, TypeOK, User
      <4>4. users' \in Seq(User) /\ Len(users') = Len(users)
        BY <4>2, <4>3 DEF TypeOK
      <4>5. activeUsers' = [activeUsers EXCEPT ![c] = u]
        BY <4>1 DEF ConnectKnown
      <4> QED
        BY <4>4, <4>5 DEF TypeOK
    <3>2. CASE ConnectNew(c, login, passcode)
      <4> DEFINE account == [userName |-> login, passcode |-> passcode,
                             isLoggedIn |-> TRUE, connectionId |-> c]
      <4>1. account \in User
        BY DEF User
      <4>2. users' = Append(users, account)
        BY <3>2 DEF ConnectNew
      <4> HIDE DEF account
      <4>3. users' \in Seq(User) /\ Len(users') = Len(users) + 1 /\ Len(users) \in Nat
        BY <4>1, <4>2 DEF TypeOK
      <4>4. activeUsers' = [activeUsers EXCEPT ![c] = Len(users) + 1]
        BY <3>2 DEF ConnectNew
      <4> QED
        BY <4>3, <4>4 DEF TypeOK
    <3> QED
      BY <1>6, <3>1, <3>2 DEF LogsIn
  <2> QED
    BY <2>1, <2>2 DEF TypeOK, Accepted
<1>7. ASSUME NEW c \in Accepted, NEW d \in Destinations, Publishes(c, d) PROVE TypeOK'
  BY <1>7, BrokerAssumption DEF TypeOK, Publishes, registry, subscriptions, Accepted
<1>8. ASSUME NEW c \in Accepted, NEW d \in Destinations, NEW s \in SubIds, Joins(c, d, s)
      PROVE  TypeOK'
  <2>1. /\ destinationToSubId' = [destinationToSubId EXCEPT ![c][d] = s]
        /\ subIdToDestination' = [subIdToDestination EXCEPT ![c][s] = d]
        /\ chanelSubscription' = [chanelSubscription EXCEPT ![d][c] = @ + 1]
        /\ UNCHANGED <<countUniqeID, openChans, activeClients, users, activeUsers,
                       counterMessageId, shouldTerminate>>
    BY <1>8 DEF Joins, SubscribeClient
  <2>2. /\ chanelSubscription \in [Destinations -> [Ids -> Nat]]
        /\ subIdToDestination \in [Ids -> [SubIds -> OrNull(Destinations)]]
        /\ destinationToSubId \in [Ids -> [Destinations -> OrNull(SubIds)]]
        /\ c \in Ids
    BY BrokerAssumption DEF TypeOK, Accepted, Ids
  <2>3. chanelSubscription' \in [Destinations -> [Ids -> Nat]]
    BY ONLY <2>1, <2>2
  <2>4. subIdToDestination' \in [Ids -> [SubIds -> OrNull(Destinations)]]
    BY <2>1, <2>2 DEF OrNull
  <2>5. destinationToSubId' \in [Ids -> [Destinations -> OrNull(SubIds)]]
    BY <2>1, <2>2 DEF OrNull
  <2>6. /\ countUniqeID' \in 0..MaxConnections /\ counterMessageId' \in 0..MaxMessages
        /\ activeClients' \subseteq Accepted' /\ openChans' \subseteq Accepted'
        /\ users' \in Seq(User) /\ activeUsers' \in [Ids -> 0..Len(users')]
        /\ shouldTerminate' \in [Ids -> BOOLEAN]
    BY <2>1, Zenon DEF TypeOK, Accepted
  <2> QED
    BY <2>3, <2>4, <2>5, <2>6, Zenon DEF TypeOK
<1>9. ASSUME NEW c \in Accepted, NEW d \in Destinations, NEW s \in SubIds, Leaves(c, d, s)
      PROVE  TypeOK'
  BY <1>9 DEF TypeOK, Leaves, UnSubscribeClient, RemoveFromQueue, OrNull, Accepted
<1> QED
  <2>1. CASE Next
    BY <2>1, <1>2, <1>3, <1>4, <1>5, <1>6, <1>7, <1>8, <1>9, StepKinds, Zenon
  <2> QED
    BY <1>1, <2>1

\* Every variable of the broker keeps the type its Java declaration gives it: in
\* particular an index in activeUsers always finds its User object.
THEOREM TypeCorrect == Spec => []TypeOK
BY TypeOKInit, TypeOKStep, PTL DEF Spec

-----------------------------------------------------------------------------
(* The two maps of a protocol object.                                        *)

LEMMA MapsInverseStep == TypeOK /\ MapsInverse /\ [Next]_vars => MapsInverse'
<1> SUFFICES ASSUME TypeOK, MapsInverse, [Next]_vars PROVE MapsInverse'
  OBVIOUS
<1> USE BrokerAssumption
<1> Accepted \subseteq Ids
  BY DEF TypeOK, Accepted, Ids
<1>1. CASE UNCHANGED subscriptions
  BY <1>1 DEF MapsInverse, subscriptions
<1>2. CASE HandleAccept
  BY <1>1, <1>2 DEF HandleAccept
<1>3. ASSUME NEW c \in Accepted, Fails(c) PROVE MapsInverse'
  BY <1>1, <1>3 DEF Fails, SendError
<1>4. ASSUME NEW c \in Accepted, Idles(c) PROVE MapsInverse'
  BY <1>1, <1>4 DEF Idles
<1>5. ASSUME NEW c \in Accepted, NEW receipt, HandleDisconnect(c, receipt)
      PROVE  MapsInverse'
  <2>1. ClearSubscriptions(c)
    BY <1>5 DEF HandleDisconnect
  <2> QED
    BY <2>1 DEF ClearSubscriptions, MapsInverse, TypeOK
<1>6. ASSUME NEW c \in Accepted, NEW login \in Names, NEW passcode \in Passcodes,
             LogsIn(c, login, passcode)
      PROVE  MapsInverse'
  BY <1>1, <1>6 DEF LogsIn
<1>7. ASSUME NEW c \in Accepted, NEW d \in Destinations, Publishes(c, d) PROVE MapsInverse'
  BY <1>1, <1>7 DEF Publishes
<1>8. ASSUME NEW c \in Accepted, NEW d \in Destinations, NEW s \in SubIds, Joins(c, d, s)
      PROVE  MapsInverse'
  BY <1>8 DEF Joins, MapsInverse, TypeOK
<1>9. ASSUME NEW c \in Accepted, NEW d \in Destinations, NEW s \in SubIds, Leaves(c, d, s)
      PROVE  MapsInverse'
  BY <1>9 DEF Leaves, MapsInverse, TypeOK
<1> QED
  <2>1. CASE Next
    BY <2>1, <1>2, <1>3, <1>4, <1>5, <1>6, <1>7, <1>8, <1>9, StepKinds, Zenon
  <2>2. CASE UNCHANGED vars
    BY <2>2, <1>1 DEF vars
  <2> QED
    BY <2>1, <2>2

\* The two subscription maps of a protocol object always invert each other, for
\* any sequence of frames on any connections.
THEOREM MapsAlwaysInverse == Spec => []MapsInverse
<1>1. Init => MapsInverse
  BY BrokerAssumption DEF Init, MapsInverse
<1> QED
  BY <1>1, TypeOKInit, TypeOKStep, MapsInverseStep, PTL DEF Spec

-----------------------------------------------------------------------------
(* The registry's queues against the protocol objects' maps.                 *)

LEMMA QueuedAtMostOnce ==
    ASSUME TypeOK, SubscriptionsMatch, NEW c \in Ids, NEW d \in Destinations
    PROVE  chanelSubscription[d][c] \in {0, 1}
<1> DEFINE held == IF destinationToSubId[c][d] = NULL THEN 0 ELSE 1
<1>1. chanelSubscription[d][c] <= held
  BY DEF SubscriptionsMatch
<1>2. chanelSubscription[d][c] \in Nat
  BY DEF TypeOK
<1> QED
  BY <1>1, <1>2

LEMMA SubscriptionsMatchStep ==
    TypeOK /\ MapsInverse /\ SubscriptionsMatch /\ [Next]_vars => SubscriptionsMatch'
<1> SUFFICES ASSUME TypeOK, MapsInverse, SubscriptionsMatch, [Next]_vars
             PROVE  SubscriptionsMatch'
  OBVIOUS
<1> USE BrokerAssumption
<1> Accepted \subseteq Ids
  BY DEF TypeOK, Accepted, Ids
<1>1. CASE UNCHANGED <<chanelSubscription, destinationToSubId, shouldTerminate>>
  BY <1>1 DEF SubscriptionsMatch
<1>2. CASE HandleAccept
  BY <1>1, <1>2 DEF HandleAccept, subscriptions
<1>3. ASSUME NEW c \in Accepted, Fails(c) PROVE SubscriptionsMatch'
  <2>1. /\ chanelSubscription' = RemoveFromChanels(c)
        /\ UNCHANGED destinationToSubId
        /\ shouldTerminate' = [shouldTerminate EXCEPT ![c] = TRUE]
    BY <1>3 DEF Fails, SendError, Disconnect, subscriptions
  <2> QED
    BY <2>1, RemoveFromChanelsFacts DEF SubscriptionsMatch, TypeOK
<1>4. ASSUME NEW c \in Accepted, Idles(c) PROVE SubscriptionsMatch'
  BY <1>1, <1>4 DEF Idles, registry, subscriptions
<1>5. ASSUME NEW c \in Accepted, NEW receipt, HandleDisconnect(c, receipt)
      PROVE  SubscriptionsMatch'
  <2>1. /\ chanelSubscription' = RemoveFromChanels(c)
        /\ destinationToSubId' =
              [destinationToSubId EXCEPT ![c] = [d \in Destinations |-> NULL]]
        /\ shouldTerminate' = [shouldTerminate EXCEPT ![c] = TRUE]
    BY <1>5 DEF HandleDisconnect, Disconnect, ClearSubscriptions
  <2>2. \A d \in Destinations : chanelSubscription'[d][c] = 0
    <3> SUFFICES ASSUME NEW d \in Destinations PROVE chanelSubscription'[d][c] = 0
      OBVIOUS
    <3>1. chanelSubscription[d][c] \in {0, 1}
      BY QueuedAtMostOnce
    <3> QED
      BY <2>1, <3>1, RemoveFromChanelsFacts
  <2> QED
    BY <2>1, <2>2, RemoveFromChanelsFacts DEF SubscriptionsMatch, TypeOK
<1>6. ASSUME NEW c \in Accepted, NEW login \in Names, NEW passcode \in Passcodes,
             LogsIn(c, login, passcode)
      PROVE  SubscriptionsMatch'
  BY <1>1, <1>6 DEF LogsIn, ConnectKnown, ConnectNew, subscriptions
<1>7. ASSUME NEW c \in Accepted, NEW d \in Destinations, Publishes(c, d)
      PROVE  SubscriptionsMatch'
  BY <1>1, <1>7 DEF Publishes, registry, subscriptions
<1>8. ASSUME NEW c \in Accepted, NEW d \in Destinations, NEW s \in SubIds, Joins(c, d, s)
      PROVE  SubscriptionsMatch'
  BY <1>8 DEF Joins, SubscribeClient, SubscriptionsMatch, TypeOK
<1>9. ASSUME NEW c \in Accepted, NEW d \in Destinations, NEW s \in SubIds, Leaves(c, d, s)
      PROVE  SubscriptionsMatch'
  <2>1. destinationToSubId[c][d] = s
    BY <1>9 DEF Leaves, MapsInverse
  <2>2. chanelSubscription[d][c] \in {0, 1}
    BY QueuedAtMostOnce
  <2> QED
    BY <1>9, <2>1, <2>2 DEF Leaves, UnSubscribeClient, RemoveFromQueue,
                            SubscriptionsMatch, TypeOK
<1> QED
  <2>1. CASE Next
    BY <2>1, <1>2, <1>3, <1>4, <1>5, <1>6, <1>7, <1>8, <1>9, StepKinds, Zenon
  <2>2. CASE UNCHANGED vars
    BY <2>2, <1>1 DEF vars, registry, subscriptions
  <2> QED
    BY <2>1, <2>2

\* A connection is queued in a channel at most once and only for a destination
\* that its protocol object holds; until it is terminated, exactly then.
THEOREM SubscriptionsAlwaysMatch == Spec => []SubscriptionsMatch
<1>1. Init => MapsInverse /\ SubscriptionsMatch
  BY BrokerAssumption DEF Init, MapsInverse, SubscriptionsMatch
<1> QED
  BY <1>1, TypeOKInit, TypeOKStep, MapsInverseStep, SubscriptionsMatchStep, PTL DEF Spec

-----------------------------------------------------------------------------
(* Sessions and accounts.                                                    *)

Sessions == SessionsExact /\ UniqueUserNames

\* Logging a connection out leaves the sessions of the others alone.
LEMMA DisconnectSessions ==
    ASSUME TypeOK, Sessions, NEW c \in Ids, Disconnect(c)
    PROVE  Sessions'
<1>1. /\ users' = DisconnectUser(c)
      /\ activeUsers' = [activeUsers EXCEPT ![c] = 0]
      /\ activeUsers \in [Ids -> 0..Len(users)]
      /\ users \in Seq(User)
      /\ users' \in Seq(User)
      /\ Len(users') = Len(users)
  BY DisconnectUserFacts DEF Disconnect, TypeOK
<1>2. \A u \in 1..Len(users) :
         /\ users'[u].userName = users[u].userName
         /\ u # activeUsers[c] => users'[u] = users[u]
  BY DisconnectUserFacts, <1>1
<1>3. SessionsExact'
  <2> SUFFICES ASSUME NEW i \in Ids, activeUsers'[i] # 0
               PROVE  /\ users'[activeUsers'[i]].isLoggedIn
                      /\ users'[activeUsers'[i]].connectionId = i
    BY DEF SessionsExact
  <2>1. i # c /\ activeUsers'[i] = activeUsers[i] /\ activeUsers[i] \in 1..Len(users)
    BY <1>1
  <2>2. activeUsers[i] # activeUsers[c]
    BY <2>1 DEF Sessions, SessionsExact
  <2> QED
    BY <1>2, <2>1, <2>2 DEF Sessions, SessionsExact
<1>4. UniqueUserNames'
  <2>1. DOMAIN users = 1..Len(users) /\ DOMAIN users' = 1..Len(users)
    BY <1>1
  <2> QED
    BY <1>2, <2>1 DEF Sessions, UniqueUserNames
<1> QED
  BY <1>3, <1>4 DEF Sessions

LEMMA SessionsStep == TypeOK /\ Sessions /\ [Next]_vars => Sessions'
<1> SUFFICES ASSUME TypeOK, Sessions, [Next]_vars PROVE Sessions'
  OBVIOUS
<1> Accepted \subseteq Ids
  BY BrokerAssumption DEF TypeOK, Accepted, Ids
<1>1. CASE UNCHANGED <<users, activeUsers>>
  BY <1>1 DEF Sessions, SessionsExact, UniqueUserNames
<1>2. CASE HandleAccept
  BY <1>1, <1>2 DEF HandleAccept
<1>3. ASSUME NEW c \in Accepted, Fails(c) PROVE Sessions'
  BY <1>3, DisconnectSessions DEF Fails, SendError
<1>4. ASSUME NEW c \in Accepted, Idles(c) PROVE Sessions'
  BY <1>1, <1>4 DEF Idles, registry
<1>5. ASSUME NEW c \in Accepted, NEW receipt, HandleDisconnect(c, receipt) PROVE Sessions'
  BY <1>5, DisconnectSessions DEF HandleDisconnect
<1>6. ASSUME NEW c \in Accepted, NEW login \in Names, NEW passcode \in Passcodes,
             LogsIn(c, login, passcode)
      PROVE  Sessions'
  <2>1. ASSUME NEW u \in DOMAIN users, ~users[u].isLoggedIn, ConnectKnown(c, u)
        PROVE  Sessions'
    <3>1. /\ users \in Seq(User) /\ u \in 1..Len(users) /\ DOMAIN users = 1..Len(users)
          /\ activeUsers \in [Ids -> 0..Len(users)]
      BY DEF TypeOK
    <3> DEFINE account == [users[u] EXCEPT !.isLoggedIn = TRUE, !.connectionId = c]
    <3>2. users[u] \in User
      BY <3>1
    <3>3. /\ account.isLoggedIn = TRUE /\ account.connectionId = c
          /\ account.userName = users[u].userName
      BY <3>2 DEF User
    <3>4. users' = [users EXCEPT ![u] = account] /\ activeUsers' = [activeUsers EXCEPT ![c] = u]
      BY <2>1, <3>1, <3>2 DEF ConnectKnown, User
    <3> HIDE DEF account
    <3>5. SessionsExact'
      <4> SUFFICES ASSUME NEW i \in Ids, activeUsers'[i] # 0
                   PROVE  /\ users'[activeUsers'[i]].isLoggedIn
                          /\ users'[activeUsers'[i]].connectionId = i
        BY DEF SessionsExact
      <4>1. CASE i = c
        BY <3>1, <3>3, <3>4, <4>1
      <4>2. CASE i # c
        <5>1. activeUsers'[i] = activeUsers[i] /\ activeUsers[i] \in 1..Len(users)
          BY <3>1, <3>4, <4>2
        <5>2. activeUsers[i] # u
          BY <2>1, <5>1 DEF Sessions, SessionsExact
        <5> QED
          BY <3>1, <3>4, <5>1, <5>2 DEF Sessions, SessionsExact
      <4> QED
        BY <4>1, <4>2
    <3>6. UniqueUserNames'
      BY <3>1, <3>3, <3>4 DEF Sessions, UniqueUserNames
    <3> QED
      BY <3>5, <3>6 DEF Sessions
  <2>2. ASSUME NoAccount(login), ConnectNew(c, login, passcode)
        PROVE  Sessions'
    <3> DEFINE account == [userName |-> login, passcode |-> passcode,
                           isLoggedIn |-> TRUE, connectionId |-> c]
    <3>1. users' = Append(users, account) /\ activeUsers' = [activeUsers EXCEPT ![c] = Len(users) + 1]
      BY <2>2 DEF ConnectNew
    <3>2. account.isLoggedIn = TRUE /\ account.connectionId = c /\ account.userName = login
      OBVIOUS
    <3>3. account \in User
      BY DEF User
    <3> HIDE DEF account
    <3>4. /\ Len(users) \in Nat
          /\ Len(users') = Len(users) + 1
          /\ DOMAIN users = 1..Len(users)
          /\ DOMAIN users' = 1..(Len(users) + 1)
          /\ users'[Len(users) + 1] = account
          /\ \A u \in 1..Len(users) : users'[u] = users[u]
      BY <3>1, <3>3 DEF TypeOK
    <3>5. SessionsExact'
      <4> SUFFICES ASSUME NEW i \in Ids, activeUsers'[i] # 0
                   PROVE  /\ users'[activeUsers'[i]].isLoggedIn
                          /\ users'[activeUsers'[i]].connectionId = i
        BY DEF SessionsExact
      <4>1. activeUsers \in [Ids -> 0..Len(users)]
        BY DEF TypeOK
      <4>2. CASE i = c
        BY <3>1, <3>2, <3>4, <4>1, <4>2
      <4>3. CASE i # c
        <5>1. activeUsers'[i] = activeUsers[i] /\ activeUsers[i] \in 1..Len(users)
          BY <3>1, <3>4, <4>1, <4>3
        <5> QED
          BY <3>4, <5>1 DEF Sessions, SessionsExact
      <4> QED
        BY <4>2, <4>3
    <3>6. UniqueUserNames'
      BY <2>2, <3>2, <3>4 DEF NoAccount, Sessions, UniqueUserNames
    <3> QED
      BY <3>5, <3>6 DEF Sessions
  <2> QED
    BY <1>6, <2>1, <2>2 DEF LogsIn
<1>7. ASSUME NEW c \in Accepted, NEW d \in Destinations, Publishes(c, d) PROVE Sessions'
  BY <1>1, <1>7 DEF Publishes, registry
<1>8. ASSUME NEW c \in Accepted, NEW d \in Destinations, NEW s \in SubIds, Joins(c, d, s)
      PROVE  Sessions'
  BY <1>1, <1>8 DEF Joins
<1>9. ASSUME NEW c \in Accepted, NEW d \in Destinations, NEW s \in SubIds, Leaves(c, d, s)
      PROVE  Sessions'
  BY <1>1, <1>9 DEF Leaves
<1> QED
  <2>1. CASE Next
    BY <2>1, <1>2, <1>3, <1>4, <1>5, <1>6, <1>7, <1>8, <1>9, StepKinds, Zenon
  <2>2. CASE UNCHANGED vars
    BY <2>2, <1>1 DEF vars, registry
  <2> QED
    BY <2>1, <2>2

\* No account has two sessions, and a connection in activeUsers is the one its
\* account is logged in through.
THEOREM SessionsAlwaysExact == Spec => []SessionsExact
<1>1. Init => Sessions
  BY DEF Init, Sessions, SessionsExact, UniqueUserNames
<1>2. Sessions => SessionsExact
  BY DEF Sessions
<1> QED
  BY <1>1, <1>2, TypeOKInit, TypeOKStep, SessionsStep, PTL DEF Spec

\* A name never gets a second account.
THEOREM NamesAlwaysUnique == Spec => []UniqueUserNames
<1>1. Init => Sessions
  BY DEF Init, Sessions, SessionsExact, UniqueUserNames
<1>2. Sessions => UniqueUserNames
  BY DEF Sessions
<1> QED
  BY <1>1, <1>2, TypeOKInit, TypeOKStep, SessionsStep, PTL DEF Spec

-----------------------------------------------------------------------------
(* The broker implements UserSessions.                                       *)

session == [c \in Ids |-> Session(c)]

\* A session's name is that of a logged-in account, so it is none but NULL or a name.
LEMMA SessionType ==
    ASSUME TypeOK, NEW c \in Ids
    PROVE  /\ activeUsers[c] = 0 => Session(c) = NULL
           /\ activeUsers[c] # 0 => /\ activeUsers[c] \in DOMAIN users
                                    /\ Session(c) = users[activeUsers[c]].userName
                                    /\ Session(c) \in Names
<1>1. /\ users \in Seq(User) /\ DOMAIN users = 1..Len(users) /\ Len(users) \in Nat
      /\ activeUsers[c] \in 0..Len(users)
  BY DEF TypeOK
<1>2. activeUsers[c] # 0 => users[activeUsers[c]] \in User
  BY <1>1
<1>3. activeUsers[c] # 0 => users[activeUsers[c]].userName \in Names
  BY <1>2 DEF User
<1> QED
  BY <1>1, <1>3 DEF Session

\* disconnect is a logout, or a stutter, of the connection.
LEMMA DisconnectLogsOut ==
    ASSUME TypeOK, NEW c \in Ids, Disconnect(c)
    PROVE  session' = [session EXCEPT ![c] = NULL]
<1>1. /\ users' = DisconnectUser(c)
      /\ activeUsers' = [activeUsers EXCEPT ![c] = 0]
      /\ activeUsers \in [Ids -> 0..Len(users)]
  BY DEF Disconnect, TypeOK
<1>2. \A u \in 1..Len(users) : users'[u].userName = users[u].userName
  BY <1>1, DisconnectUserFacts
<1>3. ASSUME NEW i \in Ids
      PROVE  session'[i] = [session EXCEPT ![c] = NULL][i]
  <2>1. CASE i = c
    BY <1>1, <2>1 DEF session, Session
  <2>2. CASE i # c
    <3>1. activeUsers'[i] = activeUsers[i] /\ activeUsers[i] \in 0..Len(users)
      BY <1>1, <2>2
    <3>2. Session(i)' = Session(i)
      BY <1>2, <3>1 DEF Session
    <3> QED
      BY <2>2, <3>2 DEF session
  <2> QED
    BY <2>1, <2>2
<1>4. session' \in [Ids -> {session'[i] : i \in Ids}] /\ DOMAIN session = Ids
  BY DEF session
<1> QED
  BY <1>3, <1>4 DEF session

\* A CONNECT that is answered CONNECTED is a login of a user no connection has.
LEMMA ConnectLogsIn ==
    ASSUME TypeOK, Sessions, NEW c \in Ids, NEW login \in Names, NEW passcode \in Passcodes,
           LogsIn(c, login, passcode)
    PROVE  Exclusive!Login(c, login)
<1>1. /\ users \in Seq(User) /\ DOMAIN users = 1..Len(users) /\ Len(users) \in Nat
      /\ activeUsers \in [Ids -> 0..Len(users)]
      /\ NULL \notin Names
  BY BrokerAssumption DEF TypeOK
<1>2. ASSUME NEW u \in DOMAIN users, users[u].userName = login, ~users[u].isLoggedIn,
             ConnectKnown(c, u)
      PROVE  Exclusive!Login(c, login)
  <2> DEFINE account == [users[u] EXCEPT !.isLoggedIn = TRUE, !.connectionId = c]
  <2>1. users[u] \in User
    BY <1>1
  <2>2. account.userName = login
    BY <1>2, <2>1 DEF User
  <2>3. users' = [users EXCEPT ![u] = account] /\ activeUsers' = [activeUsers EXCEPT ![c] = u]
    BY <1>2, <2>1 DEF ConnectKnown, User
  <2> HIDE DEF account
  <2>4. ASSUME NEW d \in Ids
        PROVE  session[d] # login
    <3>1. CASE activeUsers[d] = 0
      BY <1>1, <3>1, SessionType DEF session
    <3>2. CASE activeUsers[d] # 0
      <4>1. activeUsers[d] \in DOMAIN users /\ session[d] = users[activeUsers[d]].userName
        BY <3>2, SessionType DEF session
      <4>2. users[activeUsers[d]].isLoggedIn
        BY <3>2 DEF Sessions, SessionsExact
      <4> QED
        BY <1>2, <4>1, <4>2 DEF Sessions, UniqueUserNames
    <3> QED
      BY <3>1, <3>2
  <2>5. \A v \in DOMAIN users : users'[v].userName = users[v].userName
    BY <1>1, <1>2, <2>2, <2>3
  <2>6. ASSUME NEW i \in Ids
        PROVE  Session(i)' = IF i = c THEN login ELSE Session(i)
    <3>1. CASE i = c
      BY <1>1, <2>2, <2>3, <3>1 DEF Session
    <3>2. CASE i # c
      <4>1. activeUsers'[i] = activeUsers[i] /\ activeUsers[i] \in 0..Len(users)
        BY <1>1, <2>3, <3>2
      <4> QED
        BY <1>1, <2>5, <3>2, <4>1 DEF Session
    <3> QED
      BY <3>1, <3>2
  <2>7. session' = [session EXCEPT ![c] = login]
    BY <2>6 DEF session
  <2> QED
    BY <2>4, <2>7 DEF session, Exclusive!Login
<1>3. ASSUME NoAccount(login), ConnectNew(c, login, passcode)
      PROVE  Exclusive!Login(c, login)
  <2> DEFINE account == [userName |-> login, passcode |-> passcode,
                         isLoggedIn |-> TRUE, connectionId |-> c]
  <2>1. users' = Append(users, account) /\ activeUsers' = [activeUsers EXCEPT ![c] = Len(users) + 1]
    BY <1>3 DEF ConnectNew
  <2>2. account.userName = login /\ account \in User
    BY DEF User
  <2> HIDE DEF account
  <2>3. /\ users'[Len(users) + 1] = account
        /\ \A u \in 1..Len(users) : users'[u] = users[u]
    BY <1>1, <2>1, <2>2
  <2>4. ASSUME NEW d \in Ids
        PROVE  session[d] # login
    BY <1>1, <1>3, SessionType DEF session, NoAccount
  <2>5. ASSUME NEW i \in Ids
        PROVE  Session(i)' = IF i = c THEN login ELSE Session(i)
    <3>1. CASE i = c
      BY <1>1, <2>1, <2>2, <2>3, <3>1 DEF Session
    <3>2. CASE i # c
      <4>1. activeUsers'[i] = activeUsers[i] /\ activeUsers[i] \in 0..Len(users)
        BY <1>1, <2>1, <3>2
      <4> QED
        BY <1>1, <2>3, <3>2, <4>1 DEF Session
    <3> QED
      BY <3>1, <3>2
  <2>6. session' = [session EXCEPT ![c] = login]
    BY <2>5 DEF session
  <2> QED
    BY <2>4, <2>6 DEF session, Exclusive!Login
<1> QED
  BY <1>2, <1>3 DEF LogsIn, IsAccountOf

\* Every step of the broker is a login, a logout or a stutter of UserSessions.
LEMMA SessionsRefined ==
    ASSUME TypeOK, Sessions, [Next]_vars
    PROVE  [Exclusive!Next]_session
<1> Accepted \subseteq Ids
  BY BrokerAssumption DEF TypeOK, Accepted, Ids
<1>1. CASE UNCHANGED <<users, activeUsers>>
  BY <1>1 DEF session, Session
<1>2. ASSUME NEW c \in Ids, Disconnect(c) PROVE [Exclusive!Next]_session
  <2>1. Exclusive!Logout(c)
    BY <1>2, DisconnectLogsOut DEF session, Exclusive!Logout
  <2> QED
    BY <2>1 DEF Exclusive!Next
<1>3. CASE HandleAccept
  BY <1>1, <1>3 DEF HandleAccept
<1>4. ASSUME NEW c \in Accepted, Fails(c) PROVE [Exclusive!Next]_session
  BY <1>2, <1>4 DEF Fails, SendError
<1>5. ASSUME NEW c \in Accepted, Idles(c) PROVE [Exclusive!Next]_session
  BY <1>1, <1>5 DEF Idles, registry
<1>6. ASSUME NEW c \in Accepted, NEW receipt, HandleDisconnect(c, receipt)
      PROVE  [Exclusive!Next]_session
  BY <1>2, <1>6 DEF HandleDisconnect
<1>7. ASSUME NEW c \in Accepted, NEW login \in Names, NEW passcode \in Passcodes,
             LogsIn(c, login, passcode)
      PROVE  [Exclusive!Next]_session
  <2>1. Exclusive!Login(c, login)
    BY <1>7, ConnectLogsIn
  <2> QED
    BY <2>1 DEF Exclusive!Next
<1>8. ASSUME NEW c \in Accepted, NEW d \in Destinations, Publishes(c, d)
      PROVE  [Exclusive!Next]_session
  BY <1>1, <1>8 DEF Publishes, registry
<1>9. ASSUME NEW c \in Accepted, NEW d \in Destinations, NEW s \in SubIds,
             Joins(c, d, s) \/ Leaves(c, d, s)
      PROVE  [Exclusive!Next]_session
  BY <1>1, <1>9 DEF Joins, Leaves
<1> QED
  <2>1. CASE Next
    BY <2>1, <1>3, <1>4, <1>5, <1>6, <1>7, <1>8, <1>9, StepKinds, Zenon
  <2>2. CASE UNCHANGED vars
    BY <2>2, <1>1 DEF vars, registry
  <2> QED
    BY <2>1, <2>2

\* The broker implements UserSessions: a user is logged in from one client at a time,
\* for any number of connections, names and passcodes.
THEOREM LoginsExclusive == Spec => ImplementsUserSessions
<1>1. Init => Sessions
  BY DEF Init, Sessions, SessionsExact, UniqueUserNames
<1>2. Init => Exclusive!Init
  BY DEF Init, Exclusive!Init, Session
<1>3. TypeOK /\ Sessions /\ [Next]_vars => [Exclusive!Next]_session
  BY SessionsRefined
<1> QED
  BY <1>1, <1>2, <1>3, TypeOKInit, TypeOKStep, SessionsStep, PTL
  DEF Spec, ImplementsUserSessions, Exclusive!Spec, session

-----------------------------------------------------------------------------
(* Nothing follows the last frame.                                           *)

\* A terminated connection has no handler in the registry, and an id that was
\* not given out yet is not terminated.
Retired ==
    /\ \A c \in Ids : shouldTerminate[c] => c \notin activeClients
    /\ \A c \in Ids \ Accepted : ~shouldTerminate[c]

LEMMA RetiredStep == TypeOK /\ Retired /\ [Next]_vars => Retired'
<1> SUFFICES ASSUME TypeOK, Retired, [Next]_vars PROVE Retired'
  OBVIOUS
<1> USE BrokerAssumption
<1> Accepted \subseteq Ids
  BY DEF TypeOK, Accepted, Ids
<1>1. CASE UNCHANGED <<countUniqeID, activeClients, shouldTerminate>>
  BY <1>1 DEF Retired, Accepted
<1>2. CASE HandleAccept
  BY <1>2 DEF HandleAccept, Retired, Accepted, TypeOK, Ids
<1>3. ASSUME NEW c \in Accepted, Fails(c) PROVE Retired'
  BY <1>3 DEF Fails, SendError, Disconnect, Retired, Accepted, TypeOK
<1>4. ASSUME NEW c \in Accepted, Idles(c) PROVE Retired'
  BY <1>1, <1>4 DEF Idles, registry
<1>5. ASSUME NEW c \in Accepted, NEW receipt, HandleDisconnect(c, receipt) PROVE Retired'
  BY <1>5 DEF HandleDisconnect, Disconnect, Retired, Accepted, TypeOK
<1>6. ASSUME NEW c \in Accepted, NEW login \in Names, NEW passcode \in Passcodes,
             LogsIn(c, login, passcode)
      PROVE  Retired'
  BY <1>1, <1>6 DEF LogsIn, ConnectKnown, ConnectNew
<1>7. ASSUME NEW c \in Accepted, NEW d \in Destinations, Publishes(c, d) PROVE Retired'
  BY <1>1, <1>7 DEF Publishes, registry
<1>8. ASSUME NEW c \in Accepted, NEW d \in Destinations, NEW s \in SubIds, Joins(c, d, s)
      PROVE  Retired'
  BY <1>1, <1>8 DEF Joins
<1>9. ASSUME NEW c \in Accepted, NEW d \in Destinations, NEW s \in SubIds, Leaves(c, d, s)
      PROVE  Retired'
  BY <1>1, <1>9 DEF Leaves
<1> QED
  <2>1. CASE Next
    BY <2>1, <1>2, <1>3, <1>4, <1>5, <1>6, <1>7, <1>8, <1>9, StepKinds, Zenon
  <2>2. CASE UNCHANGED vars
    BY <2>2, <1>1 DEF vars, registry
  <2> QED
    BY <2>1, <2>2

\* A step sends frames to registered connections only.
LEMMA SentToRegistered ==
    ASSUME TypeOK, Next
    PROVE  \A f \in out' : f[1] \in activeClients
<1>1. \A c, frames : \A f \in Send(c, frames) : f[1] \in activeClients
  BY DEF Send
<1>2. CASE HandleAccept
  BY <1>2 DEF HandleAccept
<1>3. ASSUME NEW c \in Accepted, \E frames : out' = Send(c, frames)
      PROVE  \A f \in out' : f[1] \in activeClients
  BY <1>1, <1>3
<1>4. ASSUME NEW c \in Accepted, NEW d \in Destinations, Publishes(c, d)
      PROVE  \A f \in out' : f[1] \in activeClients
  <2>1. \A i, receipt : \A f \in DeliverTo(i, d, receipt) : f[1] \in activeClients
    BY <1>1 DEF DeliverTo
  <2>2. PICK reached, receipt :
           out' = UNION {DeliverTo(i, d, receipt) : i \in reached}
    BY <1>4 DEF Publishes
  <2> QED
    BY <2>1, <2>2
<1>5. ASSUME NEW c \in Accepted, Fails(c) PROVE \E frames : out' = Send(c, frames)
  BY <1>5 DEF Fails, SendError
<1>6. ASSUME NEW c \in Accepted, Idles(c) PROVE \E frames : out' = Send(c, frames)
  BY <1>6 DEF Idles
<1>7. ASSUME NEW c \in Accepted, NEW receipt, HandleDisconnect(c, receipt)
      PROVE  \E frames : out' = Send(c, frames)
  BY <1>7 DEF HandleDisconnect
<1>8. ASSUME NEW c \in Accepted, NEW login \in Names, NEW passcode \in Passcodes,
             LogsIn(c, login, passcode)
      PROVE  \E frames : out' = Send(c, frames)
  BY <1>8 DEF LogsIn
<1>9. ASSUME NEW c \in Accepted, NEW d \in Destinations, NEW s \in SubIds,
             Joins(c, d, s) \/ Leaves(c, d, s)
      PROVE  \E frames : out' = Send(c, frames)
  BY <1>9 DEF Joins, Leaves
<1> QED
  BY <1>2, <1>3, <1>4, <1>5, <1>6, <1>7, <1>8, <1>9, StepKinds, Zenon

LEMMA AlwaysRetired == Spec => []Retired
<1>1. Init => Retired
  BY BrokerAssumption DEF Init, Retired
<1> QED
  BY <1>1, TypeOKInit, TypeOKStep, RetiredStep, PTL DEF Spec

\* The ERROR, or the RECEIPT of a DISCONNECT, is the last frame a connection is
\* sent, whatever is still handled for it or queued under its id.
THEOREM NothingAfterLastFrame == Spec => LastFrameIsLast
<1> DEFINE Silent == \A c \in Ids : shouldTerminate[c] => \A f \in out' : f[1] # c
<1>1. TypeOK /\ Retired /\ [Next]_vars => [Silent]_vars
  BY SentToRegistered DEF Retired
<1> QED
  BY <1>1, TypeCorrect, AlwaysRetired, PTL DEF Spec, LastFrameIsLast

-----------------------------------------------------------------------------
(* Who a message reaches.                                                    *)

\* What DeliverTo puts on a connection that is queued once: its MESSAGE, if the channel
\* is open, and possibly a RECEIPT.
LEMMA DeliveredMessage ==
    ASSUME TypeOK, SubscriptionsMatch, NEW i \in Ids, NEW d \in Destinations, NEW receipt,
           chanelSubscription[d][i] > 0, i \in activeClients,
           NEW f, f[2].type = "MESSAGE"
    PROVE  /\ destinationToSubId[i][d] # NULL
           /\ f \in DeliverTo(i, d, receipt) <=>
                  /\ i \in openChans
                  /\ f = <<i, Message(destinationToSubId[i][d], counterMessageId', d, 1)>>
<1>1. destinationToSubId[i][d] # NULL
  BY DEF SubscriptionsMatch, TypeOK
<1>2. chanelSubscription[d][i] = 1
  BY QueuedAtMostOnce
<1> DEFINE m == Message(destinationToSubId[i][d], counterMessageId', d, 1)
<1>3. DeliverTo(i, d, receipt) = Send(i, {m} \cup OptionalReceipt(receipt))
  BY <1>1, <1>2 DEF DeliverTo
<1>4. m.type = "MESSAGE"
  BY DEF Message
<1>5. \A g \in OptionalReceipt(receipt) : g.type = "RECEIPT"
  BY DEF OptionalReceipt, Receipt
<1> HIDE DEF m
<1>6. ASSUME f \in DeliverTo(i, d, receipt)
      PROVE  i \in openChans /\ f = <<i, m>>
  <2>1. i \in openChans /\ f \in {i} \X ({m} \cup OptionalReceipt(receipt))
    BY <1>3, <1>6 DEF Send
  <2>2. f = <<i, f[2]>> /\ f[2] \in {m} \cup OptionalReceipt(receipt)
    BY <2>1
  <2> QED
    BY <1>5, <2>1, <2>2
<1>7. ASSUME i \in openChans, f = <<i, m>>
      PROVE  f \in DeliverTo(i, d, receipt)
  BY <1>3, <1>7 DEF Send
<1> QED
  BY <1>1, <1>6, <1>7 DEF m

\* An accepted SEND puts the message once, under its own subscription id, on connections
\* whose own map holds the destination, and leaves none of them out unless an id without
\* a handler is queued: StompBroker's EverySubscriberServed, for any connections and
\* destinations.
THEOREM SubscribersAlwaysServed == Spec => EverySubscriberServed
<1> DEFINE
      due(d) == {<<i, Message(destinationToSubId[i][d], counterMessageId', d, 1)>> :
                    i \in {j \in activeClients \cap openChans : destinationToSubId[j][d] # NULL}}
      sent == {f \in out' : f[2].type = "MESSAGE"}
      Served ==
        counterMessageId' # counterMessageId =>
        \A c \in Accepted, destination \in Destinations, receipt \in OrNull(Receipts) :
          HandleSend(c, destination, receipt) =>
            /\ sent \subseteq due(StripSlash[destination])
            /\ Subscribers(StripSlash[destination]) \subseteq activeClients =>
                   sent = due(StripSlash[destination])
      ServedAsStated ==
        counterMessageId' # counterMessageId =>
        \A c \in Accepted, destination \in Destinations, receipt \in OrNull(Receipts) :
         HandleSend(c, destination, receipt) =>
            LET d == StripSlash[destination]
                subscribed == {i \in activeClients \cap openChans :
                                 destinationToSubId[i][d] # NULL}
                duty == {<<i, Message(destinationToSubId[i][d], counterMessageId', d, 1)>> :
                             i \in subscribed}
                gone == {f \in out' : f[2].type = "MESSAGE"}
            IN  /\ gone \subseteq duty
                /\ Subscribers(d) \subseteq activeClients => gone = duty
<1>1. TypeOK /\ SubscriptionsMatch /\ Retired /\ [Next]_vars => [Served]_vars
  <2> SUFFICES ASSUME TypeOK, SubscriptionsMatch, Retired,
                      counterMessageId' # counterMessageId,
                      NEW c \in Accepted, NEW destination \in Destinations,
                      NEW receipt \in OrNull(Receipts), HandleSend(c, destination, receipt)
               PROVE  /\ sent \subseteq due(StripSlash[destination])
                      /\ Subscribers(StripSlash[destination]) \subseteq activeClients =>
                             sent = due(StripSlash[destination])
    BY Zenon DEF vars
  <2> DEFINE d == StripSlash[destination]
  <2>1. d \in Destinations
    BY BrokerAssumption
  <2> HIDE DEF d
  <2>2. PICK reached \in Reached(d) : out' = UNION {DeliverTo(i, d, receipt) : i \in reached}
    BY DEF HandleSend, SendError, d
  <2>3. reached \subseteq Subscribers(d) \cap activeClients
    BY DEF Reached
  <2>4. \A i \in reached : i \in Ids /\ chanelSubscription[d][i] > 0 /\ i \in activeClients
    BY <2>3 DEF Subscribers
  <2>5. ASSUME NEW f \in sent
        PROVE  f \in due(d)
    <3>1. PICK i \in reached : f \in DeliverTo(i, d, receipt)
      BY <2>2
    <3>2. f[2].type = "MESSAGE"
      OBVIOUS
    <3>3. /\ destinationToSubId[i][d] # NULL /\ i \in openChans
          /\ f = <<i, Message(destinationToSubId[i][d], counterMessageId', d, 1)>>
      BY <2>1, <2>4, <3>1, <3>2, DeliveredMessage
    <3> QED
      BY <2>4, <3>3
  <2>6. ASSUME Subscribers(d) \subseteq activeClients, NEW f \in due(d)
        PROVE  f \in sent
    <3>1. PICK i \in activeClients \cap openChans :
             /\ destinationToSubId[i][d] # NULL
             /\ f = <<i, Message(destinationToSubId[i][d], counterMessageId', d, 1)>>
      OBVIOUS
    <3>2. i \in Ids /\ ~shouldTerminate[i]
      BY BrokerAssumption DEF TypeOK, Accepted, Ids, Retired
    <3>3. chanelSubscription[d][i] > 0
      BY <2>1, <3>1, <3>2 DEF SubscriptionsMatch
    <3>4. reached = Subscribers(d)
      BY <2>6 DEF Reached
    <3>5. i \in reached
      BY <3>2, <3>3, <3>4 DEF Subscribers
    <3>6. f[2].type = "MESSAGE"
      BY <3>1 DEF Message
    <3>7. f \in DeliverTo(i, d, receipt)
      BY <2>1, <3>1, <3>2, <3>3, <3>6, DeliveredMessage
    <3> QED
      BY <2>2, <3>5, <3>6, <3>7
  <2> QED
    BY <2>5, <2>6 DEF d
<1>2. [Served]_vars => [ServedAsStated]_vars
  OBVIOUS
<1> QED
  BY <1>1, <1>2, TypeCorrect, SubscriptionsAlwaysMatch, AlwaysRetired, PTL
     DEF Spec, EverySubscriberServed
=============================================================================
