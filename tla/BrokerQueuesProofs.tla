-------------------------- MODULE BrokerQueuesProofs --------------------------
(***************************************************************************)
(* Proofs about the queues of BrokerThreads, for any number of connections, *)
(* names, channels and frames: what a connection holds and where it is      *)
(* queued agree, and what a SEND reaches while others change the queues.    *)
(***************************************************************************)
EXTENDS BrokerThreadsProofs

-----------------------------------------------------------------------------
(* The invariant of the queues.                                              *)

\* The session of c is being ended.
Leaves(c) == job[c].at \in {"logout", "removeClient", "removeFromChanels"}

\* c is in a SUBSCRIBE that has not read the queue yet.
Enters(c) == job[c].at \in {"containsKey", "put", "get"}

\* Nothing of c is in the queue that the channel has.
Absent(c, d) == chanelSubscription[d] # 0 => Live(chanelSubscription[d], c) = {}

\* No other channel has this queue.
Only(q, d) == \A e \in Destinations \ {d} : chanelSubscription[e] # q

\* c is in the queue of d, or in one that d had.
HeldIn(c, d) == \E q \in 1..chanelSubscription[d] : Live(q, c) # {} /\ Only(q, d)

\* c is about to be put into the queue of d, or into one that d had.
Pending(c, d) ==
    \/ Enters(c) /\ job[c].dest = d
    \/ job[c].at = "add" /\ job[c].queue <= chanelSubscription[d] /\ Only(job[c].queue, d)

OneCell == \A q \in DOMAIN queues, c \in Conns : \A k, l \in Live(q, c) : k = l

Distinct == \A d \in Destinations : chanelSubscription[d] # 0 => Only(chanelSubscription[d], d)

NotHeld(c) ==
    ~ Leaves(c) => \A d \in Destinations \ Wanted(c) :
                        Absent(c, d) \/ (job[c].at = "unsubscribe" /\ job[c].dest = d)

Held(c) == ~ Leaves(c) => \A d \in Wanted(c) : HeldIn(c, d) \/ Pending(c, d)

Entering(c) ==
    /\ Enters(c) => job[c].dest \in Wanted(c) /\ Absent(c, job[c].dest)
    /\ job[c].at = "add" =>
            /\ Live(job[c].queue, c) = {}
            /\ \A d \in Destinations :
                    chanelSubscription[d] = job[c].queue => d \in Wanted(c)
    /\ job[c].at = "unsubscribe" => job[c].dest \notin Wanted(c)

Left(c) == job[c].at = "removeFromChanels" =>
                \A d \in Destinations \ job[c].left : Absent(c, d)

\* What c has subscribed to since its end is in its map, and it ends with nothing of that.
Ended(c) ==
    /\ late[c] \subseteq destinationToSubId[c]
    /\ Leaves(c) => shouldTerminate[c] /\ late[c] = {}

QueuesOf(c) == NotHeld(c) /\ Held(c) /\ Entering(c) /\ Left(c) /\ Ended(c)

Queues == OneCell /\ Distinct /\ \A c \in Conns : QueuesOf(c)

-----------------------------------------------------------------------------
(* What a step of one handler does to the queues and to the other handlers.  *)

\* Four steps touch the channels and their queues.
LEMMA QueueSteps ==
    ASSUME NEW c \in Conns, Handler(c)
    PROVE  \/ PutQueue(c) \/ AddToQueue(c) \/ UnSubscribeClient(c) \/ RemoveFromChanels(c)
           \/ UNCHANGED <<chanelSubscription, queues>>
BY DEF Handler, Connect, Subscribe, Unsubscribe, Disconnect, SendFrame, channels,
       UserIsExists, IsLoggedIn, ConnectKnown, ConnectNew, HoldDestination, LookForQueue,
       GetQueue, GiveUpDestination, HandleDisconnect, SendError, DisconnectUser,
       RemoveClient, HandleSend, IncrementCounterMessageId, GetSubscribers,
       NextSubscriber, EndSend, GetActiveClient, GetSubscriptionId, Send, SendToHandler

\* What c does leaves the maps and the handlers of others alone.
LEMMA OthersKept ==
    ASSUME Types, EndsOK, NEW c \in Conns, Handler(c), NEW i \in Conns, i # c
    PROVE  /\ job'[i] = job[i]
           /\ destinationToSubId'[i] = destinationToSubId[i]
           /\ shouldTerminate'[i] = shouldTerminate[i]
           /\ late'[i] = late[i]
           /\ Wanted(i)' = Wanted(i)
           /\ frames'[i] = frames[i]
           /\ i \in activeClients' <=> i \in activeClients
<1> DEFINE Rest == /\ destinationToSubId'[i] = destinationToSubId[i]
                   /\ frames'[i] = frames[i]
                   /\ i \in activeClients' <=> i \in activeClients
<1>1. job \in [Conns -> Job] /\ DataOK
  BY DEF Types
<1>2. job'[i] = job[i]
  BY <1>1, PutSteps DEF Elsewhere, LookForQueue, Goes
<1>3. Connect(c) \/ SendFrame(c) => Rest
  BY <1>1 DEF Connect, SendFrame, UserIsExists, IsLoggedIn, ConnectKnown,
     ConnectNew, HandleSend, IncrementCounterMessageId, GetSubscribers, NextSubscriber,
     EndSend, GetActiveClient, GetSubscriptionId, Send, SendToHandler, Begin, DataOK,
     protocols
<1>4. Subscribe(c) \/ Unsubscribe(c) => Rest
  BY <1>1 DEF Subscribe, Unsubscribe, HoldDestination, LookForQueue, PutQueue,
     GetQueue, AddToQueue, GiveUpDestination, UnSubscribeClient, Begin, DataOK, protocols
<1>5. Disconnect(c) => Rest
  BY <1>1 DEF Disconnect, HandleDisconnect, SendError, DisconnectUser,
     RemoveClient, RemoveFromChanels, Begin, DataOK, protocols
<1>6. shouldTerminate'[i] = shouldTerminate[i] /\ late'[i] = late[i]
  BY EndsKept
<1>7. Rest
  BY <1>3, <1>4, <1>5 DEF Handler
<1>8. Wanted(i)' = Wanted(i)
  BY <1>6, <1>7 DEF Wanted
<1> QED
  BY <1>2, <1>6, <1>7, <1>8

\* What taking c out of a queue does to the elements of the queues.
LEMMA RemoveLive ==
    ASSUME DataOK, NEW c \in Conns, NEW q \in DOMAIN queues, queues' = Remove(q, c)
    PROVE  /\ DOMAIN queues' = DOMAIN queues
           /\ \A r \in DOMAIN queues : Live(r, c)' \subseteq Live(r, c)
           /\ \A r \in DOMAIN queues \ {q} : Live(r, c)' = Live(r, c)
           /\ \A r \in DOMAIN queues, i \in Conns \ {c} : Live(r, i)' = Live(r, i)
           /\ (\A k, l \in Live(q, c) : k = l) => Live(q, c)' = {}
<1> DEFINE k == FirstOf(Live(q, c))
<1>1. /\ DOMAIN queues' = DOMAIN queues
      /\ \A r \in DOMAIN queues : DOMAIN queues'[r] = DOMAIN queues[r]
      /\ \A r \in DOMAIN queues : r # q => queues'[r] = queues[r]
      /\ \A r \in DOMAIN queues : \A j \in DOMAIN queues[r] :
            queues'[r][j] = IF r = q /\ Live(q, c) # {} /\ j = k THEN None ELSE queues[r][j]
  <2>1. queues \in Seq(Seq(Cell)) /\ queues' = Remove(q, c)
    BY DEF DataOK
  <2>2. /\ DOMAIN Remove(q, c) = DOMAIN queues
        /\ \A r \in DOMAIN queues :
              /\ DOMAIN Remove(q, c)[r] = DOMAIN queues[r]
              /\ r # q => Remove(q, c)[r] = queues[r]
              /\ \A j \in DOMAIN queues[r] :
                    Remove(q, c)[r][j] =
                        IF r = q /\ Live(q, c) # {} /\ j = k THEN None ELSE queues[r][j]
    BY <2>1, RemoveFacts
  <2> QED
    BY <2>1, <2>2, Zenon
<1>2. None \notin Conns
  BY ThreadsAssumption
<1>3. Live(q, c) # {} => k \in Live(q, c)
  <2>1. Live(q, c) \in SUBSET Nat
    BY DEF Live, DataOK
  <2> QED
    BY <2>1, FirstIsLeast
<1> HIDE DEF k
<1>4. ASSUME NEW r \in DOMAIN queues, NEW i \in Conns
      PROVE  /\ Live(r, i)' \subseteq Live(r, i)
             /\ r # q \/ i # c => Live(r, i)' = Live(r, i)
  BY <1>1, <1>2, <1>3 DEF Live
<1>5. ASSUME \A j, l \in Live(q, c) : j = l
      PROVE  Live(q, c)' = {}
  BY <1>1, <1>2, <1>3, <1>5 DEF Live
<1> QED
  BY <1>1, <1>4, <1>5

\* What appending c does to them.
LEMMA AppendLive ==
    ASSUME DataOK, NEW c \in Conns, NEW q \in DOMAIN queues,
           queues' = [queues EXCEPT ![q] = Append(@, c)]
    PROVE  /\ DOMAIN queues' = DOMAIN queues
           /\ \A r \in DOMAIN queues \ {q} : Live(r, c)' = Live(r, c)
           /\ \A r \in DOMAIN queues, i \in Conns \ {c} : Live(r, i)' = Live(r, i)
           /\ Live(q, c)' = Live(q, c) \cup {Len(queues[q]) + 1}
<1>1. /\ DOMAIN queues' = DOMAIN queues
      /\ queues'[q] = Append(queues[q], c)
      /\ \A r \in DOMAIN queues : r # q => queues'[r] = queues[r]
  BY DEF DataOK
<1>2. /\ queues[q] \in Seq(Cell)
      /\ DOMAIN queues[q] = 1..Len(queues[q]) /\ Len(queues[q]) \in Nat
      /\ DOMAIN queues'[q] = 1..(Len(queues[q]) + 1)
      /\ \A j \in 1..Len(queues[q]) : queues'[q][j] = queues[q][j]
      /\ queues'[q][Len(queues[q]) + 1] = c
  <2>1. queues[q] \in Seq(Cell) /\ c \in Cell
    BY DEF DataOK, Cell
  <2> QED
    BY <1>1, <2>1
<1>3. \A r \in DOMAIN queues \ {q}, i \in Conns : Live(r, i)' = Live(r, i)
  BY <1>1 DEF Live
<1>4. ASSUME NEW i \in Conns \ {c}
      PROVE  Live(q, i)' = Live(q, i)
  BY <1>1, <1>2 DEF Live
<1>5. Live(q, c)' = Live(q, c) \cup {Len(queues[q]) + 1}
  BY <1>1, <1>2 DEF Live
<1> QED
  BY <1>1, <1>3, <1>4, <1>5

\* A new queue is empty, and the queue of one channel.
LEMMA PutLive ==
    ASSUME Types, NEW c \in Conns, PutQueue(c)
    PROVE  /\ job[c].dest \in Destinations
           /\ DOMAIN queues' = DOMAIN queues \cup {Len(queues) + 1}
           /\ Len(queues) + 1 \notin DOMAIN queues
           /\ \A r \in DOMAIN queues, i \in Conns : Live(r, i)' = Live(r, i)
           /\ \A r \in {Len(queues) + 1}, i \in Conns : Live(r, i)' = {}
           /\ chanelSubscription'[job[c].dest] = Len(queues) + 1
           /\ \A d \in Destinations \ {job[c].dest} : chanelSubscription'[d] = chanelSubscription[d]
<1>1. DataOK /\ job[c].dest \in Destinations
  BY JobAt DEF Types, PutQueue, AtChannel
<1>2. queues' = Append(queues, <<>>)
  BY DEF PutQueue
<1>3. /\ DOMAIN queues' = DOMAIN queues \cup {Len(queues) + 1}
      /\ Len(queues) + 1 \notin DOMAIN queues
      /\ \A r \in DOMAIN queues : queues'[r] = queues[r]
      /\ queues'[Len(queues) + 1] = <<>>
  BY <1>1, <1>2 DEF DataOK
<1>4. \A d \in Destinations : chanelSubscription'[d] =
            IF d = job[c].dest THEN Len(queues) + 1 ELSE chanelSubscription[d]
  BY <1>1 DEF PutQueue, DataOK
<1>5. \A r \in DOMAIN queues, i \in Conns : Live(r, i)' = Live(r, i)
  BY <1>3 DEF Live
<1>6. \A r \in {Len(queues) + 1}, i \in Conns : Live(r, i)' = {}
  BY <1>3 DEF Live
<1> QED
  BY <1>1, <1>3, <1>4, <1>5, <1>6

\* UNSUBSCRIBE and the end of a session take c out of a queue that is there.
LEMMA RemovesOnly ==
    ASSUME Types, NEW c \in Conns, UnSubscribeClient(c) \/ RemoveFromChanels(c)
    PROVE  queues' = queues \/ \E q \in DOMAIN queues : queues' = Remove(q, c)
<1>0. DataOK
  BY DEF Types
<1>1. CASE UnSubscribeClient(c)
  <2>1. chanelSubscription[job[c].dest] \in DOMAIN queues
    BY <1>0, <1>1, JobAt DEF UnSubscribeClient, AtChannel, Types, ReferencesOK,
                             ReferencesOf, DataOK
  <2> QED
    BY <1>1, <2>1 DEF UnSubscribeClient
<1>2. CASE RemoveFromChanels(c)
  <2>1. PICK d \in job[c].left : queues' = RemoveFromChanel(c, d)
    BY <1>2 DEF RemoveFromChanels
  <2>2. d \in Destinations
    BY <1>2, JobAt DEF RemoveFromChanels, Leaving, Types
  <2> QED
    BY <1>0, <2>1, <2>2 DEF RemoveFromChanel, DataOK
<1> QED
  BY <1>1, <1>2

\* A channel keeps its queue or gets a new and empty one, and what c does to the queues
\* touches its own elements only.
LEMMA Growth ==
    ASSUME Types, NEW c \in Conns, Handler(c)
    PROVE  /\ DOMAIN queues \subseteq DOMAIN queues'
           /\ \A r \in DOMAIN queues, i \in Conns \ {c} : Live(r, i)' = Live(r, i)
           /\ \A d \in Destinations :
                \/ chanelSubscription'[d] = chanelSubscription[d]
                \/ /\ chanelSubscription'[d] = Len(queues) + 1
                   /\ \A r \in {Len(queues) + 1}, i \in Conns : Live(r, i)' = {}
<1>0. DataOK
  BY DEF Types
<1>1. CASE PutQueue(c)
  BY <1>1, PutLive
<1>2. CASE AddToQueue(c)
  <2>1. job[c].queue \in DOMAIN queues
    BY <1>2 DEF AddToQueue, Types, ReferencesOK, ReferencesOf
  <2>2. PICK q \in DOMAIN queues : queues' = [queues EXCEPT ![q] = Append(@, c)]
    BY <1>2, <2>1 DEF AddToQueue
  <2> QED
    BY <1>0, <1>2, <2>2, AppendLive DEF AddToQueue
<1>3. CASE UnSubscribeClient(c) \/ RemoveFromChanels(c)
  <2>1. queues' = queues \/ \E q \in DOMAIN queues : queues' = Remove(q, c)
    BY <1>3, RemovesOnly
  <2>2. chanelSubscription' = chanelSubscription
    BY <1>3 DEF UnSubscribeClient, RemoveFromChanels
  <2>3. CASE queues' = queues
    BY <2>2, <2>3 DEF Live
  <2>4. CASE \E q \in DOMAIN queues : queues' = Remove(q, c)
    BY <1>0, <2>2, <2>4, RemoveLive
  <2> QED
    BY <2>1, <2>3, <2>4
<1>4. CASE UNCHANGED <<chanelSubscription, queues>>
  BY <1>4 DEF Live
<1> QED
  BY <1>1, <1>2, <1>3, <1>4, QueueSteps

\* The same, in the words of the invariant, for a connection i that is not c.
LEMMA OthersHold ==
    ASSUME Types, NEW c \in Conns, Handler(c), NEW i \in Conns \ {c}, NEW d \in Destinations
    PROVE  /\ Absent(i, d) => Absent(i, d)'
           /\ HeldIn(i, d) => HeldIn(i, d)'
           /\ chanelSubscription[d] <= chanelSubscription'[d]
           /\ \A r \in DOMAIN queues : /\ chanelSubscription'[d] = r => chanelSubscription[d] = r
                                       /\ Only(r, d) => Only(r, d)'
<1>0. DataOK
  BY DEF Types
<1>1. /\ \A e \in Destinations : chanelSubscription[e] \in 0..Len(queues)
      /\ DOMAIN queues = 1..Len(queues) /\ Len(queues) \in Nat
  BY <1>0 DEF DataOK
<1>2. /\ \A r \in DOMAIN queues : Live(r, i)' = Live(r, i)
      /\ \A e \in Destinations :
            \/ chanelSubscription'[e] = chanelSubscription[e]
            \/ /\ chanelSubscription'[e] = Len(queues) + 1
               /\ \A r \in {Len(queues) + 1} : Live(r, i)' = {}
  BY Growth
<1>3. /\ chanelSubscription[d] <= chanelSubscription'[d]
      /\ \A r \in DOMAIN queues : /\ chanelSubscription'[d] = r => chanelSubscription[d] = r
                                  /\ Only(r, d) => Only(r, d)'
  BY <1>1, <1>2 DEF Only
<1>4. Absent(i, d) => Absent(i, d)'
  BY <1>1, <1>2 DEF Absent, Live
<1>5. ASSUME HeldIn(i, d)
      PROVE  HeldIn(i, d)'
  <2>1. PICK r \in 1..chanelSubscription[d] : Live(r, i) # {} /\ Only(r, d)
    BY <1>5 DEF HeldIn
  <2>2. r \in DOMAIN queues /\ r \in 1..chanelSubscription'[d]
    BY <1>1, <1>2
  <2>3. Live(r, i)' # {} /\ Only(r, d)'
    BY <1>2, <1>3, <2>1, <2>2
  <2> QED
    BY <2>2, <2>3 DEF HeldIn
<1> QED
  BY <1>3, <1>4, <1>5

\* What a connection is to be queued for are channels, and channels that it holds.
LEMMA WantedHeld ==
    ASSUME Types, EndsOK, NEW c \in Conns
    PROVE  /\ Wanted(c) \subseteq Destinations
           /\ Ended(c) => Wanted(c) \subseteq destinationToSubId[c]
BY DEF Types, DataOK, EndsOK, Wanted, Ended

LEMMA OthersQueues ==
    ASSUME Types, EndsOK, NEW c \in Conns, Handler(c), NEW i \in Conns \ {c}, QueuesOf(i)
    PROVE  QueuesOf(i)'
<1>0. /\ destinationToSubId'[i] = destinationToSubId[i]
      /\ shouldTerminate'[i] = shouldTerminate[i] /\ late'[i] = late[i]
  BY OthersKept
<1>1. /\ job'[i] = job[i] /\ Wanted(i)' = Wanted(i)
      /\ Wanted(i) \subseteq Destinations
  BY OthersKept, WantedHeld
<1>2. Leaves(i)' = Leaves(i) /\ Enters(i)' = Enters(i)
  BY <1>1 DEF Leaves, Enters
<1>3. job[i].at = "add" => job[i].queue \in DOMAIN queues /\ job[i].queue \in Nat
  BY JobAt DEF Types, ReferencesOK, ReferencesOf, Adding
<1>4. NotHeld(i)'
  BY <1>1, <1>2, OthersHold DEF QueuesOf, NotHeld
<1>5. Held(i)'
  <2>1. ASSUME NEW d \in Destinations, Pending(i, d)
        PROVE  Pending(i, d)'
    <3>1. /\ chanelSubscription[d] \in Nat /\ chanelSubscription'[d] \in Nat
          /\ chanelSubscription[d] <= chanelSubscription'[d]
      <4>1. DataOK /\ DataOK'
        BY StepTypes DEF Types
      <4> QED
        BY <4>1, OthersHold DEF DataOK
    <3> QED
      BY <1>1, <1>2, <1>3, <2>1, <3>1, OthersHold DEF Pending
  <2> QED
    BY <1>1, <1>2, <2>1, OthersHold DEF QueuesOf, Held
<1>6. Entering(i)'
  <2>1. Enters(i) => job[i].dest \in Destinations
    BY JobAt DEF Enters, AtChannel, Types
  <2>2. job[i].at = "add" => \A r \in {job[i].queue} : Live(r, i)' = Live(r, i)
    BY <1>3, Growth
  <2> QED
    BY <1>1, <1>2, <1>3, <2>1, <2>2, OthersHold DEF QueuesOf, Entering, Live
<1>7. Left(i)'
  BY <1>1, OthersHold DEF QueuesOf, Left
<1>8. Ended(i)'
  BY <1>0, <1>2 DEF QueuesOf, Ended
<1> QED
  BY <1>4, <1>5, <1>6, <1>7, <1>8 DEF QueuesOf

-----------------------------------------------------------------------------
(* What a step of c does to its own queues.                                  *)

\* No SUBSCRIBE, UNSUBSCRIBE or end of the session of c is being handled.
Neutral(c) ==
    job[c].at \in {"idle", "dead", "check", "connect", "increment", "subscribers",
                   "loop", "client", "subscriptionId", "send", "handler"}

LEMMA NeutralSteps ==
    ASSUME Types, NEW c \in Conns, Connect(c) \/ SendFrame(c)
    PROVE  /\ UNCHANGED <<chanelSubscription, queues, destinationToSubId>>
           /\ Neutral(c)
           /\ \/ Neutral(c)' /\ UNCHANGED <<shouldTerminate, late>>
              \/ Terminates(c) /\ Goes(c, [at |-> "logout"])
<1> USE DEF Idle, Dead
<1>0. job \in [Conns -> Job] /\ job[c] \in Job
  BY DEF Types
<1> DEFINE Out == Terminates(c) /\ Goes(c, [at |-> "logout"])
<1>1. UNCHANGED <<chanelSubscription, queues, destinationToSubId>>
  BY DEF Connect, SendFrame, UserIsExists, IsLoggedIn, ConnectKnown, ConnectNew,
     HandleSend, IncrementCounterMessageId, GetSubscribers, NextSubscriber, EndSend,
     GetActiveClient, GetSubscriptionId, Send, SendToHandler, channels, protocols
<1>a. Neutral(c)
  <2>1. CASE UserIsExists(c) \/ \E d \in Destinations : HandleSend(c, d)
    <3>1. PICK r : Begin(c, r)
      BY <2>1 DEF UserIsExists, HandleSend
    <3> QED
      BY <3>1, BeginFacts DEF Neutral
  <2>2. CASE IsLoggedIn(c) \/ ConnectKnown(c) \/ ConnectNew(c)
    BY <2>2 DEF IsLoggedIn, ConnectKnown, ConnectNew, Neutral
  <2>3. CASE \/ IncrementCounterMessageId(c) \/ GetSubscribers(c) \/ NextSubscriber(c)
             \/ EndSend(c) \/ GetActiveClient(c) \/ GetSubscriptionId(c) \/ Send(c)
             \/ SendToHandler(c)
    BY <2>3 DEF IncrementCounterMessageId, GetSubscribers, NextSubscriber, EndSend,
       GetActiveClient, GetSubscriptionId, Send, SendToHandler, Neutral
  <2> QED
    BY <2>1, <2>2, <2>3 DEF Connect, SendFrame
<1>2. ASSUME NEW r, Goes(c, r), r.at \in {"idle", "dead", "check", "connect", "increment",
             "subscribers", "loop", "client", "subscriptionId", "send", "handler"}
      PROVE  Neutral(c)'
  BY <1>0, <1>2 DEF Goes, Neutral
<1>b. Neutral(c)' \/ Out
  <2>3. CASE ConnectKnown(c) \/ ConnectNew(c) \/ IncrementCounterMessageId(c) \/ EndSend(c)
    BY <1>2, <2>3 DEF ConnectKnown, ConnectNew, IncrementCounterMessageId, EndSend
  <2>4. CASE UserIsExists(c) \/ \E d \in Destinations : HandleSend(c, d)
    BY <1>2, <2>4 DEF UserIsExists, HandleSend, Begin
  <2>5. CASE IsLoggedIn(c) \/ GetSubscriptionId(c) \/ Send(c) \/ GetActiveClient(c)
    <3>1. PICK at \in {"connect", "send", "loop", "handler", "subscriptionId"} :
              Out \/ Goes(c, [job[c] EXCEPT !.at = at]) \/ Goes(c, Idle) \/ Goes(c, Dead)
      BY <2>5 DEF IsLoggedIn, GetSubscriptionId, Send, GetActiveClient, Dies
    <3>2. [job[c] EXCEPT !.at = at].at = at
      BY <1>0, NewPlace
    <3>3. CASE Goes(c, [job[c] EXCEPT !.at = at])
      <4>1. PICK r : Goes(c, r) /\ r.at = at
        BY <3>2, <3>3
      <4> QED
        BY <1>2, <4>1
    <3>4. CASE Goes(c, Idle) \/ Goes(c, Dead)
      BY <1>2, <3>4
    <3> QED
      BY <3>1, <3>3, <3>4
  <2>6. CASE GetSubscribers(c)
    <3>1. PICK r : Goes(c, r) /\ r.at = "loop"
      BY <2>6 DEF GetSubscribers
    <3> QED
      BY <1>2, <3>1
  <2>7. CASE NextSubscriber(c)
    <3>1. job[c] \in Sending
      BY <1>0, <2>7, JobAt DEF NextSubscriber, InSending
    <3>2. PICK e, n : Goes(c, [job[c] EXCEPT !.at = "client", !.subscriber = e, !.next = n])
      BY <2>7 DEF NextSubscriber
    <3>3. [job[c] EXCEPT !.at = "client", !.subscriber = e, !.next = n].at = "client"
      BY <3>1 DEF Sending
    <3> QED
      BY <1>2, <3>2, <3>3
  <2>8. CASE SendToHandler(c)
    <3>1. job[c] \in Sending
      BY <1>0, <2>8, JobAt DEF SendToHandler, InSending
    <3> DEFINE t == job[c].served \cup {job[c].subscriber}
    <3>2. PICK at \in {"send", "loop"} :
              \/ Goes(c, [job[c] EXCEPT !.at = at, !.served = t])
              \/ Goes(c, Idle) \/ Goes(c, Dead)
      BY <2>8 DEF SendToHandler, Dies
    <3> HIDE DEF t
    <3>3. [job[c] EXCEPT !.at = at, !.served = t].at = at
      BY <3>1 DEF Sending
    <3>4. PICK r : Goes(c, r) /\ r.at \in {at, "idle", "dead"}
      BY <3>2, <3>3
    <3> QED
      BY <1>2, <3>4
  <2> QED
    BY <2>3, <2>4, <2>5, <2>6, <2>7, <2>8 DEF Connect, SendFrame
<1>c. UNCHANGED <<shouldTerminate, late>> \/ Out
  BY DEF Connect, SendFrame, UserIsExists, IsLoggedIn, ConnectKnown, ConnectNew,
     HandleSend, IncrementCounterMessageId, GetSubscribers, NextSubscriber, EndSend,
     GetActiveClient, GetSubscriptionId, Send, SendToHandler, protocols
<1> QED
  BY <1>1, <1>a, <1>b, <1>c

\* Where the channels and what c holds stay the same, so does what is said of them.
LEMMA SameHold ==
    ASSUME UNCHANGED <<chanelSubscription, queues>>, NEW c \in Conns, NEW d \in Destinations
    PROVE  /\ Absent(c, d)' = Absent(c, d)
           /\ HeldIn(c, d)' = HeldIn(c, d)
           /\ \A q : Only(q, d)' = Only(q, d)
           /\ \A q : Live(q, c)' = Live(q, c)
BY DEF Absent, HeldIn, Only, Live

\* A handler that goes on to log out has nothing left to be queued for.
LEMMA LeavingQueues ==
    ASSUME Types, EndsOK, NEW c \in Conns, QueuesOf(c),
           \/ Terminates(c) /\ Goes(c, [at |-> "logout"])
           \/ DisconnectUser(c) \/ RemoveClient(c)
    PROVE  QueuesOf(c)'
<1>0. job \in [Conns -> Job] /\ late \in [Conns -> SUBSET Destinations]
      /\ shouldTerminate \in [Conns -> BOOLEAN]
  BY DEF Types, EndsOK
<1>1. \/ job'[c].at \in {"logout", "removeClient"}
      \/ job'[c] = [at |-> "removeFromChanels", left |-> Destinations]
  BY <1>0 DEF DisconnectUser, RemoveClient, Goes
<1>2. shouldTerminate'[c] /\ late'[c] = {}
  BY <1>0 DEF DisconnectUser, RemoveClient, Terminates, QueuesOf, Ended, Leaves, protocols
<1> QED
  BY <1>1, <1>2 DEF QueuesOf, NotHeld, Held, Entering, Left, Ended, Leaves, Enters

LEMMA NeutralQueues ==
    ASSUME Types, EndsOK, NEW c \in Conns, QueuesOf(c), Connect(c) \/ SendFrame(c)
    PROVE  QueuesOf(c)'
<1>1. /\ UNCHANGED <<chanelSubscription, queues>>
      /\ destinationToSubId' = destinationToSubId
      /\ Neutral(c)
      /\ \/ Neutral(c)' /\ UNCHANGED <<shouldTerminate, late>>
         \/ Terminates(c) /\ Goes(c, [at |-> "logout"])
  BY NeutralSteps
<1>2. CASE Terminates(c) /\ Goes(c, [at |-> "logout"])
  BY <1>2, LeavingQueues
<1>3. CASE Neutral(c)' /\ UNCHANGED <<shouldTerminate, late>>
  <2>1. /\ \A d \in Destinations \ Wanted(c) : Absent(c, d)
        /\ \A d \in Wanted(c) : HeldIn(c, d)
    BY <1>1 DEF QueuesOf, NotHeld, Held, Neutral, Leaves, Pending, Enters
  <2>2. Wanted(c)' = Wanted(c) /\ Wanted(c) \subseteq Destinations
    BY <1>1, <1>3, WantedHeld DEF Wanted
  <2>3. NotHeld(c)' /\ Held(c)'
    BY <1>1, <2>1, <2>2, SameHold DEF NotHeld, Held
  <2>4. Entering(c)' /\ Left(c)'
    BY <1>3 DEF Entering, Left, Enters, Neutral
  <2>5. Ended(c)'
    BY <1>1, <1>3 DEF QueuesOf, Ended, Leaves, Neutral
  <2> QED
    BY <2>3, <2>4, <2>5 DEF QueuesOf
<1> QED
  BY <1>1, <1>2, <1>3

\* What c is to be queued for stays the same where its own maps do.
LEMMA SameWanted ==
    ASSUME UNCHANGED protocols, NEW c \in Conns, Ended(c), ~ Leaves(c)'
    PROVE  Wanted(c)' = Wanted(c) /\ Ended(c)'
BY DEF protocols, Wanted, Ended

\* The parts of a SUBSCRIBE.
LEMMA SubscribeQueues ==
    ASSUME Types, EndsOK, Queues, NEW c \in Conns, Subscribe(c)
    PROVE  QueuesOf(c)'
<1> USE DEF Idle, channels
<1>0. /\ DataOK /\ job \in [Conns -> Job] /\ QueuesOf(c) /\ Distinct /\ ReferencesOf(c)
      /\ Wanted(c) \subseteq Destinations /\ Ended(c)
      /\ \A d \in Destinations : chanelSubscription[d] \in 0..Len(queues)
      /\ DOMAIN queues = 1..Len(queues) /\ Len(queues) \in Nat
  BY WantedHeld DEF Types, DataOK, Queues, ReferencesOK, QueuesOf
<1>1. ASSUME NEW d \in Destinations, HoldDestination(c, d)
      PROVE  QueuesOf(c)'
  <2>1. /\ UNCHANGED <<chanelSubscription, queues>>
        /\ d \notin destinationToSubId[c] /\ Wanted(c)' = Wanted(c) \cup {d}
        /\ Ended(c)'
        /\ job[c].at = "idle" /\ job'[c] = [at |-> "containsKey", dest |-> d]
    <3>1. /\ UNCHANGED <<chanelSubscription, queues>>
          /\ d \notin destinationToSubId[c]
          /\ job[c].at = "idle" /\ job'[c] = [at |-> "containsKey", dest |-> d]
      BY <1>0, <1>1 DEF HoldDestination, Begin, Goes
    <3>2. /\ destinationToSubId'[c] = destinationToSubId[c] \cup {d}
          /\ shouldTerminate' = shouldTerminate
          /\ late'[c] = IF shouldTerminate[c] THEN late[c] \cup {d} ELSE late[c]
      BY <1>0, <1>1 DEF HoldDestination, DataOK, EndsOK
    <3>3. ~ Leaves(c)'
      BY <3>1 DEF Leaves
    <3> QED
      BY <1>0, <3>1, <3>2, <3>3 DEF Wanted, Ended
  <2>2. /\ \A e \in Destinations \ Wanted(c) : Absent(c, e)
        /\ \A e \in Wanted(c) : HeldIn(c, e)
    BY <1>0, <2>1 DEF QueuesOf, NotHeld, Held, Leaves, Pending, Enters
  <2>3. NotHeld(c)' /\ Held(c)'
    BY <1>0, <2>1, <2>2, SameHold DEF NotHeld, Held, Pending, Enters
  <2>4. Entering(c)' /\ Left(c)'
    <3>1. d \notin Wanted(c)
      BY <1>0, <2>1, WantedHeld
    <3> QED
      BY <2>1, <2>2, <3>1, SameHold DEF Entering, Left, Enters
  <2> QED
    BY <2>1, <2>3, <2>4 DEF QueuesOf
<1>2. CASE LookForQueue(c)
  <2>1. /\ UNCHANGED <<chanelSubscription, queues>> /\ UNCHANGED protocols
        /\ Enters(c) /\ job[c] \in AtChannel
    BY <1>0, <1>2, JobAt DEF LookForQueue, Enters
  <2>2. PICK at \in {"get", "put"} : job'[c] = [job[c] EXCEPT !.at = at]
    BY <1>0, <1>2 DEF LookForQueue, Goes
  <2>3. Enters(c)' /\ job'[c].dest = job[c].dest /\ job'[c].at \in {"get", "put"}
    BY <2>1, <2>2 DEF Enters, AtChannel
  <2>w. Wanted(c)' = Wanted(c) /\ Ended(c)'
    BY <1>0, <2>1, <2>3, SameWanted DEF Leaves
  <2>4. /\ \A e \in Destinations \ Wanted(c) : Absent(c, e)
        /\ \A e \in Wanted(c) \ {job[c].dest} : HeldIn(c, e)
        /\ job[c].dest \in Wanted(c) /\ Absent(c, job[c].dest)
    BY <1>0, <2>1 DEF QueuesOf, NotHeld, Held, Entering, Leaves, Pending, Enters
  <2>5. NotHeld(c)' /\ Held(c)'
    BY <1>0, <2>1, <2>3, <2>4, <2>w, SameHold DEF NotHeld, Held, Pending
  <2>6. Entering(c)' /\ Left(c)'
    <3>1. \A e \in {job[c].dest} : Absent(c, e)'
      BY <1>0, <2>1, <2>4, SameHold
    <3> QED
      BY <1>0, <2>1, <2>3, <2>4, <2>w, <3>1 DEF Entering, Left, Absent, Live
  <2> QED
    BY <2>5, <2>6, <2>w DEF QueuesOf
<1>3. CASE PutQueue(c)
  <2>1. PICK d \in Destinations : d = job[c].dest
    BY <1>3, PutLive
  <2>2. PICK n : n = Len(queues) + 1
    OBVIOUS
  <2>3. /\ n \notin DOMAIN queues /\ chanelSubscription'[d] = n
        /\ \A r \in DOMAIN queues : Live(r, c)' = Live(r, c)
        /\ Live(n, c)' = {}
        /\ \A e \in Destinations \ {d} : chanelSubscription'[e] = chanelSubscription[e]
    BY <1>3, <2>1, <2>2, PutLive
  <2>4. job[c].at = "put" /\ job'[c] = [at |-> "get", dest |-> d]
        /\ UNCHANGED protocols
    <3>1. [job[c] EXCEPT !.at = "get"] = [at |-> "get", dest |-> d]
      BY <1>0, <1>3, <2>1, JobAt DEF PutQueue, AtChannel
    <3> QED
      BY <1>0, <1>3, <3>1 DEF PutQueue, Goes
  <2>w. Wanted(c)' = Wanted(c) /\ Ended(c)'
    BY <1>0, <2>4, SameWanted DEF Leaves
  <2>5. /\ \A e \in Destinations \ Wanted(c) : Absent(c, e)
        /\ \A e \in Wanted(c) \ {d} : HeldIn(c, e)
        /\ d \in Wanted(c)
    BY <1>0, <2>1, <2>4 DEF QueuesOf, NotHeld, Held, Entering, Leaves, Pending, Enters
  <2>6. ASSUME NEW e \in Destinations \ {d}
        PROVE  /\ Absent(c, e) => Absent(c, e)'
               /\ HeldIn(c, e) => HeldIn(c, e)'
    <3>1. Absent(c, e) => Absent(c, e)'
      BY <1>0, <2>3, <2>6 DEF Absent, Live
    <3>2. ASSUME HeldIn(c, e)
          PROVE  HeldIn(c, e)'
      <4>1. PICK r \in 1..chanelSubscription[e] : Live(r, c) # {} /\ Only(r, e)
        BY <3>2 DEF HeldIn
      <4>2. r \in DOMAIN queues /\ r # n /\ r \in 1..chanelSubscription'[e]
        BY <1>0, <2>3, <2>6, <4>1
      <4>3. Live(r, c)' # {} /\ Only(r, e)'
        BY <2>3, <4>1, <4>2 DEF Only
      <4> QED
        BY <4>2, <4>3 DEF HeldIn
    <3> QED
      BY <3>1, <3>2
  <2>7. Absent(c, d)'
    BY <2>3 DEF Absent, Live
  <2>8. NotHeld(c)' /\ Held(c)'
    BY <1>0, <2>4, <2>5, <2>6, <2>w DEF NotHeld, Held, Pending, Enters
  <2>9. Entering(c)' /\ Left(c)'
    BY <2>4, <2>5, <2>7, <2>w DEF Entering, Left, Enters, Absent, Live
  <2> QED
    BY <2>8, <2>9, <2>w DEF QueuesOf
<1>4. CASE GetQueue(c)
  <2>1. PICK d \in Destinations, q \in DOMAIN queues : d = job[c].dest /\ q = chanelSubscription[d]
    <3>1. job[c].dest \in Destinations
      BY <1>0, <1>4, JobAt DEF GetQueue, AtChannel
    <3>2. chanelSubscription[job[c].dest] \in DOMAIN queues
      BY <1>0, <1>4, <3>1 DEF GetQueue, ReferencesOf
    <3> QED
      BY <3>1, <3>2
  <2>2. /\ UNCHANGED <<chanelSubscription, queues>> /\ UNCHANGED protocols
        /\ job[c].at = "get" /\ job'[c] = [at |-> "add", queue |-> q]
    BY <1>0, <1>4, <2>1 DEF GetQueue, Goes
  <2>w. Wanted(c)' = Wanted(c) /\ Ended(c)'
    BY <1>0, <2>2, SameWanted DEF Leaves
  <2>3. /\ \A e \in Destinations \ Wanted(c) : Absent(c, e)
        /\ \A e \in Wanted(c) \ {d} : HeldIn(c, e)
        /\ d \in Wanted(c) /\ Live(q, c) = {}
    <3>1. Enters(c) /\ ~ Leaves(c) /\ chanelSubscription[d] # 0
      BY <1>0, <2>1, <2>2 DEF Enters, Leaves
    <3>2. d \in Wanted(c) /\ Live(q, c) = {}
      BY <1>0, <2>1, <3>1 DEF QueuesOf, Entering, Absent
    <3>3. \A e \in Destinations \ Wanted(c) : Absent(c, e)
      BY <1>0, <2>2, <3>1 DEF QueuesOf, NotHeld
    <3>4. \A e \in Wanted(c) \ {d} : HeldIn(c, e)
      BY <1>0, <2>1, <2>2, <3>1 DEF QueuesOf, Held, Pending
    <3> QED
      BY <3>2, <3>3, <3>4, Zenon
  <2>4. Only(q, d)
    BY <1>0, <2>1 DEF Distinct
  <2>5. NotHeld(c)'
    BY <1>0, <2>2, <2>3, <2>w, SameHold DEF NotHeld
  <2>6. Pending(c, d)'
    BY <1>0, <2>1, <2>2, <2>4, SameHold DEF Pending
  <2>7. Held(c)'
    BY <1>0, <2>2, <2>3, <2>6, <2>w, SameHold DEF Held
  <2>8. Entering(c)' /\ Left(c)'
    BY <2>1, <2>2, <2>3, <2>4, <2>w DEF Entering, Left, Enters, Only, Live
  <2> QED
    BY <2>5, <2>7, <2>8, <2>w DEF QueuesOf
<1>5. CASE AddToQueue(c)
  <2>1. PICK q \in DOMAIN queues : q = job[c].queue
    BY <1>0, <1>5 DEF AddToQueue, ReferencesOf
  <2>2. /\ UNCHANGED chanelSubscription /\ UNCHANGED protocols
        /\ job[c].at = "add" /\ job'[c] = Idle
        /\ queues' = [queues EXCEPT ![q] = Append(@, c)]
    BY <1>0, <1>5, <2>1 DEF AddToQueue, Goes
  <2>w. Wanted(c)' = Wanted(c) /\ Ended(c)'
    BY <1>0, <2>2, SameWanted DEF Leaves
  <2>3. /\ \A r \in DOMAIN queues \ {q} : Live(r, c)' = Live(r, c)
        /\ Live(q, c)' # {}
    BY <1>0, <2>2, AppendLive
  <2>4. /\ \A e \in Destinations \ Wanted(c) : Absent(c, e) /\ chanelSubscription[e] # q
        /\ \A e \in Wanted(c) :
              HeldIn(c, e) \/ (q <= chanelSubscription[e] /\ Only(q, e))
    BY <1>0, <2>1, <2>2 DEF QueuesOf, NotHeld, Held, Entering, Leaves, Pending, Enters
  <2>5. ASSUME NEW e \in Destinations, Absent(c, e), chanelSubscription[e] # q
        PROVE  Absent(c, e)'
    BY <1>0, <2>2, <2>3, <2>5 DEF Absent, Live
  <2>6. ASSUME NEW e \in Destinations, NEW r \in 1..chanelSubscription[e], Only(r, e),
               Live(r, c) # {} \/ r = q
        PROVE  HeldIn(c, e)'
    <3>1. r \in 1..chanelSubscription'[e] /\ Only(r, e)'
      BY <2>2, <2>6 DEF Only
    <3>2. Live(r, c)' # {}
      BY <1>0, <2>3, <2>6
    <3> QED
      BY <3>1, <3>2 DEF HeldIn
  <2>7. ASSUME NEW e \in Wanted(c)
        PROVE  HeldIn(c, e)'
    BY <1>0, <2>4, <2>6, <2>7 DEF HeldIn
  <2>8. NotHeld(c)' /\ Held(c)'
    BY <1>0, <2>2, <2>4, <2>5, <2>7, <2>w DEF NotHeld, Held
  <2>9. Entering(c)' /\ Left(c)'
    BY <2>2 DEF Entering, Left, Enters
  <2> QED
    BY <2>8, <2>9, <2>w DEF QueuesOf
<1> QED
  BY <1>1, <1>2, <1>3, <1>4, <1>5 DEF Subscribe

\* The parts of an UNSUBSCRIBE.
LEMMA UnsubscribeQueues ==
    ASSUME Types, EndsOK, Queues, NEW c \in Conns, Unsubscribe(c)
    PROVE  QueuesOf(c)'
<1> USE DEF Idle, channels
<1>0. /\ DataOK /\ job \in [Conns -> Job] /\ QueuesOf(c) /\ Distinct /\ ReferencesOf(c)
      /\ Wanted(c) \subseteq Destinations /\ Ended(c)
      /\ \A d \in Destinations : chanelSubscription[d] \in 0..Len(queues)
      /\ DOMAIN queues = 1..Len(queues) /\ Len(queues) \in Nat
  BY WantedHeld DEF Types, DataOK, Queues, ReferencesOK, QueuesOf
<1>1. ASSUME NEW d \in Destinations, GiveUpDestination(c, d)
      PROVE  QueuesOf(c)'
  <2>1. /\ UNCHANGED <<chanelSubscription, queues>>
        /\ Wanted(c)' = Wanted(c) \ {d} /\ Ended(c)'
        /\ job[c].at = "idle" /\ job'[c] = [at |-> "unsubscribe", dest |-> d]
    <3>1. /\ UNCHANGED <<chanelSubscription, queues>>
          /\ job[c].at = "idle" /\ job'[c] = [at |-> "unsubscribe", dest |-> d]
      BY <1>0, <1>1 DEF GiveUpDestination, Begin, Goes
    <3>2. /\ destinationToSubId'[c] = destinationToSubId[c] \ {d}
          /\ shouldTerminate' = shouldTerminate
          /\ late'[c] = late[c] \ {d}
      BY <1>0, <1>1 DEF GiveUpDestination, DataOK, EndsOK
    <3>3. ~ Leaves(c)'
      BY <3>1 DEF Leaves
    <3> QED
      BY <1>0, <3>1, <3>2, <3>3 DEF Wanted, Ended
  <2>2. /\ \A e \in Destinations \ Wanted(c) : Absent(c, e)
        /\ \A e \in Wanted(c) : HeldIn(c, e)
    BY <1>0, <2>1 DEF QueuesOf, NotHeld, Held, Leaves, Pending, Enters
  <2>3. NotHeld(c)' /\ Held(c)'
    BY <1>0, <2>1, <2>2, SameHold DEF NotHeld, Held
  <2>4. Entering(c)' /\ Left(c)'
    BY <2>1 DEF Entering, Left, Enters
  <2> QED
    BY <2>1, <2>3, <2>4 DEF QueuesOf
<1>2. CASE UnSubscribeClient(c)
  <2>1. PICK d \in Destinations, q \in DOMAIN queues : d = job[c].dest /\ q = chanelSubscription[d]
    <3>1. job[c].dest \in Destinations
      BY <1>0, <1>2, JobAt DEF UnSubscribeClient, AtChannel
    <3>2. chanelSubscription[job[c].dest] \in DOMAIN queues
      BY <1>0, <1>2, <3>1 DEF UnSubscribeClient, ReferencesOf
    <3> QED
      BY <3>1, <3>2
  <2>2. /\ UNCHANGED chanelSubscription /\ UNCHANGED protocols
        /\ job[c].at = "unsubscribe" /\ job'[c] = Idle /\ queues' = Remove(q, c)
    BY <1>0, <1>2, <2>1 DEF UnSubscribeClient, Goes
  <2>w. Wanted(c)' = Wanted(c) /\ Ended(c)'
    BY <1>0, <2>2, SameWanted DEF Leaves
  <2>3. /\ \A r \in DOMAIN queues : Live(r, c)' \subseteq Live(r, c)
        /\ \A r \in DOMAIN queues \ {q} : Live(r, c)' = Live(r, c)
        /\ Live(q, c)' = {}
    BY <1>0, <2>2, RemoveLive DEF Queues, OneCell
  <2>4. /\ \A e \in Destinations \ Wanted(c) : Absent(c, e) \/ e = d
        /\ \A e \in Wanted(c) : HeldIn(c, e)
        /\ d \notin Wanted(c)
    BY <1>0, <2>1, <2>2 DEF QueuesOf, NotHeld, Held, Entering, Leaves, Pending, Enters
  <2>5. ASSUME NEW e \in Destinations, Absent(c, e) \/ e = d
        PROVE  Absent(c, e)'
    BY <1>0, <2>1, <2>2, <2>3, <2>5 DEF Absent, Live
  <2>6. ASSUME NEW e \in Wanted(c)
        PROVE  HeldIn(c, e)'
    <3>1. PICK r \in 1..chanelSubscription[e] : Live(r, c) # {} /\ Only(r, e)
      BY <2>4 DEF HeldIn
    <3>2. r \in DOMAIN queues /\ r # q
      BY <1>0, <2>1, <2>4, <3>1 DEF Only
    <3>3. Live(r, c)' # {} /\ Only(r, e)' /\ r \in 1..chanelSubscription'[e]
      BY <2>2, <2>3, <3>1, <3>2 DEF Only
    <3> QED
      BY <3>3 DEF HeldIn
  <2>7. NotHeld(c)' /\ Held(c)'
    BY <1>0, <2>2, <2>4, <2>5, <2>6, <2>w DEF NotHeld, Held
  <2>8. Entering(c)' /\ Left(c)'
    BY <2>2 DEF Entering, Left, Enters
  <2> QED
    BY <2>7, <2>8, <2>w DEF QueuesOf
<1> QED
  BY <1>1, <1>2 DEF Unsubscribe

\* The end of a session.
LEMMA RemovalQueues ==
    ASSUME Types, EndsOK, Queues, NEW c \in Conns, RemoveFromChanels(c)
    PROVE  QueuesOf(c)'
<1> USE DEF Idle
<1>0. /\ DataOK /\ job \in [Conns -> Job] /\ QueuesOf(c) /\ job[c] \in Leaving
      /\ \A d \in Destinations : chanelSubscription[d] \in 0..Len(queues)
      /\ DOMAIN queues = 1..Len(queues) /\ Len(queues) \in Nat
      /\ job[c].at = "removeFromChanels"
  BY JobAt DEF Types, DataOK, Queues, RemoveFromChanels
<1>1. PICK d \in job[c].left :
        /\ queues' = RemoveFromChanel(c, d)
        /\ Goes(c, IF job[c].left = {d} THEN Idle
                   ELSE [job[c] EXCEPT !.left = job[c].left \ {d}])
        /\ chanelSubscription' = chanelSubscription
  BY DEF RemoveFromChanels
<1>2. /\ d \in Destinations
      /\ \A e \in Destinations \ job[c].left : Absent(c, e)
  BY <1>0 DEF Leaving, QueuesOf, Left
<1>3. \A e \in Destinations : Absent(c, e) \/ e = d => Absent(c, e)'
  <2>1. CASE chanelSubscription[d] = 0
    BY <1>0, <1>1, <2>1, SameHold DEF RemoveFromChanel, Absent
  <2>2. CASE chanelSubscription[d] # 0
    <3>1. PICK q \in DOMAIN queues : q = chanelSubscription[d] /\ queues' = Remove(q, c)
      BY <1>0, <1>1, <1>2, <2>2 DEF RemoveFromChanel
    <3>2. /\ \A r \in DOMAIN queues : Live(r, c)' \subseteq Live(r, c)
          /\ Live(q, c)' = {}
      BY <1>0, <3>1, RemoveLive DEF Queues, OneCell
    <3> QED
      BY <1>0, <1>1, <3>1, <3>2 DEF Absent, Live
  <2> QED
    BY <2>1, <2>2
<1>4. \/ job[c].left = {d} /\ job'[c] = Idle
      \/ job'[c] = [at |-> "removeFromChanels", left |-> job[c].left \ {d}]
  <2>1. ASSUME NEW t
        PROVE  [job[c] EXCEPT !.left = t] = [at |-> "removeFromChanels", left |-> t]
    <3>1. job[c] \in Leaving
      BY <1>0
    <3> QED
      BY <3>1 DEF Leaving
  <2> QED
    BY <1>0, <1>1, <2>1 DEF Goes
<1>5. Left(c)'
  BY <1>2, <1>3, <1>4 DEF Left
<1>6. late'[c] = {} /\ shouldTerminate'[c] /\ Ended(c)' /\ Wanted(c)' = {}
  BY <1>0 DEF RemoveFromChanels, QueuesOf, Ended, Leaves, Wanted, protocols
<1>7. NotHeld(c)'
  BY <1>2, <1>3, <1>4 DEF NotHeld, Leaves
<1> QED
  BY <1>4, <1>5, <1>6, <1>7 DEF QueuesOf, Held, Entering, Enters

\* What holds of all queues.
LEMMA GlobalQueues ==
    ASSUME Types, Queues, NEW c \in Conns, Handler(c)
    PROVE  OneCell' /\ Distinct'
<1>0. /\ DataOK /\ job \in [Conns -> Job] /\ QueuesOf(c) /\ Distinct /\ OneCell /\ ReferencesOf(c)
      /\ \A d \in Destinations : chanelSubscription[d] \in 0..Len(queues)
      /\ DOMAIN queues = 1..Len(queues) /\ Len(queues) \in Nat
  BY DEF Types, DataOK, Queues, ReferencesOK
<1>1. CASE PutQueue(c)
  <2>1. PICK d \in Destinations : d = job[c].dest
    BY <1>1, PutLive
  <2>0. PICK n : n = Len(queues) + 1
    OBVIOUS
  <2>2. /\ DOMAIN queues' = DOMAIN queues \cup {n} /\ n \notin DOMAIN queues
        /\ \A r \in DOMAIN queues, i \in Conns : Live(r, i)' = Live(r, i)
        /\ \A i \in Conns : Live(n, i)' = {}
        /\ chanelSubscription'[d] = n
        /\ \A e \in Destinations \ {d} : chanelSubscription'[e] = chanelSubscription[e]
    BY <1>1, <2>1, <2>0, PutLive
  <2>3. OneCell'
    BY <1>0, <2>2 DEF OneCell
  <2>4. Distinct'
    BY <1>0, <2>2 DEF Distinct, Only
  <2> QED
    BY <2>3, <2>4
<1>2. CASE AddToQueue(c)
  <2>1. PICK q \in DOMAIN queues : q = job[c].queue
    BY <1>0, <1>2 DEF AddToQueue, ReferencesOf
  <2>2. /\ chanelSubscription' = chanelSubscription /\ Live(q, c) = {}
        /\ queues' = [queues EXCEPT ![q] = Append(@, c)]
    BY <1>0, <1>2, <2>1 DEF AddToQueue, QueuesOf, Entering
  <2>3. /\ DOMAIN queues' = DOMAIN queues
        /\ \A r \in DOMAIN queues, i \in Conns : r # q \/ i # c => Live(r, i)' = Live(r, i)
        /\ Live(q, c)' = {Len(queues[q]) + 1}
    <3>1. /\ DOMAIN queues' = DOMAIN queues
          /\ \A r \in DOMAIN queues \ {q} : Live(r, c)' = Live(r, c)
          /\ \A r \in DOMAIN queues, i \in Conns \ {c} : Live(r, i)' = Live(r, i)
          /\ Live(q, c)' = Live(q, c) \cup {Len(queues[q]) + 1}
      BY <1>0, <2>2, AppendLive
    <3> QED
      BY <2>2, <3>1, Zenon
  <2>4. OneCell'
    BY <1>0, <2>3 DEF OneCell
  <2>5. Distinct'
    BY <1>0, <2>2 DEF Distinct, Only
  <2> QED
    BY <2>4, <2>5
<1>3. CASE UnSubscribeClient(c) \/ RemoveFromChanels(c)
  <2>1. queues' = queues \/ \E q \in DOMAIN queues : queues' = Remove(q, c)
    BY <1>3, RemovesOnly
  <2>2. chanelSubscription' = chanelSubscription
    BY <1>3 DEF UnSubscribeClient, RemoveFromChanels
  <2>3. Distinct'
    BY <1>0, <2>2 DEF Distinct, Only
  <2>4. OneCell'
    <3>1. CASE queues' = queues
      BY <1>0, <3>1 DEF OneCell, Live
    <3>2. CASE \E q \in DOMAIN queues : queues' = Remove(q, c)
      <4>1. /\ DOMAIN queues' = DOMAIN queues
            /\ \A r \in DOMAIN queues, i \in Conns : Live(r, i)' \subseteq Live(r, i)
        BY <1>0, <3>2, RemoveLive
      <4> QED
        BY <1>0, <4>1 DEF OneCell
    <3> QED
      BY <2>1, <3>1, <3>2
  <2> QED
    BY <2>3, <2>4
<1>4. CASE UNCHANGED <<chanelSubscription, queues>>
  BY <1>0, <1>4 DEF OneCell, Distinct, Only, Live
<1> QED
  BY <1>1, <1>2, <1>3, <1>4, QueueSteps

LEMMA StepQueues ==
    ASSUME Types, EndsOK, Queues, NEW c \in Conns, Handler(c)
    PROVE  Queues'
<1>0. HandleDisconnect(c) \/ SendError(c) => Terminates(c) /\ Goes(c, [at |-> "logout"])
  BY DEF HandleDisconnect, SendError, Begin
<1>1. QueuesOf(c)'
  BY <1>0, NeutralQueues, LeavingQueues, SubscribeQueues, UnsubscribeQueues, RemovalQueues
     DEF Handler, Disconnect, Queues
<1>2. \A i \in Conns \ {c} : QueuesOf(i)'
  BY OthersQueues DEF Queues
<1> QED
  BY <1>1, <1>2, GlobalQueues DEF Queues

LEMMA InitQueues == Init => Queues
<1> SUFFICES ASSUME Init PROVE Queues
  OBVIOUS
<1>1. ASSUME NEW c \in Conns
      PROVE  QueuesOf(c)
  BY DEF Init, Idle, QueuesOf, NotHeld, Held, Entering, Left, Ended, Wanted, Leaves, Enters,
         Absent
<1>2. OneCell /\ Distinct
  BY DEF Init, OneCell, Distinct
<1> QED
  BY <1>1, <1>2 DEF Queues

LEMMA StutterQueues == Types /\ EndsOK /\ Queues /\ UNCHANGED vars => Queues'
<1> SUFFICES ASSUME Types, EndsOK, Queues, UNCHANGED vars PROVE Queues'
  OBVIOUS
<1>1. /\ UNCHANGED <<chanelSubscription, queues, protocols, job>>
      /\ UNCHANGED <<chanelSubscription, queues>>
  BY DEF vars, channels
<1>2. ASSUME NEW c \in Conns
      PROVE  QueuesOf(c)'
  <2>1. /\ Wanted(c) \subseteq Destinations /\ Wanted(c)' = Wanted(c)
        /\ Ended(c)' = Ended(c)
    BY <1>1, WantedHeld DEF Wanted, Ended, Leaves, protocols
  <2>2. /\ Leaves(c)' = Leaves(c) /\ Enters(c)' = Enters(c)
        /\ \A d \in Destinations : Pending(c, d)' = Pending(c, d)
    BY <1>1, SameHold DEF Leaves, Enters, Pending
  <2>3. NotHeld(c)' /\ Held(c)' /\ Left(c)'
    BY <1>1, <2>1, <2>2, SameHold DEF Queues, QueuesOf, NotHeld, Held, Left
  <2>4. Entering(c)'
    BY <1>1, <2>1, <2>2 DEF Queues, QueuesOf, Entering, Absent, Live
  <2> QED
    BY <2>1, <2>3, <2>4 DEF Queues, QueuesOf
<1>3. OneCell' /\ Distinct'
  BY <1>1 DEF Queues, OneCell, Distinct, Only, Live
<1> QED
  BY <1>2, <1>3 DEF Queues

LEMMA AlwaysQueues == Spec => [](Types /\ EndsOK /\ Queues)
<1>1. Types /\ EndsOK /\ Queues /\ [Next]_vars => Queues'
  BY StepQueues, StutterQueues DEF Next
<1> QED
  BY <1>1, AlwaysEnds, InitQueues, PTL DEF Spec

LEMMA QueuesImplyQueuedOnce == Types /\ Queues => QueuedOnce
<1> SUFFICES ASSUME Types, Queues, NEW c \in Conns, NEW d \in Destinations
             PROVE  LET q == chanelSubscription[d]
                        queued == IF q = 0 THEN 0 ELSE Cardinality(Live(q, c))
                    IN  job[c] = Idle =>
                            /\ queued <= 1
                            /\ d \notin Wanted(c) => queued = 0
                            /\ d \in Wanted(c) /\ queued = 0 =>
                                    \E lost \in 1..(q - 1) : Live(lost, c) # {}
  BY DEF QueuedOnce
<1> DEFINE q == chanelSubscription[d]
           queued == IF q = 0 THEN 0 ELSE Cardinality(Live(q, c))
<1>0. DataOK /\ QueuesOf(c) /\ OneCell /\ ReferencesOf(c) /\ q \in 0..Len(queues)
      /\ DOMAIN queues = 1..Len(queues) /\ Len(queues) \in Nat
  BY DEF Types, DataOK, Queues, ReferencesOK
<1>1. queued <= 1 /\ (queued = 0 => q = 0 \/ Live(q, c) = {})
  <2>1. CASE q = 0
    BY <2>1
  <2>2. CASE q # 0 /\ Live(q, c) = {}
    BY <2>2, FS_EmptySet
  <2>3. CASE q # 0 /\ Live(q, c) # {}
    <3>1. PICK k : Live(q, c) = {k}
      BY <1>0, <2>3 DEF OneCell
    <3>2. Cardinality(Live(q, c)) = 1
      BY <3>1, FS_Singleton
    <3> QED
      BY <2>3, <3>2
  <2> QED
    BY <2>1, <2>2, <2>3
<1>2. ASSUME Absent(c, d)
      PROVE  queued = 0
  BY <1>2, FS_EmptySet DEF Absent
<1>4. job[c] = Idle /\ d \notin Wanted(c) => Absent(c, d)
  BY <1>0 DEF QueuesOf, NotHeld, Leaves, Idle
<1>5. ASSUME job[c] = Idle, d \in Wanted(c), queued = 0
      PROVE  \E lost \in 1..(q - 1) : Live(lost, c) # {}
  <2>1. HeldIn(c, d)
    BY <1>0, <1>5 DEF QueuesOf, Held, Pending, Enters, Leaves, Idle
  <2>2. PICK r \in 1..q : Live(r, c) # {}
    BY <2>1 DEF HeldIn
  <2>3. r # q
    BY <1>0, <1>1, <1>5, <2>2
  <2> QED
    BY <1>0, <2>2, <2>3
<1> QED
  BY <1>1, <1>2, <1>4, <1>5

\* Concurrent SUBSCRIBEs, UNSUBSCRIBEs and ends of sessions never leave a connection
\* queued twice, queued where it has given its subscription up, or queued after its end,
\* but for what it subscribed to after that; and a subscription that it holds is lost only
\* to a queue that has been replaced.
THEOREM HeldIsQueued == Spec => []QueuedOnce
BY AlwaysQueues, QueuesImplyQueuedOnce, PTL

-----------------------------------------------------------------------------
(* The invariant of a loop.                                                  *)

\* The loop does not come to a connection that had ended before it and has begun nothing
\* since.
PassesOver(c) ==
    InSending(c) => \A i \in job[c].over : frames[i] = job[c].seen[i] =>
        /\ job[i] = Idle
        /\ Live(job[c].queue, i) = {}
        /\ i # job[c].subscriber /\ i # job[c].next.element

\* i was there when the loop of c began, and has begun nothing since.
Steady(c, i) == i \in job[c].due /\ frames[i] = job[c].seen[i]

\* The loop of c has served i, is just serving it, or will come to it.
Reaches(c, i) ==
    \/ i \in job[c].served
    \/ job[c].at # "loop" /\ job[c].subscriber = i
    \/ job[c].next.element = i
    \/ job[c].next.cell # 0 /\ \E k \in Live(job[c].queue, i) : k > job[c].next.cell

\* i is just being served, and was found in activeClients for that.
Serves(c, i) ==
    job[c].at \in {"subscriptionId", "send", "handler"} /\ job[c].subscriber = i

SteadyReached(c, i) ==
    /\ job[c].seen[i] <= frames[i]
    /\ Steady(c, i) => /\ i = c \/ job[i] = Idle
                       /\ job[c].dest \in destinationToSubId[i]
                       /\ Serves(c, i) => i \in activeClients
                       /\ Reaches(c, i)

Loops(c) ==
    InSending(c) => /\ job[c].next.cell = 0 => job[c].next.element = None
                    /\ \A i \in Conns : SteadyReached(c, i)

Sends == \A c \in Conns : PassesOver(c) /\ Loops(c)

-----------------------------------------------------------------------------
(* Steps in and around a loop.                                               *)

\* The first step of the handling of a frame.
Takes(c) ==
    \/ UserIsExists(c) \/ HandleDisconnect(c) \/ SendError(c)
    \/ \E d \in Destinations : \/ HoldDestination(c, d) \/ GiveUpDestination(c, d)
                               \/ HandleSend(c, d)

\* A frame is taken by an idle handler only.
LEMMA Begins ==
    ASSUME NEW c \in Conns, Takes(c)
    PROVE  \E r : Begin(c, r) /\ r.at \in {"check", "logout", "containsKey", "unsubscribe",
                                           "increment"}
<1> DEFINE Begun(r) == Begin(c, r) /\ r.at \in {"check", "logout", "containsKey",
                                               "unsubscribe", "increment"}
<1> SUFFICES \E r : Begun(r)
  OBVIOUS
<1>1. CASE UserIsExists(c)
  <2>1. PICK name, u : Begin(c, [at |-> "check", name |-> name, user |-> u])
    BY <1>1 DEF UserIsExists
  <2> QED
    BY <2>1
<1>2. CASE HandleDisconnect(c) \/ SendError(c)
  BY <1>2 DEF HandleDisconnect, SendError
<1>3. ASSUME NEW d \in Destinations,
             HoldDestination(c, d) \/ GiveUpDestination(c, d) \/ HandleSend(c, d)
      PROVE  \E r : Begun(r)
  <2>1. CASE HoldDestination(c, d)
    <3>1. Begun([at |-> "containsKey", dest |-> d])
      BY <2>1 DEF HoldDestination
    <3> QED
      BY <3>1
  <2>2. CASE GiveUpDestination(c, d)
    <3>1. Begun([at |-> "unsubscribe", dest |-> d])
      BY <2>2 DEF GiveUpDestination
    <3> QED
      BY <3>1
  <2>3. CASE HandleSend(c, d)
    <3>1. Begun([at |-> "increment", dest |-> d, count |-> counterMessageId])
      BY <2>3 DEF HandleSend
    <3> QED
      BY <3>1
  <2> QED
    BY <1>3, <2>1, <2>2, <2>3
<1> HIDE DEF Begun
<1> QED
  BY <1>1, <1>2, <1>3 DEF Takes

\* Where a handler has to be for its other steps.
LEMMA Continues ==
    ASSUME Types, NEW c \in Conns, Handler(c), job[c].at = "idle"
    PROVE  Takes(c)
BY DEF Takes, Handler, Connect, Subscribe, Unsubscribe, Disconnect, SendFrame, IsLoggedIn,
       ConnectKnown, ConnectNew, LookForQueue, PutQueue, GetQueue, AddToQueue,
       UnSubscribeClient, DisconnectUser, RemoveClient, RemoveFromChanels,
       IncrementCounterMessageId, GetSubscribers, NextSubscriber, EndSend, GetActiveClient,
       GetSubscriptionId, Send, SendToHandler

\* In the loop a handler does nothing else, and it comes there only by getting the
\* subscribers.
LEMMA LoopSteps ==
    ASSUME Types, NEW c \in Conns, Handler(c)
    PROVE  /\ InSending(c) => \/ NextSubscriber(c) \/ EndSend(c) \/ GetActiveClient(c)
                              \/ GetSubscriptionId(c) \/ Send(c) \/ SendToHandler(c)
           /\ ~ InSending(c) /\ InSending(c)' => GetSubscribers(c)
<1> USE DEF Idle
<1>0. job \in [Conns -> Job] /\ job[c] \in Job
  BY DEF Types
<1>1. ASSUME NEW r, Goes(c, r), ~ InSending(c),
             r.at \notin {"loop", "client", "subscriptionId", "send", "handler"}
      PROVE  ~ InSending(c) /\ ~ InSending(c)'
  BY <1>0, <1>1 DEF Goes, InSending
<1>2. CASE Takes(c)
  <2>1. PICK r : Begin(c, r) /\ r.at \in {"check", "logout", "containsKey", "unsubscribe",
                                          "increment"}
    BY <1>2, Begins
  <2>2. ~ InSending(c) /\ Goes(c, r)
    BY <2>1, BeginFacts DEF Begin, InSending
  <2> QED
    BY <1>1, <2>1, <2>2
<1>3. CASE \/ ConnectKnown(c) \/ ConnectNew(c) \/ AddToQueue(c) \/ UnSubscribeClient(c)
           \/ DisconnectUser(c) \/ GetQueue(c) \/ RemoveClient(c)
           \/ IncrementCounterMessageId(c)
  <2>1. ~ InSending(c)
    BY <1>3 DEF ConnectKnown, ConnectNew, AddToQueue, UnSubscribeClient, DisconnectUser,
                GetQueue, RemoveClient, IncrementCounterMessageId, InSending
  <2> QED
    BY <1>1, <1>3, <2>1
       DEF ConnectKnown, ConnectNew, AddToQueue, UnSubscribeClient, DisconnectUser, GetQueue,
           RemoveClient, IncrementCounterMessageId
<1>4. CASE IsLoggedIn(c) \/ LookForQueue(c) \/ PutQueue(c)
  <2>1. ~ InSending(c)
    BY <1>4 DEF IsLoggedIn, LookForQueue, PutQueue, InSending
  <2>2. PICK at \in {"connect", "get", "put"} :
            Goes(c, [job[c] EXCEPT !.at = at]) \/ Goes(c, [at |-> "logout"])
    BY <1>4 DEF IsLoggedIn, LookForQueue, PutQueue
  <2>3. CASE Goes(c, [job[c] EXCEPT !.at = at])
    <3>1. PICK r : Goes(c, r) /\ r.at = at
      BY <1>0, <2>3, NewPlace
    <3> QED
      BY <1>1, <2>1, <3>1
  <2>4. CASE Goes(c, [at |-> "logout"])
    BY <1>1, <2>1, <2>4
  <2> QED
    BY <2>2, <2>3, <2>4
<1>5. CASE RemoveFromChanels(c)
  <2>1. job[c] \in Leaving /\ job[c].at = "removeFromChanels"
    BY <1>0, <1>5, JobAt DEF RemoveFromChanels
  <2>2. PICK t : Goes(c, Idle) \/ Goes(c, [job[c] EXCEPT !.left = t])
    BY <1>5 DEF RemoveFromChanels
  <2>3. [job[c] EXCEPT !.left = t].at = "removeFromChanels"
    BY <2>1 DEF Leaving
  <2> QED
    BY <1>1, <2>1, <2>2, <2>3 DEF InSending
<1>6. CASE GetSubscribers(c)
  BY <1>6 DEF GetSubscribers, InSending
<1>7. CASE \/ NextSubscriber(c) \/ EndSend(c) \/ GetActiveClient(c)
           \/ GetSubscriptionId(c) \/ Send(c) \/ SendToHandler(c)
  BY <1>7 DEF NextSubscriber, EndSend, GetActiveClient, GetSubscriptionId, Send,
              SendToHandler, InSending
<1> QED
  BY <1>2, <1>3, <1>4, <1>5, <1>6, <1>7
     DEF Takes, Handler, Connect, Subscribe, Unsubscribe, Disconnect, SendFrame

\* An idle handler takes a frame, and no other does.
LEMMA TakesFrame ==
    ASSUME Types, NEW c \in Conns, Handler(c)
    PROVE  /\ frames[c] <= frames'[c]
           /\ frames'[c] = frames[c] => job[c] # Idle
<1>0. DataOK /\ frames[c] \in Nat
  BY ThreadsAssumption DEF Types, DataOK
<1>1. CASE job[c] = Idle
  <2>1. PICK r : Begin(c, r)
    BY <1>1, Begins, Continues DEF Idle
  <2>2. frames'[c] = frames[c] + 1
    BY <1>0, <2>1 DEF Begin, DataOK
  <2> QED
    BY <1>0, <2>2
<1>2. CASE job[c] # Idle
  <2>1. ASSUME NEW r, Begin(c, r)
        PROVE  FALSE
    BY <1>2, <2>1 DEF Begin
  <2>2. ~ Takes(c)
    BY <2>1, Begins
  <2>3. frames' = frames
    BY <2>2 DEF Takes, Handler, Connect, Subscribe, Unsubscribe, Disconnect, SendFrame, IsLoggedIn,
       ConnectKnown, ConnectNew, LookForQueue, PutQueue, GetQueue, AddToQueue,
       UnSubscribeClient, DisconnectUser, RemoveClient, RemoveFromChanels,
       IncrementCounterMessageId, GetSubscribers, NextSubscriber, EndSend, GetActiveClient,
       GetSubscriptionId, Send, SendToHandler
  <2> QED
    BY <1>0, <1>2, <2>3
<1> QED
  BY <1>1, <1>2

-----------------------------------------------------------------------------
(* Every step keeps the invariant.                                           *)

\* What others do does not disturb the loop of c.
LEMMA OthersLoops ==
    ASSUME Types, EndsOK, NEW a \in Conns, Handler(a), NEW c \in Conns \ {a}, PassesOver(c), Loops(c)
    PROVE  PassesOver(c)' /\ Loops(c)'
<1> SUFFICES ASSUME InSending(c)
             PROVE  PassesOver(c)' /\ Loops(c)'
  BY OthersKept DEF PassesOver, Loops, InSending
<1>1. /\ job'[c] = job[c] /\ job[c] \in Sending
      /\ InSending(c)' = InSending(c)
  BY OthersKept, JobAt DEF Types, InSending
<1>2. PICK q \in DOMAIN queues : q = job[c].queue
  BY DEF Types, ReferencesOK, ReferencesOf
<1>3. \A i \in Conns \ {a} : /\ Live(q, i)' = Live(q, i)
                             /\ job'[i] = job[i] /\ frames'[i] = frames[i]
                             /\ destinationToSubId'[i] = destinationToSubId[i]
                             /\ i \in activeClients' <=> i \in activeClients
  BY Growth, OthersKept
<1>6. /\ frames[a] <= frames'[a] /\ job[c].seen[a] \in Nat /\ job[c].seen[a] <= frames[a]
      /\ frames[a] \in Nat /\ frames'[a] \in Nat
  <2>1. DataOK /\ DataOK'
    BY StepTypes DEF Types
  <2>2. frames[a] \in Nat /\ frames'[a] \in Nat
    BY <2>1, ThreadsAssumption DEF DataOK
  <2>3. job[c].seen[a] \in Nat
    BY <1>1 DEF Sending
  <2> QED
    BY <2>2, <2>3, TakesFrame DEF Loops, SteadyReached
<1>4. PassesOver(c)'
  <2>1. ASSUME NEW i \in job[c].over, frames'[i] = job[c].seen[i]
        PROVE  /\ job'[i] = Idle /\ Live(q, i)' = {}
               /\ i # job[c].subscriber /\ i # job[c].next.element
    <3>1. i \in Conns
      BY <1>1, <2>1 DEF Sending
    <3>2. i # a
      <4>1. ASSUME i = a
            PROVE  FALSE
        <5>1. frames[a] = job[c].seen[a] /\ frames'[a] = frames[a]
          BY <1>6, <2>1, <4>1
        <5>2. job[a] = Idle
          BY <2>1, <4>1, <5>1 DEF PassesOver
        <5> QED
          BY <5>1, <5>2, TakesFrame
      <4> QED
        BY <4>1
    <3>3. /\ job[i] = Idle /\ Live(q, i) = {}
          /\ i # job[c].subscriber /\ i # job[c].next.element
      BY <1>2, <1>3, <2>1, <3>1, <3>2 DEF PassesOver
    <3> QED
      BY <1>3, <3>1, <3>2, <3>3
  <2> QED
    BY <1>1, <1>2, <2>1 DEF PassesOver, Live
<1>5. ASSUME NEW i \in Conns
      PROVE  SteadyReached(c, i)'
  <2>1. SteadyReached(c, i)
    BY DEF Loops
  <2>2. CASE i = a
    <3>2. Steady(c, i)' => frames'[a] = frames[a] /\ Steady(c, i)
      BY <1>1, <1>6, <2>1, <2>2 DEF SteadyReached, Steady
    <3>3. ~ Steady(c, i)'
      BY <2>1, <2>2, <3>2, TakesFrame DEF SteadyReached
    <3> QED
      BY <1>1, <1>6, <2>1, <2>2, <3>3 DEF SteadyReached
  <2>3. CASE i # a
    <3>1. Reaches(c, i)' = Reaches(c, i)
      BY <1>1, <1>2, <1>3, <2>3 DEF Reaches, Live
    <3> QED
      BY <1>1, <1>3, <2>1, <2>3, <3>1 DEF SteadyReached, Steady, Serves
  <2> QED
    BY <2>2, <2>3
<1> QED
  BY <1>1, <1>4, <1>5 DEF Loops

\* A loop begins.
LEMMA FirstLoop ==
    ASSUME Types, Queues, Sends, NEW c \in Conns, GetSubscribers(c)
    PROVE  PassesOver(c)' /\ Loops(c)'
<1> DEFINE d == job[c].dest
           next == NextAfter(chanelSubscription[d], 0)
           due == {i \in Conns : /\ Live(chanelSubscription[d], i) # {}
                                 /\ d \in destinationToSubId[i]
                                 /\ i = c \/ job[i] = Idle}
           over == {i \in Conns : shouldTerminate[i] /\ job[i] = Idle /\ d \notin late[i]}
<1>1. /\ d \in Destinations /\ job[c].at = "subscribers" /\ DataOK
      /\ job \in [Conns -> Job]
  BY JobAt DEF GetSubscribers, AtChannel, Types
<1>2. PICK q \in DOMAIN queues : q = chanelSubscription[d] /\ q # 0
  <2>1. chanelSubscription[d] # 0
    BY <1>1 DEF Types, ReferencesOK, ReferencesOf
  <2> QED
    BY <1>1, <2>1 DEF DataOK
<1>3. /\ job'[c] = [at |-> "loop", dest |-> d, queue |-> q, subscriber |-> None,
                    next |-> next, due |-> due, seen |-> frames, served |-> {},
                    over |-> over]
      /\ \A i \in Conns \ {c} : job'[i] = job[i]
      /\ UNCHANGED <<queues, frames, destinationToSubId, activeClients>>
  BY <1>1, <1>2 DEF GetSubscribers, Goes, channels, protocols
<1>4. /\ next.cell # 0 => next.cell \in DOMAIN queues[q] /\ next.element = queues[q][next.cell]
      /\ next.cell = 0 => next.element = None
      /\ \A l \in DOMAIN queues[q] : l > 0 /\ queues[q][l] # None =>
            next.cell # 0 /\ next.cell <= l
  BY <1>1, <1>2, NextAfterFacts DEF DataOK
<1>5. None \notin Conns
  BY ThreadsAssumption
<1> HIDE DEF next, due, over, d
<1>6. ASSUME NEW i \in over
      PROVE  job'[i] = Idle /\ Live(q, i)' = {} /\ i # None /\ i # next.element
  <2>1. i \in Conns /\ job[i] = Idle /\ i # c /\ d \notin Wanted(i)
    BY <1>1, <1>6 DEF over, Idle, Wanted
  <2>2. Live(q, i) = {}
    <3>1. NotHeld(i) /\ ~ Leaves(i)
      BY <2>1 DEF Queues, QueuesOf, Leaves, Idle
    <3> QED
      BY <1>1, <1>2, <2>1, <3>1 DEF NotHeld, Idle, Absent
  <2>3. i # next.element
    BY <1>4, <1>5, <2>1, <2>2 DEF Live
  <2> QED
    BY <1>3, <1>5, <2>1, <2>2, <2>3 DEF Live
<1>7. PassesOver(c)'
  BY <1>3, <1>6 DEF PassesOver, Live
<1>8. ASSUME NEW i \in Conns
      PROVE  SteadyReached(c, i)'
  <2>1. frames'[i] = frames[i] /\ frames[i] \in Nat
    BY <1>1, <1>3, ThreadsAssumption DEF DataOK
  <2>2. ASSUME i \in due
        PROVE  /\ i = c \/ job'[i] = Idle
               /\ d \in destinationToSubId'[i]
               /\ Reaches(c, i)'
    <3>1. /\ Live(q, i) # {} /\ d \in destinationToSubId[i]
          /\ i = c \/ job[i] = Idle
      BY <1>2, <2>2 DEF due
    <3>3. PICK k \in DOMAIN queues[q] : queues[q][k] = i
      BY <3>1 DEF Live
    <3>4. k \in Nat /\ k > 0 /\ i # None /\ next.cell # 0 /\ next.cell <= k
      <4>1. queues[q] \in Seq(Cell)
        BY <1>1 DEF DataOK
      <4> QED
        BY <1>4, <1>5, <3>3, <4>1
    <3>5. next.cell = k \/ k > next.cell
      <4>1. next.cell \in Nat
        BY <1>1, <1>2, NextAfterFacts DEF next, DataOK
      <4> QED
        BY <3>4, <4>1
    <3>6. Reaches(c, i)'
      BY <1>3, <1>4, <3>3, <3>4, <3>5 DEF Reaches, Live
    <3> QED
      BY <1>3, <3>1, <3>6
  <2> QED
    BY <1>3, <2>1, <2>2 DEF SteadyReached, Steady, Serves
<1>9. job'[c].next.cell = 0 => job'[c].next.element = None
  BY <1>3, <1>4
<1> QED
  BY <1>7, <1>8, <1>9 DEF Loops

\* The loop takes its next subscriber, and looks for the one after.
LEMMA NextLoops ==
    ASSUME Types, NEW c \in Conns, NextSubscriber(c), PassesOver(c), Loops(c)
    PROVE  PassesOver(c)' /\ Loops(c)'
<1>1. /\ InSending(c) /\ job[c] \in Sending /\ job[c].at = "loop" /\ job[c].next.cell # 0
      /\ DataOK /\ job \in [Conns -> Job] /\ None \notin Conns
  BY JobAt, ThreadsAssumption DEF Types, NextSubscriber, InSending
<1>2. PICK q \in DOMAIN queues : q = job[c].queue
  BY <1>1 DEF Types, ReferencesOK, ReferencesOf
<1>3. PICK k \in Nat, e \in Cell : k = job[c].next.cell /\ e = job[c].next.element
  BY <1>1 DEF Sending
<1>4. PICK n \in [cell : Nat, element : Cell] :
        /\ n = NextAfter(q, k)
        /\ n.cell # 0 => n.cell \in DOMAIN queues[q] /\ n.element = queues[q][n.cell]
        /\ n.cell = 0 => n.element = None
        /\ \A l \in DOMAIN queues[q] : l > k /\ queues[q][l] # None => n.cell # 0 /\ n.cell <= l
  BY <1>1, NextAfterFacts DEF DataOK
<1>5. /\ job'[c] = [job[c] EXCEPT !.at = "client", !.subscriber = e, !.next = n]
      /\ \A i \in Conns \ {c} : job'[i] = job[i]
      /\ UNCHANGED <<queues, frames, destinationToSubId, activeClients>>
  BY <1>1, <1>2, <1>3, <1>4 DEF NextSubscriber, Goes, channels, protocols
<1>6. /\ job'[c].at = "client" /\ job'[c].subscriber = e /\ job'[c].next = n
      /\ job'[c].dest = job[c].dest /\ job'[c].queue = q /\ job'[c].due = job[c].due
      /\ job'[c].seen = job[c].seen /\ job'[c].served = job[c].served
      /\ job'[c].over = job[c].over
  BY <1>1, <1>2, <1>5 DEF Sending
<1>7. ASSUME NEW i \in job[c].over, frames[i] = job[c].seen[i]
      PROVE  job'[i] = Idle /\ Live(q, i)' = {} /\ i # e /\ i # n.element
  <2>1. job[i] = Idle /\ Live(q, i) = {} /\ i # e /\ i \in Conns
    BY <1>1, <1>2, <1>3, <1>7 DEF PassesOver, Sending
  <2>2. i # c
    BY <1>1, <2>1 DEF Idle
  <2>3. i # n.element
    BY <1>1, <1>4, <2>1 DEF Live
  <2> QED
    BY <1>5, <2>1, <2>2, <2>3 DEF Live
<1>8. PassesOver(c)'
  BY <1>5, <1>6, <1>7 DEF PassesOver, Live
<1>9. ASSUME NEW i \in Conns
      PROVE  SteadyReached(c, i)'
  <2>1. SteadyReached(c, i)
    BY <1>1 DEF Loops
  <2>2. ASSUME Reaches(c, i)
        PROVE  Reaches(c, i)'
    <3>1. CASE i \in job[c].served \/ e = i
      BY <1>6, <3>1 DEF Reaches
    <3>2. ASSUME NEW l \in Live(q, i), l > k
          PROVE  Reaches(c, i)'
      <4>1. l \in DOMAIN queues[q] /\ queues[q][l] = i /\ l \in Nat
        <5>1. queues[q] \in Seq(Cell)
          BY <1>1 DEF DataOK
        <5> QED
          BY <5>1 DEF Live
      <4>2. n.cell # 0 /\ n.cell <= l /\ n.cell \in Nat
        BY <1>1, <1>4, <3>2, <4>1
      <4>3. n.cell = l \/ l > n.cell
        BY <4>1, <4>2
      <4>4. l \in Live(q, i)'
        BY <1>5, <4>1 DEF Live
      <4>5. CASE n.cell = l
        BY <1>4, <1>6, <4>1, <4>2, <4>5 DEF Reaches
      <4>6. CASE l > n.cell
        BY <1>6, <4>2, <4>4, <4>6 DEF Reaches, Live
      <4> QED
        BY <4>3, <4>5, <4>6
    <3> QED
      BY <1>1, <1>2, <1>3, <2>2, <3>1, <3>2 DEF Reaches
  <2>3. Steady(c, i)' = Steady(c, i)
    BY <1>5, <1>6 DEF Steady
  <2>4. i = c \/ job'[i] = job[i]
    BY <1>5
  <2> QED
    BY <1>5, <1>6, <2>1, <2>2, <2>3, <2>4 DEF SteadyReached, Serves
<1> QED
  BY <1>4, <1>6, <1>8, <1>9 DEF Loops

\* The steps that serve one subscriber: the place changes, and once the frame is sent the
\* subscriber has been served.
LEMMA ServingLoops ==
    ASSUME Types, NEW c \in Conns, PassesOver(c), Loops(c),
           GetActiveClient(c) \/ GetSubscriptionId(c) \/ Send(c) \/ SendToHandler(c)
    PROVE  PassesOver(c)' /\ Loops(c)'
<1>1. /\ InSending(c) /\ job[c] \in Sending /\ job[c].at # "loop"
      /\ job \in [Conns -> Job]
  BY JobAt DEF Types, GetActiveClient, GetSubscriptionId, Send, SendToHandler, InSending
<1>2. /\ \A i \in Conns \ {c} : job'[i] = job[i]
      /\ UNCHANGED <<queues, frames, destinationToSubId, activeClients>>
  BY <1>1 DEF GetActiveClient, GetSubscriptionId, Send, SendToHandler, Dies, Goes, channels, protocols
<1>3. CASE job'[c] \in {Idle, Dead}
  BY <1>3 DEF PassesOver, Loops, InSending, Idle, Dead
<1>4. ASSUME NEW at \in {"loop", "client", "subscriptionId", "send", "handler"},
             NEW t \in SUBSET Cell, job[c].served \subseteq t,
             job'[c] = [job[c] EXCEPT !.at = at, !.served = t],
             at = "loop" => \/ job[c].subscriber \in t
                            \/ job[c].dest \notin destinationToSubId[job[c].subscriber]
                            \/ Serves(c, job[c].subscriber)
                                /\ job[c].subscriber \notin activeClients,
             \/ at = "loop" \/ Serves(c, job[c].subscriber)
             \/ job[c].subscriber \in activeClients
      PROVE  PassesOver(c)' /\ Loops(c)'
  <2>1. /\ job'[c].at = at /\ job'[c].served = t
        /\ job'[c].subscriber = job[c].subscriber /\ job'[c].next = job[c].next
        /\ job'[c].dest = job[c].dest /\ job'[c].queue = job[c].queue
        /\ job'[c].due = job[c].due /\ job'[c].seen = job[c].seen
        /\ job'[c].over = job[c].over
    BY <1>1, <1>4 DEF Sending
  <2>2. ASSUME NEW i \in job[c].over, frames[i] = job[c].seen[i]
        PROVE  job'[i] = Idle
    <3>1. job[i] = Idle /\ i \in Conns
      BY <1>1, <2>2 DEF PassesOver, Sending
    <3>2. i # c
      BY <1>1, <3>1 DEF Idle, InSending
    <3> QED
      BY <1>2, <3>1, <3>2
  <2>3. PassesOver(c)'
    BY <1>1, <1>2, <2>1, <2>2 DEF PassesOver, Live
  <2>4. ASSUME NEW i \in Conns
        PROVE  SteadyReached(c, i)'
    <3>1. SteadyReached(c, i)
      BY <1>1 DEF Loops
    <3>2. Steady(c, i)' = Steady(c, i)
      BY <1>2, <2>1 DEF Steady
    <3>3. ASSUME Steady(c, i)
          PROVE  Reaches(c, i)'
      <4>1. /\ Reaches(c, i) /\ job[c].dest \in destinationToSubId[i]
            /\ Serves(c, i) => i \in activeClients
        BY <3>1, <3>3 DEF SteadyReached
      <4>2. CASE job[c].subscriber = i
        BY <1>4, <2>1, <4>1, <4>2 DEF Reaches
      <4>3. CASE i \in job[c].served \/ job[c].next.element = i
        BY <1>4, <2>1, <4>3 DEF Reaches
      <4>4. CASE job[c].next.cell # 0 /\ \E k \in Live(job[c].queue, i) : k > job[c].next.cell
        BY <1>2, <2>1, <4>4 DEF Reaches, Live
      <4> QED
        BY <4>1, <4>2, <4>3, <4>4 DEF Reaches
    <3>4. i = c \/ job'[i] = job[i]
      BY <1>2
    <3>5. ASSUME Steady(c, i), Serves(c, i)'
          PROVE  i \in activeClients'
      BY <1>2, <1>4, <2>1, <3>1, <3>5 DEF SteadyReached, Serves
    <3> QED
      BY <1>2, <2>1, <3>1, <3>2, <3>3, <3>4, <3>5 DEF SteadyReached
  <2> QED
    BY <1>1, <2>1, <2>3, <2>4 DEF Loops
<1>5. CASE GetActiveClient(c)
  <2>0. /\ job[c].served \in SUBSET Cell
        /\ \A at : [job[c] EXCEPT !.at = at] =
                    [job[c] EXCEPT !.at = at, !.served = job[c].served]
    BY <1>1 DEF Sending
  <2>1. \/ job'[c] \in {Idle, Dead}
        \/ /\ job'[c] = [job[c] EXCEPT !.at = "subscriptionId"]
           /\ job[c].subscriber \in activeClients
    BY <1>1, <1>5 DEF GetActiveClient, Dies, Goes
  <2> QED
    BY <1>3, <1>4, <2>0, <2>1
<1>6. CASE GetSubscriptionId(c)
  <2>0. /\ job[c].served \in SUBSET Cell
        /\ \A at : [job[c] EXCEPT !.at = at] =
                    [job[c] EXCEPT !.at = at, !.served = job[c].served]
    BY <1>1 DEF Sending
  <2>1. \/ job'[c] = [job[c] EXCEPT !.at = "send"]
        \/ /\ job'[c] = [job[c] EXCEPT !.at = "loop"]
           /\ job[c].dest \notin destinationToSubId[job[c].subscriber]
    BY <1>1, <1>6 DEF GetSubscriptionId, Goes
  <2>2. Serves(c, job[c].subscriber)
    BY <1>6 DEF GetSubscriptionId, Serves
  <2> QED
    BY <1>4, <2>0, <2>1, <2>2
<1>7. CASE Send(c)
  <2>0. /\ job[c].served \in SUBSET Cell
        /\ \A at : [job[c] EXCEPT !.at = at] =
                    [job[c] EXCEPT !.at = at, !.served = job[c].served]
    BY <1>1 DEF Sending
  <2>1. \/ job'[c] = [job[c] EXCEPT !.at = "handler"]
        \/ /\ job'[c] = [job[c] EXCEPT !.at = "loop"]
           /\ job[c].subscriber \notin activeClients
    BY <1>1, <1>7 DEF Send, Goes
  <2>2. Serves(c, job[c].subscriber)
    BY <1>7 DEF Send, Serves
  <2> QED
    BY <1>4, <2>0, <2>1, <2>2
<1>8. CASE SendToHandler(c)
  <2> DEFINE t == job[c].served \cup {job[c].subscriber}
  <2>1. \/ job'[c] \in {Idle, Dead}
        \/ \E at \in {"send", "loop"} : job'[c] = [job[c] EXCEPT !.at = at, !.served = t]
    BY <1>1, <1>8 DEF SendToHandler, Dies, Goes
  <2>2. /\ job[c].served \subseteq t /\ job[c].subscriber \in t /\ t \in SUBSET Cell
        /\ Serves(c, job[c].subscriber)
    BY <1>1, <1>8 DEF Sending, SendToHandler, Serves
  <2> HIDE DEF t
  <2> QED
    BY <1>3, <1>4, <2>1, <2>2
<1> QED
  BY <1>5, <1>6, <1>7, <1>8

LEMMA StepSends ==
    ASSUME Types, EndsOK, Queues, Sends, NEW a \in Conns, Handler(a)
    PROVE  Sends'
<1>1. ASSUME NEW c \in Conns, c # a
      PROVE  PassesOver(c)' /\ Loops(c)'
  BY <1>1, OthersLoops DEF Sends
<1>2. PassesOver(a)' /\ Loops(a)'
  <2>1. CASE InSending(a)
    <3>1. CASE EndSend(a)
      BY <3>1 DEF EndSend, Goes, Idle, Types, PassesOver, Loops, InSending
    <3> QED
      BY <2>1, <3>1, LoopSteps, NextLoops, ServingLoops DEF Sends
  <2>2. CASE ~ InSending(a) /\ InSending(a)'
    BY <2>2, LoopSteps, FirstLoop
  <2>3. CASE ~ InSending(a)'
    BY <2>3 DEF PassesOver, Loops
  <2> QED
    BY <2>1, <2>2, <2>3
<1> QED
  BY <1>1, <1>2 DEF Sends

LEMMA InitSends == Init => Sends
BY DEF Init, Idle, Sends, PassesOver, Loops, InSending

LEMMA StutterSends == Types /\ Sends /\ UNCHANGED vars => Sends'
<1> SUFFICES ASSUME Types, Sends, UNCHANGED vars PROVE Sends'
  OBVIOUS
<1>1. UNCHANGED <<queues, activeClients, destinationToSubId, job, frames>>
  BY DEF vars, channels, protocols
<1>2. ASSUME NEW c \in Conns
      PROVE  PassesOver(c)'
  BY <1>1 DEF Sends, PassesOver, InSending, Live
<1>3. ASSUME NEW c \in Conns
      PROVE  Loops(c)'
  BY <1>1 DEF Sends, Loops, InSending, SteadyReached, Steady, Reaches,
            Serves, Live
<1> QED
  BY <1>2, <1>3 DEF Sends

LEMMA AlwaysSends == Spec => [](Types /\ EndsOK /\ Queues /\ Sends)
<1>1. Types /\ EndsOK /\ Queues /\ Sends /\ [Next]_vars => Sends'
  BY StepSends, StutterSends DEF Next
<1> QED
  BY <1>1, InitSends, AlwaysQueues, PTL DEF Spec

-----------------------------------------------------------------------------
(* Theorems                                                                  *)

\* A SEND that comes to the end of its loop has served every subscriber that was in the
\* queue when it began and has begun nothing since, whatever others did to the queue
\* under the iterator.
THEOREM SteadyServed == Spec => SteadySubscribersServed
<1> DEFINE Served == \A c \in Conns : job[c].at = "loop" /\ job'[c] = Idle =>
                        \A i \in job[c].due : frames[i] = job[c].seen[i] => i \in job[c].served
<1>1. ASSUME Types, EndsOK, Sends, [Next]_vars
      PROVE  [Served]_vars
  <2> SUFFICES ASSUME Next, NEW c \in Conns, job[c].at = "loop", job'[c] = Idle,
                      NEW i \in job[c].due, frames[i] = job[c].seen[i]
               PROVE  i \in job[c].served
    BY <1>1
  <2>1. PICK a \in Conns : Handler(a)
    BY DEF Next
  <2>2. a = c /\ InSending(c) /\ job[c] \in Sending
    <3>1. InSending(c) /\ job[c] \in Sending
      BY <1>1, JobAt DEF InSending, Types
    <3>2. job'[c] # job[c]
      BY DEF Idle
    <3> QED
      BY <1>1, <2>1, <3>1, <3>2, OthersKept
  <2>3. EndSend(c)
    <3>1. ~ NextSubscriber(c)
      <4>1. ASSUME NEW e, NEW n, Goes(c, [job[c] EXCEPT !.at = "client", !.subscriber = e, !.next = n])
            PROVE  FALSE
        <5>1. job'[c] = [job[c] EXCEPT !.at = "client", !.subscriber = e, !.next = n]
          BY <1>1, <4>1 DEF Goes, Types
        <5>2. job'[c].at = "client"
          BY <2>2, <5>1 DEF Sending
        <5> QED
          BY <5>2 DEF Idle
      <4> QED
        BY <4>1 DEF NextSubscriber
    <3> QED
      BY <1>1, <2>1, <2>2, <3>1, LoopSteps DEF GetActiveClient, GetSubscriptionId, Send, SendToHandler
  <2>4. job[c].next.cell = 0 /\ job[c].next.element = None /\ i \in Conns
    BY <1>1, <2>2, <2>3 DEF EndSend, Sends, Loops, Sending
  <2>5. Reaches(c, i)
    BY <1>1, <2>2, <2>4 DEF Sends, Loops, SteadyReached, Steady
  <2> QED
    BY <2>4, <2>5, ThreadsAssumption DEF Reaches
<1> QED
  BY <1>1, AlwaysSends, PTL DEF Spec, SteadySubscribersServed

\* The exception that ends a SEND early comes from a connection that is just being ended,
\* or from one that subscribed to the channel after its end: never from one whose end was
\* complete when the loop began and that has done nothing since.
THEOREM OnlyOverlapKills == Spec => DiesOnlyByOverlap
<1> DEFINE Passed == \A c \in Conns :
                        job[c].at \in {"client", "handler"} /\ job'[c] \in {Idle, Dead} =>
                            LET i == job[c].subscriber
                            IN  ~ (i \in job[c].over /\ frames[i] = job[c].seen[i])
<1>1. Types /\ Sends /\ [Next]_vars => [Passed]_vars
  BY DEF Sends, PassesOver, InSending
<1> QED
  BY <1>1, AlwaysSends, PTL DEF Spec, DiesOnlyByOverlap
=============================================================================
