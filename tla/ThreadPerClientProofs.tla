------------------------- MODULE ThreadPerClientProofs -------------------------
(***************************************************************************)
(* Proofs about ThreadPerClient.                                           *)
(*                                                                         *)
(* The counter that ids are made from is read and written in two steps by  *)
(* the accept loop and by any number of client threads.  Its bounds hold   *)
(* however these cross, because a thread counts down once and no read is   *)
(* below what the threads that are over can have taken away.  The registry *)
(* is exact as long as ids are given back in turn.                         *)
(***************************************************************************)
EXTENDS ThreadPerClient, FiniteSets, FiniteSetTheorems, TLAPS

Thread ==
    [at : {"new", "started", "reading", "refused", "ending", "decrease", "read", "over", "dead"}]
    \cup [at : {"write"}, read : Ids]

Over == {c \in Conns : thread[c].at = "over"}

\* TypeOK without the bounds of the counter, and the type of the threads.
Typed ==
    /\ countUniqeID \in Int
    /\ accepted \in 0..MaxConnections
    /\ acceptor \in [at : {"accept", "increase", "handler", "put", "execute"}, read : Ids]
    /\ connectionId \in [Conns -> Ids]
    /\ activeClients \in [Ids -> 0..accepted]
    /\ outOfTurn \in BOOLEAN
    /\ thread \in [Conns -> Thread]

\* The clients are started in the order of their acceptance.
Order ==
    /\ \A c \in Conns : /\ c > accepted => thread[c].at = "new"
                        /\ c < accepted => thread[c].at # "new"
                        /\ c = accepted => (thread[c].at = "new" <=> acceptor.at # "accept")
    /\ acceptor.at # "accept" => accepted > 0

\* The counter, and every value of it that was read and may still be written, is not
\* above the clients accepted, and the client being accepted is not counted yet; nor is
\* it further below 0 than there are threads that are over.
Counted ==
    /\ -Cardinality(Over) <= countUniqeID /\ countUniqeID <= accepted
    /\ -Cardinality(Over) <= acceptor.read
    /\ acceptor.at = "increase" => acceptor.read < accepted
    /\ \A c \in Conns : thread[c].at = "write" =>
          -Cardinality(Over) <= thread[c].read /\ thread[c].read <= accepted

CountInv == Typed /\ Order /\ Counted

LEMMA PlaceTyped ==
    ASSUME NEW at \in {"new", "started", "reading", "refused", "ending", "decrease", "read", "over",
                       "dead"}
    PROVE  [at |-> at] \in Thread /\ [at |-> at].at = at
BY DEF Thread

LEMMA ThreadCases ==
    ASSUME NEW t \in Thread
    PROVE  /\ t.at = "write" => t.read \in Ids
           /\ t.at \in {"new", "started", "reading", "refused", "ending", "decrease", "read",
                        "write", "over", "dead"}
BY DEF Thread

\* Only accepted clients are over.
LEMMA OverBound ==
    ASSUME Typed, Order
    PROVE  /\ IsFiniteSet(Over) /\ Cardinality(Over) \in Nat /\ Cardinality(Over) <= accepted
           /\ \A c \in Conns \ Over : thread[c].at # "new" => Cardinality(Over) < accepted
<1> USE MaxConnectionsAssumption
<1>1. accepted \in Nat /\ Over \subseteq 1..accepted
  BY DEF Typed, Order, Over, Conns
<1>2. IsFiniteSet(1..accepted) /\ Cardinality(1..accepted) = accepted
  BY <1>1, FS_Interval
<1>3. IsFiniteSet(Over) /\ Cardinality(Over) <= accepted
  BY <1>1, <1>2, FS_Subset
<1>4. Cardinality(Over) \in Nat
  BY <1>3, FS_CardinalityType
<1>5. ASSUME NEW c \in Conns \ Over, thread[c].at # "new"
      PROVE  Cardinality(Over) < accepted
  <2>1. c \in 1..accepted
    BY <1>1, <1>5 DEF Order, Conns, Typed
  <2>2. Over \in SUBSET (1..accepted) /\ Over # 1..accepted
    BY <1>1, <1>5, <2>1
  <2>3. Cardinality(Over) # accepted
    BY <1>2, <2>2, FS_Subset
  <2> QED
    BY <1>1, <1>3, <1>4, <2>3
<1> QED
  BY <1>3, <1>4, <1>5

LEMMA CountInRange ==
    ASSUME CountInv
    PROVE  countUniqeID \in (-accepted)..accepted /\ countUniqeID \in Ids
<1>1. Cardinality(Over) \in Nat /\ Cardinality(Over) <= accepted
  BY OverBound DEF CountInv
<1> QED
  BY <1>1, MaxConnectionsAssumption DEF CountInv, Counted, Typed, Ids

LEMMA CountImpliesTypes == CountInv => TypeOK
BY CountInRange DEF CountInv, Typed, TypeOK

LEMMA InitCountInv == Init => CountInv
<1> SUFFICES ASSUME Init PROVE CountInv
  OBVIOUS
<1> USE MaxConnectionsAssumption
<1>1. Typed
  <2>1. thread \in [Conns -> Thread]
    BY PlaceTyped DEF Init
  <2>2. accepted \in 0..MaxConnections /\ 0 \in Ids
    BY DEF Init, Ids
  <2>3. acceptor \in [at : {"accept", "increase", "handler", "put", "execute"}, read : Ids]
    BY <2>2 DEF Init
  <2>4. activeClients \in [Ids -> 0..accepted] /\ connectionId \in [Conns -> Ids]
    BY <2>2 DEF Init
  <2>5. countUniqeID \in Int
    BY DEF Init
  <2>6. outOfTurn \in BOOLEAN
    BY DEF Init
  <2> QED
    BY <2>1, <2>2, <2>3, <2>4, <2>5, <2>6 DEF Typed
<1>2. Over = {}
  BY DEF Init, Over
<1>3. Cardinality(Over) = 0
  BY <1>2, FS_EmptySet
<1> QED
  BY <1>1, <1>3 DEF Init, CountInv, Order, Counted, Conns

\* What every step of a client's thread has in common: it changes its own place only,
\* never from an end and never to the beginning.
LEMMA ThreadSteps ==
    ASSUME CountInv, NEW c \in Conns, HandlerThread(c)
    PROVE  /\ UNCHANGED <<accepted, acceptor, connectionId>>
           /\ thread[c].at \notin {"new", "over", "dead"}
           /\ \E t \in Thread : thread' = [thread EXCEPT ![c] = t] /\ t.at # "new"
<1>1. countUniqeID \in Ids
  BY CountInRange
<1> DEFINE Places == {"started", "reading", "refused", "ending", "decrease", "read", "over", "dead"}
<1>2. ASSUME NEW at \in Places, Steps(c, at)
      PROVE  \E t \in Thread : thread' = [thread EXCEPT ![c] = t] /\ t.at # "new"
  <2>1. [at |-> at] \in Thread /\ [at |-> at].at # "new"
    BY <1>2, PlaceTyped
  <2> QED
    BY <1>2, <2>1 DEF Steps
<1> USE DEF server
<1>3. CASE OpenStreams(c) \/ Die(c)
  BY <1>2, <1>3 DEF OpenStreams, Die
<1>4. CASE Answer(c) \/ RefuseLogin(c) \/ EndSession(c)
  <2>1. \E at \in Places : Steps(c, at)
    BY <1>4 DEF Answer, RefuseLogin, EndSession, Answers
  <2> QED
    BY <1>2, <1>4, <2>1 DEF Answer, RefuseLogin, EndSession
<1>5. CASE EndLoop(c) \/ TestCounter(c) \/ DecreaseCounter(c)
  <2>1. \E at \in Places : Steps(c, at)
    BY <1>5 DEF EndLoop, TestCounter, DecreaseCounter
  <2> QED
    BY <1>2, <1>5, <2>1 DEF EndLoop, TestCounter, DecreaseCounter
<1>6. CASE ReadCounter(c)
  <2>1. [at |-> "write", read |-> countUniqeID] \in Thread
    BY <1>1 DEF Thread
  <2> QED
    BY <1>6, <2>1 DEF ReadCounter
<1> QED
  BY <1>3, <1>4, <1>5, <1>6 DEF HandlerThread

\* The order of the clients is no concern of their threads.
LEMMA ThreadKeepsOrder ==
    ASSUME CountInv, NEW c \in Conns, HandlerThread(c)
    PROVE  Order' /\ thread' \in [Conns -> Thread]
<1>1. PICK t \in Thread : thread' = [thread EXCEPT ![c] = t] /\ t.at # "new"
  BY ThreadSteps
<1>2. thread[c].at # "new" /\ UNCHANGED <<accepted, acceptor>>
  BY ThreadSteps
<1>3. \A d \in Conns : thread'[d].at = "new" <=> thread[d].at = "new"
  BY <1>1, <1>2 DEF CountInv, Typed
<1> QED
  BY <1>1, <1>2, <1>3 DEF CountInv, Typed, Order

LEMMA OverGrows ==
    ASSUME CountInv, NEW c \in Conns, HandlerThread(c)
    PROVE  /\ Cardinality(Over) \in Nat /\ Cardinality(Over') \in Nat
           /\ Cardinality(Over) <= Cardinality(Over')
           /\ thread'[c].at = "over" => Cardinality(Over') = Cardinality(Over) + 1
<1>1. PICK t \in Thread : thread' = [thread EXCEPT ![c] = t] /\ t.at # "new"
  BY ThreadSteps
<1>2. thread[c].at # "over" /\ thread \in [Conns -> Thread]
  BY ThreadSteps DEF CountInv, Typed
<1>3. IsFiniteSet(Over) /\ Cardinality(Over) \in Nat
  BY OverBound DEF CountInv
<1>4. CASE thread'[c].at = "over"
  <2>1. Over' = Over \cup {c} /\ c \notin Over
    BY <1>1, <1>2, <1>4 DEF Over
  <2>2. Cardinality(Over \cup {c}) = Cardinality(Over) + 1
    <3>1. /\ IsFiniteSet(Over \cup {c})
          /\ Cardinality(Over \cup {c}) =
                IF c \in Over THEN Cardinality(Over) ELSE Cardinality(Over) + 1
      BY <1>3, FS_AddElement, Zenon
    <3> QED
      BY <2>1, <3>1, Zenon
  <2>3. Cardinality(Over') = Cardinality(Over) + 1
    BY <2>1, <2>2, Zenon
  <2> QED
    BY <1>3, <2>3
<1>5. CASE thread'[c].at # "over"
  <2>1. Over' = Over
    BY <1>1, <1>2, <1>5 DEF Over
  <2> QED
    BY <1>3, <1>5, <2>1
<1> QED
  BY <1>4, <1>5

LEMMA ThreadKeepsCount ==
    ASSUME CountInv, NEW c \in Conns, HandlerThread(c)
    PROVE  CountInv'
<1> USE MaxConnectionsAssumption
<1>1. Order' /\ thread' \in [Conns -> Thread] /\ UNCHANGED <<accepted, acceptor, connectionId>>
  BY ThreadKeepsOrder, ThreadSteps
<1>2. /\ Cardinality(Over) \in Nat /\ Cardinality(Over') \in Nat
      /\ Cardinality(Over) <= Cardinality(Over')
      /\ thread'[c].at = "over" => Cardinality(Over') = Cardinality(Over) + 1
  BY OverGrows
<1>3. /\ countUniqeID \in Int /\ accepted \in Nat /\ acceptor.read \in Int
      /\ thread \in [Conns -> Thread] /\ outOfTurn \in BOOLEAN
      /\ activeClients \in [Ids -> 0..accepted] /\ connectionId \in [Conns -> Ids]
  BY DEF CountInv, Typed, Ids
<1>4. \A d \in Conns : thread[d].at = "write" => thread[d].read \in Int
  BY <1>3, ThreadCases DEF Ids
<1>5. \A d \in Conns : d # c => thread'[d] = thread[d]
  BY <1>3, ThreadSteps
<1>6. /\ \A d \in Conns \ {c} : thread'[d].at = "write" =>
            -Cardinality(Over') <= thread'[d].read /\ thread'[d].read <= accepted
      /\ -Cardinality(Over') <= acceptor.read
      /\ -Cardinality(Over') <= countUniqeID /\ countUniqeID <= accepted
      /\ acceptor.at = "increase" => acceptor.read < accepted
  BY <1>2, <1>3, <1>4, <1>5 DEF CountInv, Counted
<1>7. CASE OpenStreams(c) \/ Answer(c) \/ RefuseLogin(c) \/ EndSession(c) \/ Die(c) \/ TestCounter(c)
  <2>1. thread'[c].at # "write"
    BY <1>3, <1>7 DEF OpenStreams, Answer, RefuseLogin, EndSession, Answers, Die, TestCounter, Steps
  <2>2. UNCHANGED server
    BY <1>7 DEF OpenStreams, Answer, RefuseLogin, EndSession, Die, TestCounter
  <2>3. Counted'
    BY <1>6, <2>1, <2>2 DEF Counted, server
  <2>4. Typed'
    BY <1>1, <2>2 DEF CountInv, Typed, server
  <2> QED
    BY <1>1, <2>3, <2>4 DEF CountInv
<1>8. CASE EndLoop(c)
  <2>1. thread'[c].at # "write" /\ UNCHANGED <<countUniqeID, outOfTurn>>
    BY <1>3, <1>8 DEF EndLoop, Steps
  <2>2. activeClients' \in [Ids -> 0..accepted]
    BY <1>3, <1>8 DEF EndLoop, Disconnect
  <2>3. Counted'
    BY <1>1, <1>6, <2>1 DEF Counted
  <2>4. Typed'
    BY <1>1, <2>1, <2>2 DEF CountInv, Typed
  <2> QED
    BY <1>1, <2>3, <2>4 DEF CountInv
<1>9. CASE ReadCounter(c)
  <2>1. thread'[c] = [at |-> "write", read |-> countUniqeID] /\ UNCHANGED server
    BY <1>3, <1>9 DEF ReadCounter
  <2>2. Counted'
    BY <1>6, <2>1 DEF Counted, server
  <2>3. Typed'
    BY <1>1, <2>1 DEF CountInv, Typed, server
  <2> QED
    BY <1>1, <2>2, <2>3 DEF CountInv
<1>10. CASE DecreaseCounter(c)
  <2>1. /\ thread[c].at = "write" /\ countUniqeID' = thread[c].read - 1
        /\ thread'[c].at = "over" /\ UNCHANGED activeClients
    BY <1>3, <1>10 DEF DecreaseCounter, Steps
  <2>2. -Cardinality(Over') <= countUniqeID' /\ countUniqeID' <= accepted /\ countUniqeID' \in Int
    BY <1>2, <1>3, <1>4, <2>1 DEF CountInv, Counted
  <2>3. Counted'
    BY <1>1, <1>6, <2>1, <2>2 DEF Counted
  <2>4. outOfTurn' \in BOOLEAN
    BY <1>10 DEF DecreaseCounter
  <2>5. Typed'
    BY <1>1, <2>1, <2>2, <2>4 DEF CountInv, Typed
  <2> QED
    BY <1>1, <2>3, <2>5 DEF CountInv
<1> QED
  BY <1>7, <1>8, <1>9, <1>10 DEF HandlerThread

LEMMA AcceptLoopKeepsCount ==
    ASSUME CountInv, AcceptLoop
    PROVE  CountInv'
<1> USE MaxConnectionsAssumption
<1>1. /\ countUniqeID \in Ids /\ countUniqeID <= accepted
      /\ Cardinality(Over) \in Nat /\ Cardinality(Over) <= accepted
  BY CountInRange, OverBound DEF CountInv, Counted
<1>2. /\ countUniqeID \in Int /\ accepted \in Nat /\ accepted <= MaxConnections
      /\ acceptor.read \in Ids /\ acceptor.read \in Int
      /\ acceptor \in [at : {"accept", "increase", "handler", "put", "execute"}, read : Ids]
      /\ thread \in [Conns -> Thread] /\ outOfTurn \in BOOLEAN
      /\ activeClients \in [Ids -> 0..accepted] /\ connectionId \in [Conns -> Ids]
  BY DEF CountInv, Typed, Ids
<1>3. acceptor.at # "accept" => accepted \in Conns
  BY <1>2 DEF CountInv, Order, Conns
<1>4. CASE Accept
  <2>1. /\ accepted' = accepted + 1 /\ accepted' <= MaxConnections
        /\ acceptor' = [at |-> "increase", read |-> countUniqeID]
        /\ acceptor.at = "accept"
        /\ UNCHANGED <<countUniqeID, connectionId, activeClients, thread, outOfTurn>>
    BY <1>2, <1>4 DEF Accept
  <2>2. activeClients' \in [Ids -> 0..accepted']
    BY <1>2, <2>1
  <2>3. Typed'
    BY <1>1, <1>2, <2>1, <2>2 DEF Typed
  <2>4. Order'
    BY <1>2, <2>1 DEF CountInv, Order, Conns
  <2>5. Over' = Over
    BY <2>1 DEF Over
  <2>6. \A c \in Conns : thread[c].at = "write" => thread[c].read \in Int
    BY <1>2, ThreadCases DEF Ids
  <2>7. Counted'
    BY <1>1, <1>2, <2>1, <2>5, <2>6 DEF CountInv, Counted
  <2> QED
    BY <2>3, <2>4, <2>7 DEF CountInv
<1>5. CASE IncreaseCounter
  <2>1. /\ countUniqeID' = acceptor.read + 1 /\ acceptor.at = "increase"
        /\ acceptor' = [acceptor EXCEPT !.at = "handler"]
        /\ UNCHANGED <<accepted, connectionId, activeClients, thread, outOfTurn>>
    BY <1>5 DEF IncreaseCounter, Goes
  <2>2. acceptor'.at = "handler" /\ acceptor'.read = acceptor.read
    BY <1>2, <2>1
  <2>3. Typed'
    BY <1>2, <2>1 DEF Typed, CountInv
  <2>4. Order'
    BY <2>1, <2>2 DEF CountInv, Order
  <2>5. Over' = Over
    BY <2>1 DEF Over
  <2>6. Counted'
    BY <1>1, <1>2, <2>1, <2>2, <2>5 DEF CountInv, Counted
  <2> QED
    BY <2>3, <2>4, <2>6 DEF CountInv
<1>6. CASE NewHandler \/ PutHandler
  <2>1. /\ UNCHANGED <<countUniqeID, accepted, thread, outOfTurn>>
        /\ acceptor.at \in {"handler", "put"}
        /\ \E at \in {"put", "execute"} : acceptor' = [acceptor EXCEPT !.at = at]
    BY <1>6 DEF NewHandler, PutHandler, Goes
  <2>2. acceptor'.at \in {"put", "execute"} /\ acceptor'.read = acceptor.read
    BY <1>2, <2>1
  <2>3. connectionId' \in [Conns -> Ids] /\ activeClients' \in [Ids -> 0..accepted]
    BY <1>1, <1>2, <1>6 DEF NewHandler, PutHandler
  <2>4. acceptor' \in [at : {"accept", "increase", "handler", "put", "execute"}, read : Ids]
    BY <1>2, <2>1
  <2>5. Typed'
    BY <2>1, <2>3, <2>4 DEF Typed, CountInv
  <2>6. Order'
    BY <2>1, <2>2 DEF CountInv, Order
  <2>7. Over' = Over
    BY <2>1 DEF Over
  <2>8. Counted'
    BY <2>1, <2>2, <2>7 DEF CountInv, Counted
  <2> QED
    BY <2>5, <2>6, <2>8 DEF CountInv
<1>7. CASE Execute
  <2>1. /\ UNCHANGED <<countUniqeID, accepted, connectionId, activeClients, outOfTurn>>
        /\ acceptor.at = "execute" /\ acceptor' = [acceptor EXCEPT !.at = "accept"]
        /\ thread' = [thread EXCEPT ![accepted] = [at |-> "started"]]
        /\ accepted \in Conns /\ thread[accepted].at = "new"
    BY <1>3, <1>7 DEF Execute, Goes, CountInv, Order
  <2>2. acceptor'.at = "accept" /\ acceptor'.read = acceptor.read
    BY <1>2, <2>1
  <2>3. /\ \A c \in Conns : c # accepted => thread'[c] = thread[c]
        /\ thread'[accepted].at = "started"
        /\ thread' \in [Conns -> Thread]
    BY <1>2, <2>1, PlaceTyped
  <2>4. acceptor' \in [at : {"accept", "increase", "handler", "put", "execute"}, read : Ids]
    BY <1>2, <2>1
  <2>5. Typed'
    BY <2>1, <2>3, <2>4 DEF Typed, CountInv
  <2>6. Order'
    BY <2>1, <2>2, <2>3 DEF CountInv, Order
  <2>7. Over' = Over
    BY <2>1, <2>3 DEF Over
  <2>8. Counted'
    BY <2>1, <2>2, <2>3, <2>7 DEF CountInv, Counted
  <2> QED
    BY <2>5, <2>6, <2>8 DEF CountInv
<1> QED
  BY <1>4, <1>5, <1>6, <1>7 DEF AcceptLoop

LEMMA StepKeepsCount == CountInv /\ [Next]_vars => CountInv'
<1> SUFFICES ASSUME CountInv, [Next]_vars PROVE CountInv'
  OBVIOUS
<1>1. CASE UNCHANGED vars
  <2>1. Over' = Over
    BY <1>1 DEF vars, Over
  <2>2. Counted'
    BY <1>1, <2>1 DEF vars, server, CountInv, Counted
  <2> QED
    BY <1>1, <2>2 DEF vars, server, CountInv, Typed, Order
<1> QED
  BY <1>1, AcceptLoopKeepsCount, ThreadKeepsCount DEF Next

LEMMA AlwaysCountInv == Spec => []CountInv
<1>1. CountInv /\ [Next]_vars => CountInv'
  BY StepKeepsCount
<1> QED
  BY <1>1, InitCountInv, PTL DEF Spec

\* However the reads and writes of the counter cross, it stays between minus and plus the
\* number of clients accepted, and every id is within the bounds.
THEOREM CounterBounded == Spec => []TypeOK
BY AlwaysCountInv, CountImpliesTypes, PTL

-----------------------------------------------------------------------------
(* The registry                                                             *)

InSession == {"started", "reading", "refused", "ending"}

\* The client has its id, and it is not given back; its handler is in the registry.
Numbered(c) ==
    \/ thread[c].at \in InSession
    \/ c = accepted /\ acceptor.at \in {"put", "execute"}

Registered(c) ==
    \/ thread[c].at \in InSession
    \/ c = accepted /\ acceptor.at = "execute"

\* The clients behind c that may still count down.
Younger(c) == {d \in (c + 1)..accepted : thread[d].at \notin {"over", "dead"}}

\* The client being accepted is among the younger ones before it is counted.
Due == IF acceptor.at = "increase" THEN 1 ELSE 0

\* The accept loop uses one value of the counter for a client.
OneRead ==
    /\ acceptor.at = "increase" => acceptor.read = countUniqeID
    /\ acceptor.at \in {"put", "execute"} => connectionId[accepted] = countUniqeID

NewUnknown ==
    acceptor.at \in {"increase", "handler", "put"} => \A i \in Ids : activeClients[i] # accepted

\* Even if all younger clients count down, the counter does not fall below an id that is
\* taken, so that the next client gets another one ...
RoomAbove ==
    \A c \in Conns : Numbered(c) =>
        connectionId[c] + Cardinality(Younger(c)) <= countUniqeID + Due

\* ... and the ids that are taken grow with the age of the connections.
Ascending ==
    \A c, d \in Conns : Numbered(c) /\ Numbered(d) /\ c < d => connectionId[c] < connectionId[d]

Reached == \A c \in Conns : Registered(c) => activeClients[connectionId[c]] = c

OwnId == \A i \in Ids : activeClients[i] # 0 => connectionId[activeClients[i]] = i

GoneUnknown ==
    \A c \in Conns : thread[c].at \in {"decrease", "read", "write", "over"} =>
        \A i \in Ids : activeClients[i] # c

InTurn == OneRead /\ NewUnknown /\ RoomAbove /\ Ascending /\ Reached /\ OwnId /\ GoneUnknown

RegistryInv == CountInv /\ (~outOfTurn => InTurn)

LEMMA YoungerFinite ==
    ASSUME CountInv, NEW c \in Conns
    PROVE  /\ IsFiniteSet(Younger(c)) /\ Cardinality(Younger(c)) \in Nat
           /\ c = accepted => Cardinality(Younger(c)) = 0
<1>1. c \in Int /\ accepted \in Int
  BY MaxConnectionsAssumption DEF CountInv, Typed, Conns
<1>2. IsFiniteSet((c + 1)..accepted) /\ (c = accepted => (c + 1)..accepted = {})
  BY <1>1, FS_Interval
<1>3. IsFiniteSet(Younger(c)) /\ (c = accepted => Younger(c) = {})
  BY <1>2, FS_Subset DEF Younger
<1> QED
  BY <1>3, FS_CardinalityType, FS_EmptySet

\* What the properties of the registry need of the types.
LEMMA Facts ==
    ASSUME CountInv
    PROVE  /\ accepted \in Nat /\ countUniqeID \in Ids /\ countUniqeID \in Int
           /\ thread \in [Conns -> Thread]
           /\ connectionId \in [Conns -> Ids] /\ \A c \in Conns : connectionId[c] \in Int
           /\ activeClients \in [Ids -> 0..accepted]
           /\ acceptor \in [at : {"accept", "increase", "handler", "put", "execute"}, read : Ids]
           /\ acceptor.at # "accept" => accepted \in Conns /\ thread[accepted].at = "new"
           /\ \A c \in Conns : c \in Int /\ c # 0 /\ (Numbered(c) => c <= accepted)
           /\ \A c \in Conns : Registered(c) => Numbered(c)
<1>1. /\ accepted \in Nat /\ countUniqeID \in Ids /\ countUniqeID \in Int
      /\ thread \in [Conns -> Thread]
      /\ connectionId \in [Conns -> Ids] /\ \A c \in Conns : connectionId[c] \in Int
      /\ activeClients \in [Ids -> 0..accepted]
      /\ acceptor \in [at : {"accept", "increase", "handler", "put", "execute"}, read : Ids]
  BY CountInRange, MaxConnectionsAssumption DEF CountInv, Typed, Ids
<1>2. acceptor.at # "accept" => accepted \in Conns
  BY MaxConnectionsAssumption DEF CountInv, Typed, Order, Conns
<1>3. acceptor.at # "accept" => thread[accepted].at = "new"
  BY <1>2 DEF CountInv, Order
<1>4. \A c \in Conns : c \in Int /\ c # 0
  BY DEF Conns
<1>5. \A c \in Conns : Numbered(c) => c <= accepted
  BY <1>1, <1>4 DEF CountInv, Order, Numbered, InSession
<1>6. \A c \in Conns : Registered(c) => Numbered(c)
  BY DEF Registered, Numbered
<1> QED
  BY <1>1, <1>2, <1>3, <1>4, <1>5, <1>6

LEMMA AcceptKeepsRegistry ==
    ASSUME CountInv, CountInv', InTurn, Accept
    PROVE  InTurn'
<1> USE Facts
<1>1. /\ acceptor.at = "accept" /\ accepted' = accepted + 1
      /\ acceptor'.at = "increase" /\ acceptor'.read = countUniqeID
      /\ UNCHANGED <<countUniqeID, connectionId, activeClients, thread>>
  BY DEF Accept
<1>2. \A c \in Conns : /\ Numbered(c)' <=> thread[c].at \in InSession
                       /\ Numbered(c) <=> thread[c].at \in InSession
                       /\ Registered(c)' <=> Registered(c)
  BY <1>1 DEF Numbered, Registered
<1>3. OneRead' /\ Ascending' /\ Reached' /\ OwnId' /\ GoneUnknown'
  BY <1>1, <1>2 DEF InTurn, OneRead, Ascending, Reached, OwnId, GoneUnknown
<1>4. NewUnknown'
  BY <1>1 DEF NewUnknown
<1>5. ASSUME NEW c \in Conns, Numbered(c)'
      PROVE  connectionId[c] + Cardinality(Younger(c)') <= countUniqeID + Due'
  <2>1. c <= accepted /\ Numbered(c)
    BY <1>2, <1>5
  <2>2. accepted' \in Conns /\ thread[accepted'].at = "new"
    BY <1>1, MaxConnectionsAssumption DEF Accept, Conns, CountInv, Order
  <2>3. Younger(c)' = Younger(c) \cup {accepted'} /\ accepted' \notin Younger(c)
    BY <1>1, <2>1, <2>2 DEF Younger
  <2>4. Cardinality(Younger(c)') = Cardinality(Younger(c)) + 1
    BY <2>3, YoungerFinite, FS_AddElement
  <2>5. connectionId[c] + Cardinality(Younger(c)) <= countUniqeID
    BY <1>1, <2>1 DEF InTurn, RoomAbove, Due
  <2> QED
    BY <1>1, <2>4, <2>5, YoungerFinite DEF Due
<1>6. RoomAbove'
  BY <1>1, <1>5 DEF RoomAbove
<1> QED
  BY <1>3, <1>4, <1>6 DEF InTurn

LEMMA IncreaseKeepsRegistry ==
    ASSUME CountInv, CountInv', InTurn, IncreaseCounter
    PROVE  InTurn'
<1> USE Facts
<1>1. /\ acceptor.at = "increase" /\ acceptor'.at = "handler"
      /\ countUniqeID' = countUniqeID + 1
      /\ UNCHANGED <<accepted, connectionId, activeClients, thread>>
  BY DEF IncreaseCounter, Goes, InTurn, OneRead
<1>2. \A c \in Conns : /\ Numbered(c)' <=> Numbered(c)
                       /\ Registered(c)' <=> Registered(c)
                       /\ Younger(c)' = Younger(c)
  BY <1>1 DEF Numbered, Registered, Younger
<1>3. OneRead' /\ NewUnknown' /\ Ascending' /\ Reached' /\ OwnId' /\ GoneUnknown'
  BY <1>1, <1>2 DEF InTurn, OneRead, NewUnknown, Ascending, Reached, OwnId, GoneUnknown
<1>4. Due = 1 /\ Due' = 0
  BY <1>1 DEF Due
<1>5. RoomAbove'
  BY <1>1, <1>2, <1>4, YoungerFinite DEF InTurn, RoomAbove
<1> QED
  BY <1>3, <1>5 DEF InTurn

LEMMA NewHandlerKeepsRegistry ==
    ASSUME CountInv, CountInv', InTurn, NewHandler
    PROVE  InTurn'
<1> USE Facts
<1>1. /\ acceptor.at = "handler" /\ acceptor'.at = "put" /\ accepted \in Conns
      /\ connectionId' = [connectionId EXCEPT ![accepted] = countUniqeID]
      /\ UNCHANGED <<countUniqeID, accepted, activeClients, thread>>
  BY DEF NewHandler, Goes
<1>2. /\ connectionId'[accepted] = countUniqeID
      /\ \A c \in Conns : c # accepted => connectionId'[c] = connectionId[c]
  BY <1>1
<1>3. \A c \in Conns : /\ Numbered(c)' <=> Numbered(c) \/ c = accepted
                       /\ Registered(c)' <=> Registered(c)
                       /\ Younger(c)' = Younger(c)
  BY <1>1 DEF Numbered, Registered, Younger
<1>4. ~Numbered(accepted) /\ ~Registered(accepted)
  BY <1>1 DEF Numbered, Registered, InSession
<1>5. Due = 0 /\ Due' = 0
  BY <1>1 DEF Due
<1>6. \A i \in Ids : activeClients[i] # accepted
  BY <1>1 DEF InTurn, NewUnknown
<1>7. OneRead' /\ NewUnknown' /\ GoneUnknown'
  BY <1>1, <1>2, <1>6 DEF InTurn, OneRead, NewUnknown, GoneUnknown
<1>8. Reached'
  BY <1>1, <1>2, <1>3, <1>4 DEF InTurn, Reached
<1>9. OwnId'
  <2> SUFFICES ASSUME NEW i \in Ids, activeClients[i] # 0
               PROVE  connectionId'[activeClients[i]] = i
    BY <1>1 DEF OwnId
  <2>1. activeClients[i] \in Conns
    <3>1. activeClients[i] \in 0..accepted
      OBVIOUS
    <3> QED
      BY <1>1, <3>1, MaxConnectionsAssumption DEF Conns
  <2> QED
    BY <1>2, <1>6, <2>1 DEF InTurn, OwnId
<1>10. RoomAbove'
  <2>1. Cardinality(Younger(accepted)) = 0
    BY <1>1, YoungerFinite
  <2>2. ASSUME NEW c \in Conns, Numbered(c)'
        PROVE  connectionId'[c] + Cardinality(Younger(c)) <= countUniqeID
    BY <1>2, <1>3, <1>5, <2>1, <2>2, YoungerFinite DEF InTurn, RoomAbove
  <2> QED
    BY <1>1, <1>3, <1>5, <2>2 DEF RoomAbove
<1>11. Ascending'
  <2>1. ASSUME NEW c \in Conns, Numbered(c), c < accepted
        PROVE  connectionId[c] < countUniqeID
    <3>1. accepted \in Younger(c)
      BY <1>1, <2>1 DEF Younger
    <3>2. Cardinality(Younger(c)) \in Nat /\ Cardinality(Younger(c)) # 0
      BY <3>1, YoungerFinite, FS_EmptySet
    <3>3. connectionId[c] + Cardinality(Younger(c)) <= countUniqeID + 0
      BY <1>5, <2>1 DEF InTurn, RoomAbove
    <3> QED
      BY <3>2, <3>3
  <2>2. ASSUME NEW c \in Conns, NEW d \in Conns, Numbered(c)', Numbered(d)', c < d
        PROVE  connectionId'[c] < connectionId'[d]
    <3>1. Numbered(c) /\ c < accepted
      BY <1>3, <2>2
    <3> QED
      BY <1>2, <1>3, <2>1, <2>2, <3>1 DEF InTurn, Ascending
  <2> QED
    BY <2>2 DEF Ascending
<1> QED
  BY <1>7, <1>8, <1>9, <1>10, <1>11 DEF InTurn

LEMMA PutHandlerKeepsRegistry ==
    ASSUME CountInv, CountInv', InTurn, PutHandler
    PROVE  InTurn'
<1> USE Facts
<1>1. /\ acceptor.at = "put" /\ acceptor'.at = "execute" /\ accepted \in Conns
      /\ activeClients' = [activeClients EXCEPT ![countUniqeID] = accepted]
      /\ UNCHANGED <<countUniqeID, accepted, connectionId, thread>>
  BY DEF PutHandler, Goes
<1>2. /\ activeClients'[countUniqeID] = accepted
      /\ \A i \in Ids : i # countUniqeID => activeClients'[i] = activeClients[i]
      /\ connectionId[accepted] = countUniqeID
  BY <1>1 DEF InTurn, OneRead
<1>3. \A c \in Conns : /\ Numbered(c)' <=> Numbered(c)
                       /\ Registered(c)' <=> Registered(c) \/ c = accepted
                       /\ Younger(c)' = Younger(c)
  BY <1>1 DEF Numbered, Registered, Younger
<1>4. Due = 0 /\ Due' = 0
  BY <1>1 DEF Due
<1>5. OneRead' /\ NewUnknown'
  BY <1>1 DEF InTurn, OneRead, NewUnknown
<1>6. RoomAbove'
  BY <1>1, <1>3, <1>4 DEF InTurn, RoomAbove
<1>7. Ascending'
  BY <1>1, <1>3 DEF InTurn, Ascending
<1>8. OwnId'
  BY <1>1, <1>2 DEF InTurn, OwnId
<1>9. GoneUnknown'
  BY <1>1, <1>2 DEF InTurn, GoneUnknown
<1>10. ASSUME NEW c \in Conns, Registered(c)'
       PROVE  activeClients'[connectionId[c]] = c
  <2>1. CASE c = accepted
    BY <1>2, <2>1
  <2>2. CASE c # accepted
    <3>1. Registered(c) /\ Numbered(c) /\ c < accepted
      BY <1>3, <1>10, <2>2
    <3>2. Numbered(accepted)
      BY <1>1 DEF Numbered
    <3>3. connectionId[c] < countUniqeID
      BY <1>1, <1>2, <3>1, <3>2 DEF InTurn, Ascending
    <3> QED
      BY <1>2, <3>1, <3>3 DEF InTurn, Reached
  <2> QED
    BY <2>1, <2>2
<1>11. Reached'
  BY <1>1, <1>10 DEF Reached
<1> QED
  BY <1>5, <1>6, <1>7, <1>8, <1>9, <1>11 DEF InTurn

LEMMA ExecuteKeepsRegistry ==
    ASSUME CountInv, CountInv', InTurn, Execute
    PROVE  InTurn'
<1> USE Facts
<1>1. /\ acceptor.at = "execute" /\ acceptor'.at = "accept" /\ accepted \in Conns
      /\ thread[accepted].at = "new" /\ thread'[accepted].at = "started"
      /\ \A c \in Conns : c # accepted => thread'[c] = thread[c]
      /\ UNCHANGED <<countUniqeID, accepted, connectionId, activeClients>>
  BY DEF Execute, Goes
<1>2. \A c \in Conns : /\ Numbered(c)' <=> Numbered(c)
                       /\ Registered(c)' <=> Registered(c)
  BY <1>1 DEF Numbered, Registered, InSession
<1>3. \A c \in Conns : Younger(c)' = Younger(c)
  <2> SUFFICES ASSUME NEW c \in Conns PROVE Younger(c)' = Younger(c)
    OBVIOUS
  <2>1. (c + 1)..accepted \subseteq Conns
    BY <1>1, MaxConnectionsAssumption DEF Conns
  <2> QED
    BY <1>1, <2>1 DEF Younger
<1>4. Due = 0 /\ Due' = 0
  BY <1>1 DEF Due
<1>5. OneRead' /\ NewUnknown' /\ Ascending' /\ Reached' /\ OwnId' /\ GoneUnknown'
  BY <1>1, <1>2 DEF InTurn, OneRead, NewUnknown, Ascending, Reached, OwnId, GoneUnknown
<1>6. RoomAbove'
  BY <1>1, <1>2, <1>3, <1>4 DEF InTurn, RoomAbove
<1> QED
  BY <1>5, <1>6 DEF InTurn

\* A thread's step gives nobody an id or a place in the registry, and nobody a younger
\* client to count down.
LEMMA ThreadGivesNothing ==
    ASSUME CountInv, NEW c \in Conns, HandlerThread(c), NEW d \in Conns
    PROVE  /\ Numbered(d)' => Numbered(d)
           /\ Registered(d)' => Registered(d)
           /\ Younger(d)' \subseteq Younger(d)
           /\ Cardinality(Younger(d)') \in Nat
           /\ Cardinality(Younger(d)') <= Cardinality(Younger(d))
<1> USE Facts
<1>1. UNCHANGED <<accepted, acceptor, connectionId>> /\ thread[c].at \notin {"new", "over", "dead"}
  BY ThreadSteps
<1>2. \A e \in Conns : e # c => thread'[e] = thread[e]
  BY ThreadSteps
<1>3. thread'[c].at \in InSession => thread[c].at \in InSession
  <2>1. thread[c].at \in {"started", "reading"} => thread[c].at \in InSession
    BY DEF InSession
  <2>2. CASE \/ OpenStreams(c) \/ Answer(c) \/ RefuseLogin(c) \/ EndSession(c) \/ Die(c)
    BY <2>1, <2>2 DEF OpenStreams, Answer, RefuseLogin, EndSession, Die
  <2>3. CASE EndLoop(c) \/ TestCounter(c) \/ DecreaseCounter(c)
    <3>1. PICK at \in {"decrease", "read", "over"} : Steps(c, at)
      BY <2>3 DEF EndLoop, TestCounter, DecreaseCounter
    <3>2. thread'[c].at = at
      BY <3>1 DEF Steps
    <3> QED
      BY <3>2 DEF InSession
  <2>4. CASE ReadCounter(c)
    BY <2>4 DEF ReadCounter, InSession
  <2> QED
    BY <2>2, <2>3, <2>4 DEF HandlerThread
<1>4. (Numbered(d)' => Numbered(d)) /\ (Registered(d)' => Registered(d))
  BY <1>1, <1>2, <1>3 DEF Numbered, Registered
<1>5. (d + 1)..accepted \subseteq Conns
  BY MaxConnectionsAssumption DEF Conns, CountInv, Typed
<1>6. Younger(d)' \subseteq Younger(d)
  BY <1>1, <1>2, <1>5 DEF Younger
<1>7. Cardinality(Younger(d)') <= Cardinality(Younger(d)) /\ IsFiniteSet(Younger(d)')
  BY <1>6, YoungerFinite, FS_Subset
<1> QED
  BY <1>4, <1>6, <1>7, FS_CardinalityType

LEMMA EndLoopKeepsRegistry ==
    ASSUME CountInv, CountInv', InTurn, NEW c \in Conns, EndLoop(c)
    PROVE  InTurn'
<1> USE Facts
<1>0. HandlerThread(c)
  BY DEF HandlerThread
<1>1. /\ thread[c].at \in {"refused", "ending"} /\ thread'[c].at \in {"decrease", "over"}
      /\ \A d \in Conns : d # c => thread'[d] = thread[d]
      /\ activeClients' = [activeClients EXCEPT ![connectionId[c]] = 0]
      /\ UNCHANGED <<countUniqeID, accepted, acceptor, connectionId>>
  BY DEF EndLoop, Disconnect, Steps
<1>2. /\ activeClients'[connectionId[c]] = 0
      /\ \A i \in Ids : i # connectionId[c] => activeClients'[i] = activeClients[i]
  BY <1>1
<1>4. OneRead' /\ OwnId'
  BY <1>1, <1>2 DEF InTurn, OneRead, OwnId
<1>5. NewUnknown'
  <2>1. acceptor.at # "accept" => accepted # 0
    OBVIOUS
  <2> QED
    BY <1>1, <1>2, <2>1 DEF InTurn, NewUnknown
<1>6. RoomAbove'
  <2> SUFFICES ASSUME NEW d \in Conns, Numbered(d)'
               PROVE  connectionId[d] + Cardinality(Younger(d)') <= countUniqeID + Due
    BY <1>1 DEF RoomAbove, Due
  <2>1. /\ Numbered(d) /\ Cardinality(Younger(d)') \in Nat
        /\ Cardinality(Younger(d)') <= Cardinality(Younger(d))
    BY <1>0, ThreadGivesNothing
  <2>2. connectionId[d] + Cardinality(Younger(d)) <= countUniqeID + Due
    BY <2>1 DEF InTurn, RoomAbove
  <2> QED
    BY <2>1, <2>2, YoungerFinite DEF Due
<1>7. Ascending'
  BY <1>0, <1>1, ThreadGivesNothing DEF InTurn, Ascending
<1>8. Reached'
  <2> SUFFICES ASSUME NEW d \in Conns, Registered(d)'
               PROVE  activeClients'[connectionId[d]] = d
    BY <1>1 DEF Reached
  <2>1. Registered(d) /\ Numbered(d) /\ d # c
    <3>1. Registered(d) /\ Numbered(d)
      BY <1>0, ThreadGivesNothing
    <3>2. ~Registered(c)'
      BY <1>1 DEF Registered, InSession
    <3> QED
      BY <3>1, <3>2
  <2>2. Numbered(c)
    BY <1>1 DEF Numbered, InSession
  <2>3. connectionId[d] # connectionId[c]
    BY <2>1, <2>2 DEF InTurn, Ascending
  <2> QED
    BY <1>2, <2>1, <2>3 DEF InTurn, Reached
<1>9. GoneUnknown'
  <2>1. \A i \in Ids : activeClients'[i] # c
    BY <1>2 DEF InTurn, OwnId
  <2>2. \A d \in Conns, i \in Ids : activeClients'[i] = d => activeClients[i] = d
    BY <1>2
  <2> QED
    BY <1>1, <2>1, <2>2 DEF InTurn, GoneUnknown
<1> QED
  BY <1>4, <1>5, <1>6, <1>7, <1>8, <1>9 DEF InTurn

LEMMA DecreaseKeepsRegistry ==
    ASSUME CountInv, CountInv', InTurn, NEW c \in Conns, DecreaseCounter(c), ~outOfTurn'
    PROVE  InTurn'
<1> USE Facts
<1>0. HandlerThread(c)
  BY DEF HandlerThread
<1>1. /\ thread[c].at = "write" /\ thread'[c].at = "over"
      /\ \A d \in Conns : d # c => thread'[d] = thread[d]
      /\ countUniqeID' = countUniqeID - 1
      /\ UNCHANGED <<activeClients, accepted, acceptor, connectionId>>
      /\ \A d \in (c + 1)..accepted : Gone(d)
  <2>1. countUniqeID' = thread[c].read - 1 /\ countUniqeID = thread[c].read
    BY DEF DecreaseCounter
  <2> QED
    BY <2>1 DEF DecreaseCounter, Steps
<1>2. c <= accepted
  BY <1>1 DEF CountInv, Order
\* The accept loop is not between two clients: the one it accepts would be younger.
<1>3. acceptor.at = "accept"
  <2> SUFFICES ASSUME acceptor.at # "accept" PROVE FALSE
    OBVIOUS
  <2>1. accepted \in Conns /\ thread[accepted].at = "new" /\ c # accepted
    BY <1>1
  <2>2. accepted \in (c + 1)..accepted
    BY <1>2, <2>1
  <2> QED
    BY <1>1, <2>1, <2>2 DEF Gone
<1>4. \A d \in Conns : Numbered(d) => d < c
  <2> SUFFICES ASSUME NEW d \in Conns, Numbered(d) PROVE d < c
    OBVIOUS
  <2>1. thread[d].at \in InSession /\ d <= accepted
    BY <1>3 DEF Numbered
  <2>2. ~Gone(d) /\ d # c
    BY <1>1, <2>1 DEF Gone, InSession
  <2>3. d \notin (c + 1)..accepted
    BY <1>1, <2>2
  <2> QED
    BY <2>1, <2>2, <2>3
<1>5. OneRead' /\ NewUnknown' /\ OwnId'
  BY <1>1, <1>3 DEF InTurn, OneRead, NewUnknown, OwnId
<1>6. RoomAbove'
  <2> SUFFICES ASSUME NEW d \in Conns, Numbered(d)'
               PROVE  connectionId[d] + Cardinality(Younger(d)') <= countUniqeID - 1 + Due
    BY <1>1 DEF RoomAbove, Due
  <2>1. Numbered(d) /\ d < c
    BY <1>0, <1>4, ThreadGivesNothing
  <2>2. Younger(d)' = Younger(d) \ {c} /\ c \in Younger(d)
    <3>1. (d + 1)..accepted \subseteq Conns
      BY MaxConnectionsAssumption DEF Conns, CountInv, Typed
    <3> QED
      BY <1>1, <1>2, <2>1, <3>1 DEF Younger
  <2>3. Cardinality(Younger(d)') = Cardinality(Younger(d)) - 1
    BY <2>2, YoungerFinite, FS_RemoveElement
  <2>4. connectionId[d] + Cardinality(Younger(d)) <= countUniqeID + Due
    BY <2>1 DEF InTurn, RoomAbove
  <2> QED
    BY <2>3, <2>4, YoungerFinite DEF Due
<1>7. Ascending'
  BY <1>0, <1>1, ThreadGivesNothing DEF InTurn, Ascending
<1>8. Reached'
  BY <1>0, <1>1, ThreadGivesNothing DEF InTurn, Reached
<1>9. GoneUnknown'
  BY <1>1 DEF InTurn, GoneUnknown
<1> QED
  BY <1>5, <1>6, <1>7, <1>8, <1>9 DEF InTurn

\* The other steps of a thread do not touch the counter and the registry.
LEMMA ThreadAloneKeepsRegistry ==
    ASSUME CountInv, CountInv', InTurn, NEW c \in Conns,
           \/ OpenStreams(c) \/ Answer(c) \/ RefuseLogin(c) \/ EndSession(c) \/ Die(c)
           \/ TestCounter(c) \/ ReadCounter(c)
    PROVE  InTurn'
<1> USE Facts
<1>0. HandlerThread(c)
  BY DEF HandlerThread
<1>1. UNCHANGED <<countUniqeID, accepted, acceptor, connectionId, activeClients>>
  BY DEF OpenStreams, Answer, RefuseLogin, EndSession, Die, TestCounter, ReadCounter, server
<1>2. \A d \in Conns : d # c => thread'[d] = thread[d]
  BY <1>0, ThreadSteps
<1>3. OneRead' /\ NewUnknown' /\ OwnId'
  BY <1>1 DEF InTurn, OneRead, NewUnknown, OwnId
<1>4. RoomAbove'
  <2> SUFFICES ASSUME NEW d \in Conns, Numbered(d)'
               PROVE  connectionId[d] + Cardinality(Younger(d)') <= countUniqeID + Due
    BY <1>1 DEF RoomAbove, Due
  <2>1. /\ Numbered(d) /\ Cardinality(Younger(d)') \in Nat
        /\ Cardinality(Younger(d)') <= Cardinality(Younger(d))
    BY <1>0, ThreadGivesNothing
  <2>2. connectionId[d] + Cardinality(Younger(d)) <= countUniqeID + Due
    BY <2>1 DEF InTurn, RoomAbove
  <2> QED
    BY <2>1, <2>2, YoungerFinite DEF Due
<1>5. Ascending'
  BY <1>0, <1>1, ThreadGivesNothing DEF InTurn, Ascending
<1>6. Reached'
  BY <1>0, <1>1, ThreadGivesNothing DEF InTurn, Reached
<1>7. GoneUnknown'
  <2> DEFINE Left == {"decrease", "read", "write", "over"}
  <2>1. CASE TestCounter(c) \/ ReadCounter(c)
    <3>1. thread[c].at \in Left
      BY <2>1 DEF TestCounter, ReadCounter
    <3> QED
      BY <1>1, <1>2, <3>1 DEF InTurn, GoneUnknown
  <2>2. CASE \/ OpenStreams(c) \/ Answer(c) \/ RefuseLogin(c) \/ EndSession(c) \/ Die(c)
    <3>1. PICK at \in {"reading", "refused", "ending", "dead"} : Steps(c, at)
      BY <2>2 DEF OpenStreams, Answer, RefuseLogin, EndSession, Die, Answers
    <3>2. thread'[c].at \notin Left
      BY <3>1 DEF Steps
    <3> QED
      BY <1>1, <1>2, <3>2 DEF InTurn, GoneUnknown
  <2> QED
    BY <2>1, <2>2
<1> QED
  BY <1>3, <1>4, <1>5, <1>6, <1>7 DEF InTurn

LEMMA StepKeepsRegistry == RegistryInv /\ [Next]_vars => RegistryInv'
<1> SUFFICES ASSUME RegistryInv, [Next]_vars PROVE RegistryInv'
  OBVIOUS
<1>1. CountInv /\ CountInv'
  BY StepKeepsCount DEF RegistryInv
<1>2. CASE UNCHANGED vars
  <2>1. \A c \in Conns : Younger(c)' = Younger(c)
    BY <1>2 DEF vars, server, Younger
  <2>2. InTurn => InTurn'
    BY <1>2, <2>1 DEF vars, server, InTurn, OneRead, NewUnknown, RoomAbove, Ascending, Reached, OwnId,
                      GoneUnknown, Due, Numbered, Registered
  <2> QED
    BY <1>1, <1>2, <2>2 DEF vars, server, RegistryInv
<1>3. Next /\ ~outOfTurn' => ~outOfTurn
  <2>1. AcceptLoop => UNCHANGED outOfTurn
    BY DEF AcceptLoop, Accept, IncreaseCounter, NewHandler, PutHandler, Execute
  <2>2. ASSUME NEW c \in Conns, HandlerThread(c)
        PROVE  UNCHANGED outOfTurn \/ (outOfTurn => outOfTurn')
    BY <2>2 DEF HandlerThread, OpenStreams, Answer, RefuseLogin, EndSession, Die, EndLoop,
                TestCounter, ReadCounter, DecreaseCounter, server
  <2> QED
    BY <2>1, <2>2 DEF Next
<1>4. ASSUME Next, ~outOfTurn' PROVE InTurn'
  <2>1. InTurn
    BY <1>3, <1>4 DEF RegistryInv
  <2>2. CASE AcceptLoop
    BY <1>1, <2>1, <2>2, AcceptKeepsRegistry, IncreaseKeepsRegistry, NewHandlerKeepsRegistry,
       PutHandlerKeepsRegistry, ExecuteKeepsRegistry DEF AcceptLoop
  <2>3. ASSUME NEW c \in Conns, HandlerThread(c) PROVE InTurn'
    BY <1>1, <1>4, <2>1, <2>3, EndLoopKeepsRegistry, DecreaseKeepsRegistry, ThreadAloneKeepsRegistry
       DEF HandlerThread
  <2> QED
    BY <1>4, <2>2, <2>3 DEF Next
<1> QED
  BY <1>1, <1>2, <1>4 DEF RegistryInv

\* As long as ids are given back in turn, a client that is there is registered under the
\* id of its own protocol, and one that has ended its session is not registered, for any
\* number of clients.
THEOREM RegistryAlwaysExact == Spec => []RegistryExact
<1>1. Init => RegistryInv
  <2> SUFFICES ASSUME Init PROVE InTurn
    BY InitCountInv DEF RegistryInv
  <2>1. \A c \in Conns : thread[c].at = "new" /\ ~Numbered(c) /\ ~Registered(c)
    BY DEF Init, Numbered, Registered, InSession
  <2> QED
    BY <2>1 DEF Init, InTurn, OneRead, NewUnknown, RoomAbove, Ascending, Reached, OwnId, GoneUnknown
<1>2. RegistryInv /\ [Next]_vars => RegistryInv'
  BY StepKeepsRegistry
<1>3. RegistryInv => RegistryExact
  BY DEF RegistryInv, InTurn, Reached, GoneUnknown, Registered, InSession, RegistryExact
<1> QED
  BY <1>1, <1>2, <1>3, PTL DEF Spec
=============================================================================
