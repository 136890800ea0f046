--------------------------- MODULE ThreadPerClient ---------------------------
(***************************************************************************)
(* The server with a thread per client: the accept loop of BaseServer, the *)
(* thread of each BlockingConnectionHandler, and the counter that ids are  *)
(* made from, which the threads of refused logins count down.  What a      *)
(* frame does to accounts and channels is in StompBroker and               *)
(* BrokerThreads; here a frame is answered, refused, ends the session or   *)
(* throws.                                                                 *)
(*                                                                         *)
(* countUniqeID++ and countUniqeID-- are a read and a write each, and the  *)
(* accept loop reads the counter again for the handler and for the key.    *)
(***************************************************************************)
EXTENDS Integers

CONSTANT MaxConnections   \* bound: how many clients are accepted

ASSUME MaxConnectionsAssumption == MaxConnections \in Nat

Conns == 1..MaxConnections   \* the clients in the order of their acceptance
Ids == -MaxConnections..MaxConnections   \* two threads may both count down from 1

VARIABLES
    countUniqeID,    \* BaseServer
    accepted,        \* the clients accepted so far
    acceptor,        \* where the accept loop is, and the value of the counter it read
    connectionId,    \* per client, the id its protocol was started with
    activeClients,   \* ConnectionsImpl: per id, the client whose handler it is, or 0
    thread,          \* per client, where the thread of its handler is
    outOfTurn        \* history: an id was given back while a younger client was there,
                     \* or the counter was changed between the read and the write of it

server == <<countUniqeID, accepted, acceptor, connectionId, activeClients, outOfTurn>>
vars == <<server, thread>>

-----------------------------------------------------------------------------
(* BaseServer.serve: the accept loop                                        *)

Goes(at) == acceptor' = [acceptor EXCEPT !.at = at]

\* accept, and the read of increaseCounter.
Accept ==
    /\ acceptor.at = "accept"
    /\ accepted < MaxConnections
    /\ accepted' = accepted + 1
    /\ acceptor' = [at |-> "increase", read |-> countUniqeID]
    /\ UNCHANGED <<countUniqeID, connectionId, activeClients, thread, outOfTurn>>

\* Fault: the counter is increased for the handler and again for the key.
IncreaseCounterTwice ==
    /\ acceptor.at = "increase"
    /\ countUniqeID' = acceptor.read + 2
    /\ Goes("handler")
    /\ UNCHANGED <<accepted, connectionId, activeClients, thread, outOfTurn>>

IncreaseCounter ==
    /\ acceptor.at = "increase"
    /\ countUniqeID' = acceptor.read + 1
    /\ Goes("handler")
    /\ UNCHANGED <<accepted, connectionId, activeClients, thread, outOfTurn>>

NewHandler ==
    /\ acceptor.at = "handler"
    /\ connectionId' = [connectionId EXCEPT ![accepted] = countUniqeID]
    /\ Goes("put")
    /\ UNCHANGED <<countUniqeID, accepted, activeClients, thread, outOfTurn>>

PutHandler ==
    /\ acceptor.at = "put"
    /\ activeClients' = [activeClients EXCEPT ![countUniqeID] = accepted]
    /\ Goes("execute")
    /\ UNCHANGED <<countUniqeID, accepted, connectionId, thread, outOfTurn>>

Execute ==
    /\ acceptor.at = "execute"
    /\ thread' = [thread EXCEPT ![accepted] = [at |-> "started"]]
    /\ Goes("accept")
    /\ UNCHANGED <<countUniqeID, accepted, connectionId, activeClients, outOfTurn>>

AcceptLoop == Accept \/ IncreaseCounter \/ NewHandler \/ PutHandler \/ Execute

-----------------------------------------------------------------------------
(* BlockingConnectionHandler.run                                            *)

Steps(c, at) == thread' = [thread EXCEPT ![c] = [at |-> at]]

\* The streams are there from here on; a send before finds no out.
OpenStreams(c) ==
    /\ thread[c].at = "started"
    /\ Steps(c, "reading")
    /\ UNCHANGED server

HasStreams(c) == thread[c].at \notin {"new", "started"}

\* A frame is answered through the registry.  An id without a handler is passed over,
\* a handler without streams throws in the thread of the sender, which then ends.
Answers(c, then) ==
    LET receiver == activeClients[connectionId[c]]
    IN  Steps(c, IF receiver = 0 \/ HasStreams(receiver) THEN then ELSE "dead")

Answer(c) ==
    /\ thread[c].at = "reading"
    /\ Answers(c, "reading")
    /\ UNCHANGED server

\* A wrong password, or an account that is logged in: connectionError.
RefuseLogin(c) ==
    /\ thread[c].at = "reading"
    /\ Answers(c, "refused")
    /\ UNCHANGED server

\* DISCONNECT, or any other ERROR.
EndSession(c) ==
    /\ thread[c].at = "reading"
    /\ Answers(c, "ending")
    /\ UNCHANGED server

\* The end of the stream, an I/O error or an exception: nobody tells the registry.
Die(c) ==
    /\ thread[c].at = "reading"
    /\ Steps(c, "dead")
    /\ UNCHANGED server

\* Fault: the handler stays registered.
DisconnectKeeps(c) == UNCHANGED activeClients

Disconnect(c) == activeClients' = [activeClients EXCEPT ![connectionId[c]] = 0]

EndLoop(c) ==
    /\ thread[c].at \in {"refused", "ending"}
    /\ Disconnect(c)
    /\ Steps(c, IF thread[c].at = "refused" THEN "decrease" ELSE "over")
    /\ UNCHANGED <<countUniqeID, accepted, acceptor, connectionId, outOfTurn>>

\* decreaseCounter: if (countUniqeID > 0) ...
TestCounter(c) ==
    /\ thread[c].at = "decrease"
    /\ Steps(c, IF countUniqeID > 0 THEN "read" ELSE "over")
    /\ UNCHANGED server

ReadCounter(c) ==
    /\ thread[c].at = "read"
    /\ thread' = [thread EXCEPT ![c] = [at |-> "write", read |-> countUniqeID]]
    /\ UNCHANGED server

Gone(c) == thread[c].at \in {"over", "dead", "decrease", "read", "write"}

DecreaseCounter(c) ==
    /\ thread[c].at = "write"
    /\ countUniqeID' = thread[c].read - 1
    /\ outOfTurn' = \/ outOfTurn
                    \/ \E d \in (c + 1)..accepted : ~Gone(d)
                    \/ countUniqeID # thread[c].read
    /\ Steps(c, "over")
    /\ UNCHANGED <<accepted, acceptor, connectionId, activeClients>>

HandlerThread(c) ==
    \/ OpenStreams(c) \/ Answer(c) \/ RefuseLogin(c) \/ EndSession(c) \/ Die(c)
    \/ EndLoop(c) \/ TestCounter(c) \/ ReadCounter(c) \/ DecreaseCounter(c)

-----------------------------------------------------------------------------
Init ==
    /\ countUniqeID = 0
    /\ accepted = 0
    /\ acceptor = [at |-> "accept", read |-> 0]
    /\ connectionId = [c \in Conns |-> 0]
    /\ activeClients = [i \in Ids |-> 0]
    /\ thread = [c \in Conns |-> [at |-> "new"]]
    /\ outOfTurn = FALSE

Next == AcceptLoop \/ \E c \in Conns : HandlerThread(c)

Spec == Init /\ [][Next]_vars

-----------------------------------------------------------------------------
(* Properties                                                               *)

\* The variables hold the values their types allow; the counter and with it every id
\* stays within the number of clients, however reads and writes of it cross.  (It may
\* fall below 0, which the test of decreaseCounter is there to prevent.)
TypeOK ==
    /\ countUniqeID \in (-accepted)..accepted
    /\ accepted \in 0..MaxConnections
    /\ acceptor \in [at : {"accept", "increase", "handler", "put", "execute"}, read : Ids]
    /\ connectionId \in [Conns -> Ids]
    /\ activeClients \in [Ids -> 0..accepted]
    /\ outOfTurn \in BOOLEAN

\* As long as ids were only given back by the youngest client that was there, one after
\* the other, the registry is exact: a client that is there is registered under the id of
\* its own protocol, so its answers reach it and no other, and one that has ended its session is
\* not registered any more.  (Once an id is given back under an older client that is there,
\* the two share an id, "personal connection ID" or not, and the registry keeps one of them.)
RegistryExact ==
    ~outOfTurn => \A c \in Conns :
        /\ thread[c].at \in {"started", "reading"} => activeClients[connectionId[c]] = c
        /\ thread[c].at = "over" => \A i \in Ids : activeClients[i] # c
=============================================================================
