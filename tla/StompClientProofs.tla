--------------------------- MODULE StompClientProofs ---------------------------
(***************************************************************************)
(* Proofs about StompClient.                                               *)
(*                                                                         *)
(* The main thread and the server thread share the handler without a lock. *)
(* What keeps the one from deleting it under the other is isRunning: only  *)
(* the server thread resets it, as its last act, and the main thread does  *)
(* not close the handler before it has seen that.                          *)
(*                                                                         *)
(* They share the ids and the maps of the receipts without a lock, too.    *)
(* What keeps a receipt from being taken for another is that there is one  *)
(* main thread, which can be overtaken by resetProtocol in one command     *)
(* only, and that the broker answers in the order of the frames.           *)
(***************************************************************************)
EXTENDS StompClient, TLAPS, SequenceTheorems

\* The main thread leaves its loop only after isRunning was reset.
EndSeesStop == mainAt \in {"end", "join end", "ended"} => ~isRunning

\* Once isRunning is reset the server thread does not touch the handler again.
StopIsLast == ~isRunning => serverThread \in {"none", "loop", "done"}

\* A login that has made its connection has not started the server thread yet.
LoginStartsThread == mainAt = "handle login" => serverThread = "none"

Inv == EndSeesStop /\ StopIsLast /\ LoginStartsThread /\ HandlerKept

USE DEF EndSeesStop, StopIsLast, LoginStartsThread, HandlerKept, Resetting

\* What handleInput and handleReport do is of no concern to the handler.
LEMMA InputKeepsInv ==
    ASSUME NEW at, NEW next, Inv, Input(at, next),
           next \notin {"handle login", "end", "join end", "ended"}
    PROVE  Inv'
<1>1. mainAt' = next /\ UNCHANGED <<serverThread, isRunning, handler>>
  BY DEF Input
<1> QED
  BY <1>1 DEF Inv

\* A step of the main thread or of the user keeps the invariant.
LEMMA MainKeepsInv ==
    ASSUME Inv, MainThread \/ User
    PROVE  Inv'
<1> USE DEF Inv, protocol, ids, flags, maps, wire, server, mainVars
<1>1. CASE Top
  BY <1>1 DEF Top
<1>2. CASE RefuseLogin
  BY <1>2 DEF RefuseLogin
<1>3. CASE AcceptLogin
  BY <1>3 DEF AcceptLogin
<1>4. CASE MakeConnection
  BY <1>4 DEF MakeConnection, Joined
<1>5. CASE HandleLogin
  BY <1>5 DEF HandleLogin
<1>6. CASE LookUpSubscription \/ ReadReceiptId \/ StoreReceiptId
  BY ONLY <1>6, Inv, InputKeepsInv DEF LookUpSubscription, ReadReceiptId, StoreReceiptId
<1>7. CASE ReadSubscriptionId \/ StoreSubscriptionId \/ RecordSubscription
  BY ONLY <1>7, Inv, InputKeepsInv
     DEF ReadSubscriptionId, StoreSubscriptionId, RecordSubscription
<1>8. CASE RecordJoin \/ RecordExit \/ ReadLogout \/ StoreLogout
  BY ONLY <1>8, Inv, InputKeepsInv DEF RecordJoin, RecordExit, ReadLogout, StoreLogout
<1>9. CASE ReadReceiptOfFrame \/ ReturnFrame
  BY ONLY <1>9, Inv, InputKeepsInv DEF ReadReceiptOfFrame, ReturnFrame, MakeFrame
<1>10. CASE HandleEvent \/ NoMoreEvents
  BY ONLY <1>10, Inv, InputKeepsInv DEF HandleEvent, NoMoreEvents
<1>11. CASE Push
  BY <1>11 DEF Push
<1>12. CASE End
  BY <1>12 DEF End
<1>13. CASE JoinAtEnd
  BY <1>13 DEF JoinAtEnd
<1>14. CASE ReadLineInVain \/ ReadEmptyLine
  BY <1>14 DEF ReadLineInVain, ReadEmptyLine
<1>15. ASSUME NEW verb, NEW ch, ReadLine(verb, ch)
       PROVE  Inv'
  <2>1. /\ mainAt' \in {"login", "look up", "input"}
        /\ UNCHANGED <<serverThread, isRunning, handler>>
    BY <1>15 DEF ReadLine
  <2> QED
    BY <2>1
<1> QED
  BY <1>1, <1>2, <1>3, <1>4, <1>5, <1>6, <1>7, <1>8, <1>9, <1>10, <1>11, <1>12, <1>13,
     <1>14, <1>15 DEF MainThread, User

\* A step of the server thread, also one that has waited for the other end, keeps the
\* invariant.
LEMMA ServerThreadKeepsInv ==
    ASSUME Inv, ServerThread \/ RestArrives \/ RoomForWrite
    PROVE  Inv'
<1> USE DEF Inv, protocol, ids, flags, maps, wire, server, mainVars
<1>1. CASE Loop
  BY <1>1 DEF Loop
<1>2. CASE SendMessage("drain") \/ SendMessage("write") \/ WriteBlocks
  BY <1>2 DEF SendMessage, WriteBlocks
<1>3. CASE NothingAvailable
  BY <1>3 DEF NothingAvailable
<1>4. CASE GetMessage("receive") \/ GetMessage("rest")
  BY <1>4 DEF GetMessage, Process
<1>10. CASE GetPart \/ GetMessageFails
  BY <1>10 DEF GetPart, GetMessageFails
<1>5. CASE ResetProtocol
  <2>1. /\ serverThread \in Resetting /\ serverThread' \in Resetting \cup {"close"}
        /\ UNCHANGED <<mainAt, isRunning, handler>>
    BY <1>5 DEF ResetProtocol, Reset, ResetReceiptId, ResetSubscriptionId, ResetLogoutReceiptId,
                ResetFlags, ClearEventsMap, ClearJoinReciepts, ClearExitReciepts
  <2> QED
    BY <2>1
<1>7. CASE Close
  BY <1>7 DEF Close
<1>8. CASE Delete
  BY <1>8 DEF Delete
<1>9. CASE Stop
  BY <1>9 DEF Stop
<1> QED
  BY <1>1, <1>2, <1>3, <1>4, <1>5, <1>7, <1>8, <1>9, <1>10
     DEF ServerThread, RestArrives, RoomForWrite

LEMMA InitKept == Init => Inv
  BY DEF Init, Inv, NoCommand

LEMMA InvKept == Inv /\ [Next]_vars => Inv'
<1> SUFFICES ASSUME Inv, [Next]_vars PROVE Inv'
  OBVIOUS
<1>1. CASE MainThread \/ User
  BY <1>1, MainKeepsInv
<1>2. CASE ServerThread \/ RestArrives \/ RoomForWrite
  BY <1>2, ServerThreadKeepsInv
<1>3. CASE Broker
  BY <1>3 DEF Broker, Inv, mainVars
<1>4. CASE LoseConnection
  BY <1>4 DEF LoseConnection, Inv, mainVars
<1>5. CASE UNCHANGED vars
  BY <1>5 DEF vars, Inv, mainVars
<1> QED
  BY <1>1, <1>2, <1>3, <1>4, <1>5 DEF Next

\* The handler is not closed, deleted or replaced by the main thread while the server
\* thread works on it: StompClient's HandlerKept, for any channels and bounds.
THEOREM HandlerAlwaysKept == Spec => []HandlerKept
<1>1. Inv => HandlerKept
  BY DEF Inv
<1> QED
  BY <1>1, InitKept, InvKept, PTL DEF Spec

-----------------------------------------------------------------------------
(* Types.                                                                   *)

\* A command is read only if its ids are within the bounds, also if a reset comes between.
IdsInRange ==
    /\ mainAt \in {"login", "join", "handle login", "look up", "input"} =>
          /\ receiptId + MaxEvents <= MaxReceipts + Len(output)
          /\ command.verb # "report" => receiptId < MaxReceipts
    /\ mainAt = "store" => number > 0 /\ number + MaxEvents <= MaxReceipts + Len(output) + 1
    /\ mainAt \in {"look up", "input", "store", "read subscription"} =>
          subscriptionId < MaxReceipts

\* A command about a channel names one.
ChannelNamed == command.verb \in {"join", "exit", "report"} => command.channel \in Channels

\* Where main is with which command.
Places ==
    /\ mainAt \in {"login", "join", "handle login"} => command.verb = "login"
    /\ mainAt = "look up" => command.verb = "exit"
    /\ mainAt \in {"input", "store"} => command.verb \in {"join", "exit", "report", "logout"}
    /\ mainAt \in {"read subscription", "store subscription", "record subscription",
                   "read receipt"} => command.verb = "join"
    /\ mainAt \in {"record", "frame"} => command.verb \in {"join", "exit", "logout"}
    /\ mainAt = "store logout" => command.verb = "logout"

Commands == [verb : {"none", "login", "join", "exit", "report", "logout"},
             channel : Channels \cup {None}]

\* Where the main thread and the server thread may be.
MainPlaces ==
    {"top", "read", "login", "join", "handle login", "look up", "input", "store",
     "read subscription", "store subscription", "record subscription", "record",
     "store logout", "read receipt", "frame", "push", "end", "join end", "ended", "crashed"}

ServerPlaces ==
    {"none", "loop", "drain", "write", "receive", "rest", "close", "delete", "stop", "done",
     "receiptId", "subscriptionId", "logoutReceiptId", "userLoggedIn", "eventsMap",
     "joinReciepts", "exitReciepts"}

\* TypeOK in parts, for the provers take them one at a time.
ControlTypes ==
    /\ mainAt \in MainPlaces
    /\ command \in Commands
    /\ serverThread \in ServerPlaces
    /\ handler \in {"none", "open", "closed", "freed"}
    /\ session \in {"fresh", "in", "over"}

FlagTypes ==
    /\ isRunning \in BOOLEAN
    /\ userLoggedIn \in BOOLEAN /\ shouldLogOut \in BOOLEAN /\ gotError \in BOOLEAN

IdTypes ==
    /\ number \in Receipts
    /\ subId \in SubIds
    /\ receiptId \in Receipts
    /\ subscriptionId \in SubIds
    /\ logoutReceiptId \in Receipts
    /\ logins \in 0..MaxLogins

QueueTypes ==
    /\ output \in Seq(ClientFrame) /\ messageQueue \in Seq(ClientFrame)
    /\ toServer \in Seq(ClientFrame) /\ toClient \in Seq(ServerFrame)

MapTypes ==
    /\ eventsMap \in [Channels -> SubIds]
    /\ joinReciepts \in [Receipts -> Channels \cup {None}]
    /\ exitReciepts \in [Receipts -> Channels \cup {None}]
    /\ subIdToDestination \in [SubIds -> Channels \cup {None}]

\* A step that changes only where the threads and the connection are.
LEMMA ControlKept ==
    ASSUME ControlTypes,
           mainAt' = mainAt \/ mainAt' \in MainPlaces,
           command' \in {command, NoCommand},
           serverThread' \in {serverThread, "none"},
           handler' \in {handler, "open", "none"},
           session' \in {session, "fresh"}
    PROVE  ControlTypes'
<1>1. NoCommand \in Commands
  BY DEF NoCommand, Commands
<1>2. command' \in Commands
  BY <1>1 DEF ControlTypes
<1>3. mainAt' \in MainPlaces
  BY DEF ControlTypes
<1>4. serverThread' \in ServerPlaces
  BY DEF ControlTypes, ServerPlaces
<1>5. handler' \in {"none", "open", "closed", "freed"} /\ session' \in {"fresh", "in", "over"}
  BY DEF ControlTypes
<1> QED
  BY ONLY <1>2, <1>3, <1>4, <1>5 DEF ControlTypes

LEMMA TypesInParts ==
    TypeOK <=> ControlTypes /\ FlagTypes /\ IdTypes /\ QueueTypes /\ MapTypes
<1>1. serverThread \in ServerPlaces <=>
         serverThread \in {"none", "loop", "drain", "write", "receive", "rest", "close", "delete",
                          "stop", "done"} \cup Resetting
  BY DEF ServerPlaces
<1> QED
  BY <1>1 DEF TypeOK, ControlTypes, Commands, MainPlaces, FlagTypes, IdTypes, QueueTypes, MapTypes,
             Receipts

TypeInv ==
    /\ ControlTypes /\ FlagTypes /\ IdTypes /\ QueueTypes /\ MapTypes
    /\ IdsInRange /\ ChannelNamed /\ Places

LEMMA ZeroIds == 0 \in Receipts /\ 0 \in SubIds
  BY ClientAssumption DEF Receipts, SubIds

\* The frames handleInput makes are frames.
LEMMA FramesMade ==
    ASSUME NEW r \in Receipts, NEW id \in SubIds, NEW ch \in Channels
    PROVE  /\ Connect(r) \in ClientFrame /\ Disconnect(r) \in ClientFrame
           /\ Subscribe(ch, id, r) \in ClientFrame /\ Unsubscribe(id, r) \in ClientFrame
           /\ SendTo(ch) \in ClientFrame
<1>1. Connect(r) \in ClientFrame /\ Disconnect(r) \in ClientFrame
  BY DEF Connect, Disconnect, ClientFrame
<1>2. Subscribe(ch, id, r) \in ClientFrame /\ Unsubscribe(id, r) \in ClientFrame
  BY DEF Subscribe, Unsubscribe, ClientFrame
<1>3. SendTo(ch) \in ClientFrame
  BY DEF ClientFrame
<1> QED
  BY <1>1, <1>2, <1>3

\* What the broker finds in a frame.
LEMMA FrameFields ==
    ASSUME NEW f \in ClientFrame
    PROVE  /\ f.type \in {"SUBSCRIBE", "UNSUBSCRIBE", "DISCONNECT"} => f.receipt \in Receipts
           /\ f.type \in {"SUBSCRIBE", "UNSUBSCRIBE"} => f.id \in SubIds
           /\ f.type = "SUBSCRIBE" => f.channel \in Channels
  BY DEF ClientFrame, SendTo

\* The answers are frames.
LEMMA AnswersMade ==
    /\ Connected \in ServerFrame /\ Message \in ServerFrame /\ Error \in ServerFrame
    /\ \A r \in Receipts, ch \in Channels \cup {None}, id \in SubIds,
          what \in {"SUBSCRIBE", "UNSUBSCRIBE", "DISCONNECT"} :
          Receipt(r, what, ch, id) \in ServerFrame
  BY DEF ServerFrame, Receipt

\* handleInput and handleReport change the ids, the maps and the output only.
LEMMA InputKeepsTypes ==
    ASSUME NEW at, NEW next \in MainPlaces, TypeInv, Input(at, next),
           IdTypes', output' \in Seq(ClientFrame), MapTypes', IdsInRange', Places'
    PROVE  TypeInv'
<1>1. /\ mainAt' = next
      /\ UNCHANGED <<command, serverThread, isRunning, handler, messageQueue, userLoggedIn,
                     shouldLogOut, gotError, logins, toServer, toClient, session,
                     subIdToDestination>>
  BY DEF Input, flags, wire, server
<1>2. ControlTypes'
  BY <1>1, ControlKept DEF TypeInv
<1>3. FlagTypes'
  BY <1>1 DEF TypeInv, FlagTypes
<1>4. QueueTypes'
  BY <1>1 DEF TypeInv, QueueTypes
<1>5. ChannelNamed'
  BY <1>1 DEF TypeInv, ChannelNamed
<1> QED
  BY ONLY <1>2, <1>3, <1>4, <1>5, IdTypes', MapTypes', IdsInRange', Places', ClientAssumption
     DEF TypeInv

\* A step of handleInput or handleReport that changes no map and makes no frame keeps the
\* types.
LEMMA NumbersKeepTypes ==
    ASSUME TypeInv,
           \/ LookUpSubscription \/ ReadReceiptId \/ StoreReceiptId
           \/ ReadSubscriptionId \/ StoreSubscriptionId
           \/ ReadLogout \/ StoreLogout \/ ReadReceiptOfFrame \/ NoMoreEvents
    PROVE  TypeInv'
<1> USE DEF ids, maps
<1>0. /\ IdTypes /\ IdsInRange /\ MapTypes /\ ChannelNamed /\ Places
      /\ output \in Seq(ClientFrame) /\ Len(output) \in Nat
      /\ 0 \in Receipts /\ 0 \in SubIds
  BY ZeroIds DEF TypeInv, QueueTypes
<1>1. CASE LookUpSubscription
  <2>1. /\ Input("look up", "input") /\ mainAt = "look up" /\ mainAt' = "input"
        /\ subId' = eventsMap[command.channel]
        /\ UNCHANGED <<command, number, output, ids, maps, logins, subIdToDestination>>
    BY <1>1 DEF LookUpSubscription, Input, server
  <2>2. command.verb = "exit" /\ command.channel \in Channels
    BY <1>0, <2>1 DEF Places, ChannelNamed
  <2>3. IdTypes'
    BY <1>0, <2>1, <2>2 DEF IdTypes, MapTypes
  <2>4. IdsInRange' /\ Places' /\ MapTypes'
    BY <1>0, <2>1, <2>2 DEF IdsInRange, Places, MapTypes
  <2> QED
    BY <1>0, <2>1, <2>3, <2>4, InputKeepsTypes DEF MainPlaces
<1>2. CASE ReadReceiptId
  <2>1. /\ Input("input", "store") /\ mainAt = "input" /\ mainAt' = "store"
        /\ command.verb = "report" => Len(output) < MaxEvents
        /\ number' = receiptId + 1
        /\ UNCHANGED <<command, subId, output, ids, maps, logins, subIdToDestination>>
    BY <1>2 DEF ReadReceiptId, Input, server
  <2>2. receiptId \in Receipts /\ receiptId < MaxReceipts
    <3>1. /\ receiptId + MaxEvents <= MaxReceipts + Len(output)
          /\ command.verb # "report" => receiptId < MaxReceipts
      BY <1>0, <2>1 DEF IdsInRange
    <3>2. receiptId \in Receipts /\ receiptId \in Nat /\ Len(output) \in Nat
      BY <1>0, ClientAssumption DEF IdTypes, Receipts
    <3>3. CASE Len(output) < MaxEvents
      BY ONLY <3>1, <3>2, <3>3, ClientAssumption
    <3> QED
      BY <2>1, <3>1, <3>2, <3>3
  <2>3. receiptId + 1 \in Receipts
    BY ONLY <2>2, ClientAssumption DEF Receipts
  <2>7. IdTypes'
    BY <1>0, <2>1, <2>3 DEF IdTypes
  <2>4. IdsInRange'
    <3>1. receiptId + MaxEvents <= MaxReceipts + Len(output) /\ subscriptionId < MaxReceipts
      BY <1>0, <2>1 DEF IdsInRange
    <3>2. receiptId + 1 > 0 /\ receiptId + 1 + MaxEvents <= MaxReceipts + Len(output) + 1
      BY ONLY <1>0, <2>2, <3>1, ClientAssumption DEF Receipts
    <3> QED
      BY ONLY <2>1, <3>1, <3>2 DEF IdsInRange, ids
  <2>5. Places' /\ MapTypes'
    BY <1>0, <2>1 DEF Places, MapTypes
  <2> QED
    BY <1>0, <2>1, <2>4, <2>5, <2>7, InputKeepsTypes DEF MainPlaces
<1>3. CASE StoreReceiptId
  <2>1. /\ Input("store", mainAt') /\ mainAt = "store"
        /\ mainAt' = IF command.verb = "join" THEN "read subscription" ELSE "record"
        /\ command.verb # "report"
        /\ receiptId' = number /\ number' = 0
        /\ UNCHANGED <<command, subId, output, subscriptionId, logoutReceiptId, maps, logins,
                       subIdToDestination>>
    BY <1>3 DEF StoreReceiptId, Input, server
  <2>2. IdTypes'
    BY <1>0, <2>1 DEF IdTypes
  <2>3. IdsInRange'
    BY <1>0, <2>1 DEF IdsInRange
  <2>4. Places' /\ MapTypes'
    BY <1>0, <2>1 DEF Places, MapTypes
  <2> QED
    BY <1>0, <2>1, <2>2, <2>3, <2>4, InputKeepsTypes DEF MainPlaces
<1>4. CASE ReadSubscriptionId
  <2>1. /\ Input("read subscription", "store subscription")
        /\ mainAt = "read subscription" /\ mainAt' = "store subscription"
        /\ number' = subscriptionId + 1
        /\ UNCHANGED <<command, subId, output, ids, maps, logins, subIdToDestination>>
    BY <1>4 DEF ReadSubscriptionId, Input, server
  <2>4. subscriptionId < MaxReceipts /\ subscriptionId \in SubIds
    BY <1>0, <2>1 DEF IdTypes, IdsInRange
  <2>5. subscriptionId + 1 \in Receipts
    BY ONLY <2>4, ClientAssumption DEF Receipts, SubIds
  <2>2. IdTypes'
    BY <1>0, <2>1, <2>5 DEF IdTypes
  <2>3. IdsInRange' /\ Places' /\ MapTypes'
    BY <1>0, <2>1 DEF IdsInRange, Places, MapTypes
  <2> QED
    BY <1>0, <2>1, <2>2, <2>3, InputKeepsTypes DEF MainPlaces
<1>5. CASE StoreSubscriptionId
  <2>1. /\ Input("store subscription", "record subscription")
        /\ mainAt = "store subscription" /\ mainAt' = "record subscription"
        /\ subscriptionId' = number /\ number' = 0
        /\ UNCHANGED <<command, subId, output, receiptId, logoutReceiptId, maps, logins,
                       subIdToDestination>>
    BY <1>5 DEF StoreSubscriptionId, Input, server
  <2>4. Receipts = SubIds
    BY DEF Receipts, SubIds
  <2>2. IdTypes'
    BY <1>0, <2>1, <2>4 DEF IdTypes
  <2>3. IdsInRange' /\ Places' /\ MapTypes'
    BY <1>0, <2>1 DEF IdsInRange, Places, MapTypes
  <2> QED
    BY <1>0, <2>1, <2>2, <2>3, InputKeepsTypes DEF MainPlaces
<1>6. CASE ReadLogout
  <2>1. /\ Input("record", "store logout") /\ mainAt = "record" /\ mainAt' = "store logout"
        /\ command.verb = "logout"
        /\ number' = receiptId
        /\ UNCHANGED <<command, subId, output, ids, maps, logins, subIdToDestination>>
    BY <1>6 DEF ReadLogout, Input, server
  <2>2. IdTypes' /\ IdsInRange' /\ Places' /\ MapTypes'
    BY <1>0, <2>1 DEF IdTypes, IdsInRange, Places, MapTypes
  <2> QED
    BY <1>0, <2>1, <2>2, InputKeepsTypes DEF MainPlaces
<1>7. CASE StoreLogout
  <2>1. /\ Input("store logout", "frame") /\ mainAt = "store logout" /\ mainAt' = "frame"
        /\ logoutReceiptId' = number /\ number' = 0
        /\ UNCHANGED <<command, subId, output, receiptId, subscriptionId, maps, logins,
                       subIdToDestination>>
    BY <1>7 DEF StoreLogout, Input, server
  <2>2. IdTypes' /\ IdsInRange' /\ Places' /\ MapTypes'
    BY <1>0, <2>1 DEF IdTypes, IdsInRange, Places, MapTypes
  <2> QED
    BY <1>0, <2>1, <2>2, InputKeepsTypes DEF MainPlaces
<1>8. CASE ReadReceiptOfFrame
  <2>1. /\ Input("read receipt", "frame") /\ mainAt = "read receipt" /\ mainAt' = "frame"
        /\ number' = receiptId
        /\ UNCHANGED <<command, subId, output, ids, maps, logins, subIdToDestination>>
    BY <1>8 DEF ReadReceiptOfFrame, Input, server
  <2>2. IdTypes' /\ IdsInRange' /\ Places' /\ MapTypes'
    BY <1>0, <2>1 DEF IdTypes, IdsInRange, Places, MapTypes
  <2> QED
    BY <1>0, <2>1, <2>2, InputKeepsTypes DEF MainPlaces
<1>9. CASE NoMoreEvents
  <2>1. /\ Input("input", "push") /\ mainAt = "input" /\ mainAt' = "push"
        /\ UNCHANGED <<command, number, subId, output, ids, maps, logins, subIdToDestination>>
    BY <1>9 DEF NoMoreEvents, Input, server
  <2>2. IdTypes' /\ IdsInRange' /\ Places' /\ MapTypes'
    BY <1>0, <2>1 DEF IdTypes, IdsInRange, Places, MapTypes
  <2> QED
    BY <1>0, <2>1, <2>2, InputKeepsTypes DEF MainPlaces
<1> QED
  BY <1>1, <1>2, <1>3, <1>4, <1>5, <1>6, <1>7, <1>8, <1>9

\* A step of handleInput that writes to a map keeps the types.
LEMMA RecordsKeepTypes ==
    ASSUME TypeInv, RecordSubscription \/ RecordJoin \/ RecordExit
    PROVE  TypeInv'
<1> USE DEF ids, maps
<1>0. /\ IdTypes /\ IdsInRange /\ MapTypes /\ ChannelNamed /\ Places /\ output \in Seq(ClientFrame)
  BY DEF TypeInv, QueueTypes
<1>1. PICK at, next \in MainPlaces :
         /\ Input(at, next) /\ mainAt = at /\ mainAt' = next
         /\ \/ at = "record subscription" /\ next = "record"
            \/ at = "record" /\ next = "read receipt" /\ command.verb = "join"
            \/ at = "record" /\ next = "frame" /\ command.verb = "exit"
  BY DEF RecordSubscription, RecordJoin, RecordExit, Input, MainPlaces
<1>2. UNCHANGED <<number, subId, output, ids, command, logins, subIdToDestination>>
  BY DEF RecordSubscription, RecordJoin, RecordExit, Input, server
<1>3. command.channel \in Channels
  BY <1>0, <1>1 DEF Places, ChannelNamed
<1>4. MapTypes'
  <2>1. CASE RecordSubscription
    BY <1>0, <1>2, <1>3, <2>1, ClientAssumption DEF RecordSubscription, MapTypes, IdTypes
  <2>2. CASE RecordJoin
    BY <1>0, <1>2, <1>3, <2>2 DEF RecordJoin, MapTypes
  <2>3. CASE RecordExit
    BY <1>0, <1>2, <1>3, <2>3 DEF RecordExit, MapTypes
  <2> QED
    BY <2>1, <2>2, <2>3
<1>5. IdTypes' /\ IdsInRange'
  BY <1>0, <1>1, <1>2 DEF IdTypes, IdsInRange
<1>6. Places'
  BY <1>0, <1>1, <1>2 DEF Places
<1> QED
  BY <1>0, <1>1, <1>2, <1>4, <1>5, <1>6, InputKeepsTypes

\* A frame that handleInput or handleReport makes is a frame.
LEMMA FramesKeepTypes ==
    ASSUME TypeInv, ReturnFrame \/ HandleEvent
    PROVE  TypeInv'
<1> USE DEF ids, maps
<1>0. /\ IdTypes /\ IdsInRange /\ MapTypes /\ ChannelNamed /\ Places
      /\ output \in Seq(ClientFrame) /\ Len(output) \in Nat
      /\ 0 \in Receipts /\ 0 \in SubIds
  BY ZeroIds DEF TypeInv, QueueTypes
<1>1. receiptId \in Receipts /\ number \in Receipts /\ subscriptionId \in SubIds /\ subId \in SubIds
  BY <1>0 DEF IdTypes
<1>2. command.verb \in {"join", "report"} => command.channel \in Channels
  BY <1>0 DEF ChannelNamed
<1>3. CASE ReturnFrame
  <2>1. PICK frame : \E verb : MakeFrame(verb, frame) /\ frame \in ClientFrame
    <3>1. CASE MakeFrame("logout", Disconnect(receiptId))
      BY <1>1, <3>1 DEF Disconnect, ClientFrame
    <3>2. CASE MakeFrame("join", Subscribe(command.channel, subscriptionId, number))
      BY <1>1, <1>2, <3>2, FramesMade DEF MakeFrame
    <3>3. CASE MakeFrame("exit", Unsubscribe(subId, receiptId))
      BY <1>1, <3>3 DEF Unsubscribe, ClientFrame
    <3> QED
      BY <1>3, <3>1, <3>2, <3>3 DEF ReturnFrame
  <2>2. /\ Input("frame", "push") /\ mainAt' = "push" /\ output' = <<frame>>
        /\ frame \in ClientFrame
        /\ number' = 0 /\ subId' = 0
        /\ UNCHANGED <<command, ids, maps, logins, subIdToDestination>>
    BY <2>1 DEF MakeFrame, Input, server
  <2>3. output' \in Seq(ClientFrame)
    BY <2>2
  <2>4. IdTypes' /\ IdsInRange' /\ Places' /\ MapTypes'
    BY <1>0, <2>2 DEF IdTypes, IdsInRange, Places, MapTypes
  <2> QED
    BY <2>2, <2>3, <2>4, InputKeepsTypes DEF MainPlaces
<1>4. CASE HandleEvent
  <2>1. /\ Input("store", "input") /\ mainAt = "store" /\ mainAt' = "input"
        /\ command.verb = "report"
        /\ receiptId' = number /\ number' = 0
        /\ output' = Append(output, SendTo(command.channel))
        /\ UNCHANGED <<command, subId, subscriptionId, logoutReceiptId, maps, logins,
                       subIdToDestination>>
    BY <1>4 DEF HandleEvent, Input, server
  <2>2. SendTo(command.channel) \in ClientFrame
    BY <1>2, <2>1 DEF ClientFrame
  <2>3. output' \in Seq(ClientFrame) /\ Len(output') = Len(output) + 1
    BY <1>0, <2>1, <2>2
  <2>4. IdTypes'
    BY <1>0, <2>1 DEF IdTypes
  <2>5. IdsInRange'
    BY <1>0, <2>1, <2>3, ClientAssumption DEF IdsInRange, IdTypes
  <2>6. Places' /\ MapTypes'
    BY <1>0, <2>1 DEF Places, MapTypes
  <2> QED
    BY <2>1, <2>3, <2>4, <2>5, <2>6, InputKeepsTypes DEF MainPlaces
<1> QED
  BY <1>3, <1>4

\* A step of the main thread keeps the types.
LEMMA MainKeepsTypes ==
    ASSUME TypeInv, MainThread
    PROVE  TypeInv'
<1> USE DEF TypeInv, protocol, ids, flags, maps, wire, server
<1>1. CASE Top \/ RefuseLogin \/ AcceptLogin
  <2> USE <1>1 DEF Top, RefuseLogin, AcceptLogin, NoCommand
  <2>1. ControlTypes'
    <3>1. /\ mainAt' \in {"top", "read", "end", "join"}
          /\ command' \in {command, NoCommand}
          /\ UNCHANGED <<serverThread, handler, session>>
      OBVIOUS
    <3> QED
      BY <3>1, ControlKept DEF MainPlaces
  <2>flags. FlagTypes'
    BY DEF FlagTypes
  <2>2. IdTypes' /\ QueueTypes' /\ MapTypes'
    BY ClientAssumption DEF IdTypes, QueueTypes, MapTypes
  <2>3. ChannelNamed' /\ Places'
    <3>1. ChannelNamed /\ Places
      OBVIOUS
    <3>2. UNCHANGED command \/ command'.verb = "none"
      OBVIOUS
    <3>3. \/ mainAt' \in {"top", "read", "end"}
          \/ mainAt = "login" /\ mainAt' = "join" /\ UNCHANGED command
      OBVIOUS
    <3> QED
      BY ONLY <3>1, <3>2, <3>3 DEF ChannelNamed, Places
  <2>4. IdsInRange'
    <3>1. IdsInRange /\ Places
      OBVIOUS
    <3>2. UNCHANGED <<receiptId, subscriptionId, output>>
      OBVIOUS
    <3>3. \/ mainAt' \in {"top", "read", "end"}
          \/ mainAt = "login" /\ mainAt' = "join" /\ UNCHANGED command
      OBVIOUS
    <3> QED
      BY ONLY <3>1, <3>2, <3>3 DEF IdsInRange
  <2> QED
    BY <2>flags, <2>1, <2>2, <2>3, <2>4
<1>2. CASE MakeConnection
  <2> USE <1>2 DEF MakeConnection, NoCommand
  <2>1. ControlTypes'
    <3>1. /\ mainAt' \in {"top", "handle login"}
          /\ command' \in {command, NoCommand}
          /\ serverThread' = "none"
          /\ handler' \in {"open", "none"}
          /\ session' \in {session, "fresh"}
      BY DEF server
    <3> QED
      BY <3>1, ControlKept DEF MainPlaces
  <2>flags. FlagTypes'
    BY DEF FlagTypes
  <2>2. IdTypes'
    <3>1. logins' \in 0..MaxLogins
      <4>1. logins \in 0..MaxLogins
        BY DEF IdTypes
      <4>2. logins' = logins \/ (logins < MaxLogins /\ logins' = logins + 1)
        OBVIOUS
      <4> QED
        BY ONLY <4>1, <4>2, ClientAssumption
    <3>2. IdTypes /\ UNCHANGED <<number, subId, ids>>
      OBVIOUS
    <3> QED
      BY ONLY <3>1, <3>2 DEF IdTypes, ids
  <2>3. QueueTypes'
    <3>1. /\ UNCHANGED <<output, messageQueue>>
          /\ toServer' \in {toServer, <<>>} /\ toClient' \in {toClient, <<>>}
      BY DEF wire
    <3>2. <<>> \in Seq(ClientFrame) /\ <<>> \in Seq(ServerFrame)
      BY ONLY TRUE
    <3>3. output' \in Seq(ClientFrame) /\ messageQueue' \in Seq(ClientFrame)
      BY <3>1 DEF QueueTypes
    <3>4. toServer' \in Seq(ClientFrame)
      BY <3>1, <3>2 DEF QueueTypes
    <3>5. toClient' \in Seq(ServerFrame)
      BY <3>1, <3>2 DEF QueueTypes
    <3> QED
      BY ONLY <3>3, <3>4, <3>5 DEF QueueTypes
  <2>4. MapTypes'
    BY DEF MapTypes
  <2>5. ChannelNamed' /\ Places'
    <3>1. ChannelNamed /\ Places
      OBVIOUS
    <3>2. UNCHANGED command \/ command'.verb = "none"
      <4>1. command' = command \/ command' = NoCommand
        OBVIOUS
      <4> QED
        BY ONLY <4>1 DEF NoCommand
    <3>3. \/ mainAt' = "top"
          \/ mainAt = "join" /\ mainAt' = "handle login" /\ UNCHANGED command
      OBVIOUS
    <3> QED
      BY ONLY <3>1, <3>2, <3>3 DEF ChannelNamed, Places
  <2>6. IdsInRange'
    <3>1. IdsInRange
      OBVIOUS
    <3>2. UNCHANGED <<receiptId, subscriptionId, output>>
      OBVIOUS
    <3>3. \/ mainAt' = "top"
          \/ mainAt = "join" /\ mainAt' = "handle login" /\ UNCHANGED command
      OBVIOUS
    <3> QED
      BY ONLY <3>1, <3>2, <3>3 DEF IdsInRange
  <2> QED
    BY <2>flags, <2>1, <2>2, <2>3, <2>4, <2>5, <2>6
<1>3. CASE HandleLogin
  <2>1. /\ mainAt = "handle login" /\ mainAt' = "push" /\ serverThread' = "loop"
        /\ receiptId' = receiptId + 1 /\ output' = <<Connect(receiptId + 1)>>
        /\ UNCHANGED <<command, number, subId, isRunning, handler, messageQueue, subscriptionId,
                       logoutReceiptId, flags, maps, logins, wire, server>>
    BY <1>3 DEF HandleLogin
  <2>2. receiptId \in Receipts /\ receiptId < MaxReceipts
    <3>1. command.verb # "report"
      BY <2>1 DEF Places
    <3>2. receiptId \in Receipts
      BY DEF IdTypes
    <3> QED
      BY <2>1, <3>1, <3>2 DEF IdsInRange
  <2>8. receiptId + 1 \in Receipts
    BY ONLY <2>2, ClientAssumption DEF Receipts
  <2>3. Connect(receiptId + 1) \in ClientFrame
    BY <2>8 DEF Connect, ClientFrame
  <2>4. ControlTypes'
    <3>1. ControlTypes /\ UNCHANGED <<command, handler, session>>
      BY <2>1
    <3> QED
      BY ONLY <2>1, <3>1 DEF ControlTypes, MainPlaces, ServerPlaces
  <2>flags. FlagTypes'
    BY <2>1 DEF FlagTypes
  <2>5. IdTypes'
    BY <2>1, <2>8 DEF IdTypes
  <2>6. QueueTypes'
    <3>2. output' = <<Connect(receiptId + 1)>>
      BY <2>1
    <3>1. output' \in Seq(ClientFrame)
      BY ONLY <2>3, <3>2
    <3> QED
      BY <2>1, <3>1 DEF QueueTypes
  <2>7. MapTypes' /\ IdsInRange' /\ ChannelNamed' /\ Places'
    BY <2>1 DEF MapTypes, IdsInRange, ChannelNamed, Places
  <2> QED
    BY <2>flags, <2>4, <2>5, <2>6, <2>7
<1>4. CASE \/ LookUpSubscription \/ ReadReceiptId \/ StoreReceiptId
           \/ ReadSubscriptionId \/ StoreSubscriptionId
           \/ ReadLogout \/ StoreLogout \/ ReadReceiptOfFrame \/ NoMoreEvents
  BY ONLY <1>4, TypeInv, NumbersKeepTypes
<1>5. CASE RecordSubscription \/ RecordJoin \/ RecordExit
  BY ONLY <1>5, TypeInv, RecordsKeepTypes
<1>6. CASE ReturnFrame \/ HandleEvent
  BY ONLY <1>6, TypeInv, FramesKeepTypes
<1>8. CASE Push
  <2> USE <1>8 DEF Push
  <2>1. QueueTypes'
    <3>1. CASE output = <<>>
      BY <3>1 DEF QueueTypes
    <3>2. CASE output # <<>>
      <4>1. output \in Seq(ClientFrame) /\ messageQueue \in Seq(ClientFrame)
        BY DEF QueueTypes
      <4>2. Head(output) \in ClientFrame /\ Tail(output) \in Seq(ClientFrame)
        BY ONLY <3>2, <4>1
      <4>3. /\ messageQueue' = Append(messageQueue, Head(output))
            /\ output' = Tail(output)
            /\ UNCHANGED wire
        BY <3>2
      <4>4. messageQueue' \in Seq(ClientFrame) /\ output' \in Seq(ClientFrame)
        BY ONLY <4>1, <4>2, <4>3
      <4> QED
        BY <4>3, <4>4 DEF QueueTypes
    <3> QED
      BY <3>1, <3>2
  <2>2. ControlTypes'
    <3>1. /\ mainAt' \in {mainAt, "top"}
          /\ command' \in {command, NoCommand}
          /\ UNCHANGED <<serverThread, handler, session>>
      OBVIOUS
    <3> QED
      BY <3>1, ControlKept DEF MainPlaces
  <2>flags. FlagTypes'
    BY DEF FlagTypes
  <2>3. IdTypes'
    BY ClientAssumption DEF IdTypes, SubIds
  <2>4. MapTypes' /\ ChannelNamed' /\ Places'
    <3>1. MapTypes /\ ChannelNamed
      OBVIOUS
    <3>2. UNCHANGED command \/ command'.verb = "none"
      <4>1. command' = command \/ command' = NoCommand
        OBVIOUS
      <4> QED
        BY ONLY <4>1 DEF NoCommand
    <3>4. mainAt' \in {"push", "top"}
      OBVIOUS
    <3>3. UNCHANGED <<maps, subIdToDestination>>
      OBVIOUS
    <3> QED
      BY ONLY <3>1, <3>2, <3>3, <3>4 DEF MapTypes, maps, ChannelNamed, Places
  <2>5. IdsInRange'
    <3>1. mainAt' \in {"push", "top"}
      OBVIOUS
    <3> QED
      BY ONLY <3>1 DEF IdsInRange
  <2> QED
    BY <2>flags, <2>1, <2>2, <2>3, <2>4, <2>5
<1>9. CASE End \/ JoinAtEnd
  <2> USE <1>9 DEF End, JoinAtEnd
  <2>1. ControlTypes'
    <3>1. ControlTypes /\ mainAt' \in MainPlaces
      BY DEF MainPlaces
    <3>2. handler' \in {handler, "freed"} /\ UNCHANGED <<command, serverThread, session>>
      OBVIOUS
    <3> QED
      BY ONLY <3>1, <3>2 DEF ControlTypes
  <2>flags. FlagTypes'
    BY DEF FlagTypes
  <2>2. IdTypes' /\ QueueTypes' /\ MapTypes'
    BY ClientAssumption DEF IdTypes, QueueTypes, MapTypes
  <2>3. IdsInRange' /\ ChannelNamed' /\ Places'
    BY DEF IdsInRange, ChannelNamed, Places
  <2> QED
    BY <2>flags, <2>1, <2>2, <2>3
<1> QED
  BY <1>1, <1>2, <1>3, <1>4, <1>5, <1>6, <1>8, <1>9 DEF MainThread

\* A line that is typed keeps the types.
LEMMA UserKeepsTypes ==
    ASSUME TypeInv, User
    PROVE  TypeInv'
<1> USE DEF TypeInv, protocol, ids, flags, maps, wire, server
<1>1. CASE ReadLineInVain \/ ReadEmptyLine
  <2> USE <1>1 DEF ReadLineInVain, ReadEmptyLine
  <2>1. ControlTypes'
    BY ControlKept DEF MainPlaces
  <2>flags. FlagTypes'
    BY DEF FlagTypes
  <2>2. IdTypes' /\ QueueTypes' /\ MapTypes'
    BY ClientAssumption DEF IdTypes, QueueTypes, MapTypes
  <2>3. IdsInRange' /\ ChannelNamed' /\ Places'
    BY DEF IdsInRange, ChannelNamed, Places
  <2> QED
    BY <2>flags, <2>1, <2>2, <2>3
<1>2. ASSUME NEW verb \in {"login", "join", "exit", "report", "logout"},
             NEW ch \in Channels \cup {None}, ReadLine(verb, ch)
      PROVE  TypeInv'
  <2>1. /\ command' = [verb |-> verb, channel |-> ch]
        /\ verb \in {"join", "exit", "report"} => ch \in Channels
        /\ receiptId + MaxEvents <= MaxReceipts /\ subscriptionId < MaxReceipts
        /\ mainAt' = CASE verb = "login" -> "login" [] verb = "exit" -> "look up"
                      [] OTHER -> "input"
        /\ mainAt' \in {"login", "look up", "input"}
        /\ UNCHANGED <<number, subId, output, serverThread, isRunning, handler, messageQueue,
                       protocol, logins, wire, server>>
    BY <1>2 DEF ReadLine
  <2>2. ControlTypes'
    <3>1. command' \in Commands
      BY <2>1 DEF Commands
    <3>2. /\ ControlTypes
          /\ UNCHANGED <<serverThread, handler, session>>
      BY <2>1
    <3> QED
      BY ONLY <2>1, <3>1, <3>2 DEF ControlTypes, MainPlaces
  <2>flags. FlagTypes'
    BY <2>1 DEF FlagTypes
  <2>3. IdTypes' /\ QueueTypes' /\ MapTypes'
    BY <2>1, ClientAssumption DEF IdTypes, QueueTypes, MapTypes
  <2>4. IdsInRange'
    <3>0. receiptId + MaxEvents <= MaxReceipts /\ subscriptionId < MaxReceipts
      BY <2>1
    <3>1. Len(output) \in Nat /\ receiptId \in Nat
      BY DEF QueueTypes, IdTypes, Receipts
    <3>2. UNCHANGED <<receiptId, subscriptionId, output>> /\ command'.verb = verb
      BY <2>1
    <3>3. receiptId < MaxReceipts
      BY ONLY <3>0, <3>1, ClientAssumption
    <3>4. receiptId + MaxEvents <= MaxReceipts + Len(output)
      BY ONLY <3>0, <3>1, ClientAssumption
    <3> QED
      BY ONLY <2>1, <3>0, <3>2, <3>3, <3>4 DEF IdsInRange
  <2>5. ChannelNamed' /\ Places'
    BY <2>1 DEF ChannelNamed, Places
  <2> QED
    BY <2>flags, <2>2, <2>3, <2>4, <2>5
<1> QED
  BY <1>1, <1>2 DEF User

\* A step of the server thread, also one that has waited for the other end, keeps the types.
LEMMA ServerThreadKeepsTypes ==
    ASSUME TypeInv, ServerThread \/ RestArrives \/ RoomForWrite
    PROVE  TypeInv'
<1> USE DEF TypeInv, protocol, ids, flags, maps, wire, server, mainVars
<1>1. CASE Loop \/ WriteBlocks \/ NothingAvailable \/ GetPart \/ GetMessageFails \/ Delete \/ Stop
  <2> USE <1>1 DEF Loop, WriteBlocks, NothingAvailable, GetPart, GetMessageFails, Delete, Stop
  <2>1. ControlTypes'
    <3>1. /\ ControlTypes /\ serverThread' \in ServerPlaces /\ handler' \in {handler, "freed"}
          /\ UNCHANGED <<mainAt, command, session>>
      BY DEF ServerPlaces
    <3> QED
      BY ONLY <3>1 DEF ControlTypes
  <2>flags. FlagTypes'
    BY DEF FlagTypes
  <2>2. IdTypes' /\ QueueTypes' /\ MapTypes' /\ IdsInRange' /\ ChannelNamed' /\ Places'
    BY ClientAssumption DEF IdTypes, QueueTypes, MapTypes, IdsInRange, ChannelNamed, Places
  <2> QED
    BY <2>flags, <2>1, <2>2
<1>2. CASE SendMessage("drain") \/ SendMessage("write")
  <2> USE <1>2 DEF SendMessage
  <2>1. QueueTypes'
    <3>1. CASE messageQueue = <<>>
      BY <3>1 DEF QueueTypes
    <3>2. CASE messageQueue # <<>>
      <4>1. messageQueue \in Seq(ClientFrame) /\ toServer \in Seq(ClientFrame)
        BY DEF QueueTypes
      <4>2. Head(messageQueue) \in ClientFrame /\ Tail(messageQueue) \in Seq(ClientFrame)
        BY ONLY <3>2, <4>1
      <4>3. /\ toServer' = Append(toServer, Head(messageQueue))
            /\ messageQueue' = Tail(messageQueue)
            /\ UNCHANGED <<output, toClient>>
        BY <3>2
      <4>4. messageQueue' \in Seq(ClientFrame) /\ toServer' \in Seq(ClientFrame)
        BY ONLY <4>1, <4>2, <4>3
      <4> QED
        BY <4>3, <4>4 DEF QueueTypes
    <3> QED
      BY <3>1, <3>2
  <2>2. ControlTypes'
    <3>1. /\ ControlTypes /\ serverThread' \in {"drain", "receive"}
          /\ UNCHANGED <<mainAt, command, handler, session>>
      OBVIOUS
    <3> QED
      BY ONLY <3>1 DEF ControlTypes, ServerPlaces
  <2>flags. FlagTypes'
    BY DEF FlagTypes
  <2>3. IdTypes' /\ MapTypes' /\ IdsInRange' /\ ChannelNamed' /\ Places'
    BY ClientAssumption DEF IdTypes, MapTypes, IdsInRange, ChannelNamed, Places
  <2> QED
    BY <2>flags, <2>1, <2>2, <2>3
<1>3. CASE GetMessage("receive") \/ GetMessage("rest")
  <2>1. /\ toClient # <<>> /\ toClient' = Tail(toClient)
        /\ UNCHANGED <<mainVars, isRunning, handler, messageQueue, ids, maps, logins, toServer,
                       server>>
    BY <1>3 DEF GetMessage, Process
  <2>2. /\ userLoggedIn' \in BOOLEAN /\ shouldLogOut' \in BOOLEAN /\ gotError' \in BOOLEAN
        /\ serverThread' \in {"close", "receiptId", "loop"}
    BY <1>3 DEF GetMessage, Process, FlagTypes
  <2>3. ControlTypes'
    <3>1. ControlTypes /\ UNCHANGED <<mainAt, command, handler, session>>
      BY <2>1
    <3> QED
      BY ONLY <2>2, <3>1 DEF ControlTypes, ServerPlaces
  <2>flags. FlagTypes'
    BY <2>1, <2>2 DEF FlagTypes
  <2>4. QueueTypes'
    BY <2>1 DEF QueueTypes
  <2>5. IdTypes' /\ MapTypes' /\ IdsInRange' /\ ChannelNamed' /\ Places'
    BY <2>1, ClientAssumption DEF IdTypes, MapTypes, IdsInRange, ChannelNamed, Places
  <2> QED
    BY <2>flags, <2>3, <2>4, <2>5
<1>4. CASE ResetProtocol
  <2>0. /\ serverThread' \in ServerPlaces
        /\ UNCHANGED <<mainVars, isRunning, handler, messageQueue, logins, wire, server>>
        /\ receiptId' \in {receiptId, 0} /\ subscriptionId' \in {subscriptionId, 0}
        /\ logoutReceiptId' \in {logoutReceiptId, 0}
        /\ \/ UNCHANGED flags
           \/ userLoggedIn' = FALSE /\ shouldLogOut' = FALSE /\ gotError' = FALSE
        /\ eventsMap' \in {eventsMap, [ch \in Channels |-> 0]}
        /\ joinReciepts' \in {joinReciepts, [r \in Receipts |-> None]}
        /\ exitReciepts' \in {exitReciepts, [r \in Receipts |-> None]}
    BY <1>4 DEF ResetProtocol, Reset, ResetReceiptId, ResetSubscriptionId, ResetLogoutReceiptId,
                ResetFlags, ClearEventsMap, ClearJoinReciepts, ClearExitReciepts, ServerPlaces
  <2>1. ControlTypes'
    <3>1. ControlTypes /\ UNCHANGED <<mainAt, command, handler, session>>
      BY <2>0
    <3> QED
      BY ONLY <2>0, <3>1 DEF ControlTypes
  <2>flags. FlagTypes'
    BY <2>0 DEF FlagTypes
  <2>2. IdTypes'
    BY <2>0, ZeroIds DEF IdTypes
  <2>3. IdsInRange'
    <3>0. /\ receiptId \in Nat /\ subscriptionId \in Nat
          /\ receiptId' \in {receiptId, 0} /\ subscriptionId' \in {subscriptionId, 0}
      BY <2>0, ClientAssumption DEF IdTypes, Receipts, SubIds
    <3>1. receiptId' <= receiptId /\ subscriptionId' <= subscriptionId
      BY ONLY <3>0
    <3>2. /\ receiptId \in Nat /\ number \in Nat /\ subscriptionId \in Nat /\ MaxReceipts \in Nat
          /\ MaxEvents \in Nat
          /\ receiptId' \in Nat /\ subscriptionId' \in Nat /\ Len(output) \in Nat
      BY <2>2, ClientAssumption DEF IdTypes, Receipts, SubIds, QueueTypes
    <3>3. UNCHANGED <<mainAt, command, number, output>>
      BY <2>0
    <3>4. IdsInRange
      OBVIOUS
    <3>5. /\ receiptId + MaxEvents <= MaxReceipts + Len(output)
                => receiptId' + MaxEvents <= MaxReceipts + Len(output)
          /\ receiptId < MaxReceipts => receiptId' < MaxReceipts
          /\ subscriptionId < MaxReceipts => subscriptionId' < MaxReceipts
      BY ONLY <3>1, <3>2
    <3>6. UNCHANGED <<mainAt, command, number, output>>
      BY ONLY <3>3 DEF mainVars
    <3> QED
      BY ONLY <3>4, <3>5, <3>6 DEF IdsInRange
  <2>4. MapTypes'
    <3>1. /\ [ch \in Channels |-> 0] \in [Channels -> SubIds]
          /\ [r \in Receipts |-> None] \in [Receipts -> Channels \cup {None}]
      BY ClientAssumption DEF SubIds
    <3>2. MapTypes /\ UNCHANGED subIdToDestination
      BY <2>0
    <3>3. eventsMap' \in [Channels -> SubIds]
      BY ONLY <2>0, <3>1, <3>2 DEF MapTypes
    <3>4. joinReciepts' \in [Receipts -> Channels \cup {None}]
      BY ONLY <2>0, <3>1, <3>2 DEF MapTypes
    <3>5. exitReciepts' \in [Receipts -> Channels \cup {None}]
      BY ONLY <2>0, <3>1, <3>2 DEF MapTypes
    <3> QED
      BY ONLY <3>2, <3>3, <3>4, <3>5 DEF MapTypes
  <2>5. QueueTypes' /\ ChannelNamed' /\ Places'
    BY <2>0 DEF QueueTypes, ChannelNamed, Places
  <2> QED
    BY <2>flags, <2>1, <2>2, <2>3, <2>4, <2>5
<1>6. CASE Close
  <2> USE <1>6 DEF Close
  <2>1. ControlTypes'
    <3>1. ControlTypes /\ UNCHANGED <<mainAt, command, session>>
      OBVIOUS
    <3> QED
      BY ONLY <3>1, <1>6 DEF ControlTypes, Close, ServerPlaces
  <2>flags. FlagTypes'
    BY DEF FlagTypes
  <2>2. QueueTypes'
    BY DEF QueueTypes
  <2>3. IdTypes' /\ MapTypes' /\ IdsInRange' /\ ChannelNamed' /\ Places'
    BY ClientAssumption DEF IdTypes, MapTypes, IdsInRange, ChannelNamed, Places
  <2> QED
    BY <2>flags, <2>1, <2>2, <2>3
<1> QED
  BY <1>1, <1>2, <1>3, <1>4, <1>6 DEF ServerThread, RestArrives, RoomForWrite

\* An answer of the broker, and the loss of the connection, keep the types.
LEMMA BrokerKeepsTypes ==
    ASSUME TypeInv, Broker \/ LoseConnection
    PROVE  TypeInv'
<1>1. /\ UNCHANGED <<mainVars, serverThread, isRunning, handler, messageQueue, protocol, logins>>
      /\ toServer' \in Seq(ClientFrame)
      /\ toClient' \in Seq(ServerFrame)
      /\ session' \in {"fresh", "in", "over"}
      /\ subIdToDestination' \in [SubIds -> Channels \cup {None}]
  <2> USE DEF TypeInv, server
  <2>0. /\ toServer \in Seq(ClientFrame) /\ toClient \in Seq(ServerFrame)
        /\ session \in {"fresh", "in", "over"}
        /\ subIdToDestination \in [SubIds -> Channels \cup {None}]
    BY DEF ControlTypes, Commands, QueueTypes, MapTypes
  <2>1. CASE LoseConnection
    <3>1. PICK n \in 0..Len(toClient) : toClient' = SubSeq(toClient, 1, n)
      BY <2>1 DEF LoseConnection
    <3>2. toClient' \in Seq(ServerFrame)
      BY <2>0, <3>1
    <3> QED
      BY <2>0, <2>1, <3>2 DEF LoseConnection
  <2>2. CASE Broker
    <3> DEFINE f == Head(toServer)
    <3>1. /\ f \in ClientFrame
          /\ toServer' \in Seq(ClientFrame)
      <4>1. toServer # <<>> /\ toServer' \in {<<>>, Tail(toServer)}
        BY <2>2 DEF Broker
      <4>2. f \in ClientFrame /\ Tail(toServer) \in Seq(ClientFrame)
        BY ONLY <2>0, <4>1 DEF f
      <4>3. <<>> \in Seq(ClientFrame)
        BY ONLY TRUE
      <4> QED
        BY ONLY <4>1, <4>2, <4>3
    <3> HIDE DEF f
    <3>2. /\ f.type \in {"SUBSCRIBE", "UNSUBSCRIBE", "DISCONNECT"} => f.receipt \in Receipts
          /\ f.type \in {"SUBSCRIBE", "UNSUBSCRIBE"} => f.id \in SubIds
          /\ f.type = "SUBSCRIBE" => f.channel \in Channels
      BY <3>1, FrameFields
    <3>3. ASSUME NEW answer \in ServerFrame, NEW state \in {"fresh", "in", "over"},
                 Answer(<<answer>>, state)
          PROVE  toClient' \in Seq(ServerFrame) /\ session' \in {"fresh", "in", "over"}
      BY <2>0, <3>3 DEF Answer
    <3>4. CASE session = "over"
      BY <2>0, <2>2, <3>1, <3>4 DEF Broker
    <3>5. CASE AnswerConnect \/ AnswerSend
      <4>1. toClient' \in Seq(ServerFrame) /\ session' \in {"fresh", "in", "over"}
        BY <2>0, <3>3, <3>5, AnswersMade DEF AnswerConnect, AnswerSend
      <4> QED
        BY <2>0, <2>2, <3>1, <3>5, <4>1 DEF Broker, AnswerConnect, AnswerSend
    <3>6. CASE AnswerSubscribe
      <4>1. f.type = "SUBSCRIBE"
        BY <3>6 DEF AnswerSubscribe, f
      <4>2. /\ \/ Answer(<<Error>>, "over")
               \/ Answer(<<Receipt(f.receipt, "SUBSCRIBE", f.channel, f.id)>>, session)
            /\ subIdToDestination' \in {subIdToDestination,
                                        [subIdToDestination EXCEPT ![f.id] = f.channel]}
        BY <3>6 DEF AnswerSubscribe, f
      <4>3. toClient' \in Seq(ServerFrame) /\ session' \in {"fresh", "in", "over"}
        BY <2>0, <3>2, <3>3, <4>1, <4>2, AnswersMade
      <4>4. subIdToDestination' \in [SubIds -> Channels \cup {None}]
        BY <2>0, <3>2, <4>1, <4>2
      <4> QED
        BY <2>0, <2>2, <3>1, <4>3, <4>4 DEF Broker
    <3>7. CASE AnswerUnsubscribe
      <4>1. f.type = "UNSUBSCRIBE"
        BY <3>7 DEF AnswerUnsubscribe, f
      <4>2. /\ \/ Answer(<<Error>>, "over")
               \/ Answer(<<Receipt(f.receipt, "UNSUBSCRIBE", subIdToDestination[f.id], f.id)>>,
                         session)
            /\ subIdToDestination' = [subIdToDestination EXCEPT ![f.id] = None]
        BY <3>7 DEF AnswerUnsubscribe, f
      <4>3. toClient' \in Seq(ServerFrame) /\ session' \in {"fresh", "in", "over"}
        BY <2>0, <3>2, <3>3, <4>1, <4>2, AnswersMade
      <4>4. subIdToDestination' \in [SubIds -> Channels \cup {None}]
        BY <2>0, <4>2
      <4> QED
        BY <2>0, <2>2, <3>1, <4>3, <4>4 DEF Broker
    <3>8. CASE AnswerDisconnect
      <4>1. f.type = "DISCONNECT" /\ Answer(<<Receipt(f.receipt, "DISCONNECT", None, 0)>>, "over")
        BY <3>8 DEF AnswerDisconnect, f
      <4>0. 0 \in SubIds
        BY ClientAssumption DEF SubIds
      <4>2. toClient' \in Seq(ServerFrame) /\ session' \in {"fresh", "in", "over"}
        BY <2>0, <3>2, <3>3, <4>0, <4>1, AnswersMade
      <4> QED
        BY <2>0, <2>2, <3>1, <3>8, <4>2 DEF Broker, AnswerDisconnect
    <3> QED
      BY <2>2, <3>4, <3>5, <3>6, <3>7, <3>8 DEF Broker
  <2> QED
    BY <2>1, <2>2
<1> USE <1>1 DEF TypeInv, mainVars, protocol, ids, flags, maps
<1>2. ControlTypes'
  <2>1. /\ ControlTypes /\ session' \in {"fresh", "in", "over"}
        /\ UNCHANGED <<mainAt, command, serverThread, handler>>
    BY <1>1
  <2> QED
    BY ONLY <2>1 DEF ControlTypes
<1>flags. FlagTypes'
  BY DEF FlagTypes
<1>3. IdTypes' /\ QueueTypes'
  BY DEF IdTypes, QueueTypes
<1>4. MapTypes' /\ IdsInRange' /\ ChannelNamed' /\ Places'
  BY DEF MapTypes, IdsInRange, ChannelNamed, Places
<1> QED
  BY <1>flags, <1>2, <1>3, <1>4

LEMMA InitTyped == Init => TypeInv
<1> USE DEF Init, NoCommand, Receipts, SubIds
<1>1. Init => ControlTypes
  BY DEF ControlTypes, Commands, MainPlaces, ServerPlaces
<1>flags. Init => FlagTypes
  BY DEF FlagTypes
<1>2. Init => IdTypes
  BY ClientAssumption DEF IdTypes
<1>3. Init => QueueTypes
  BY DEF QueueTypes
<1>4. Init => MapTypes
  BY ClientAssumption DEF MapTypes
<1>5. Init => IdsInRange /\ ChannelNamed /\ Places
  BY DEF IdsInRange, ChannelNamed, Places
<1> QED
  BY <1>1, <1>flags, <1>2, <1>3, <1>4, <1>5 DEF TypeInv

LEMMA TypesKept == TypeInv /\ [Next]_vars => TypeInv'
<1> SUFFICES ASSUME TypeInv, [Next]_vars PROVE TypeInv'
  OBVIOUS
<1>1. CASE UNCHANGED vars
  <2> USE <1>1 DEF TypeInv, vars, mainVars, protocol, ids, flags, maps, wire, server
  <2>1. ControlTypes'
    <3>1. UNCHANGED <<mainAt, command, serverThread, handler, session>>
      OBVIOUS
    <3> QED
      BY <3>1, ControlKept
  <2>2. FlagTypes'
    BY DEF FlagTypes
  <2>3. IdTypes' /\ QueueTypes'
    BY DEF IdTypes, QueueTypes
  <2>4. MapTypes' /\ IdsInRange' /\ ChannelNamed' /\ Places'
    BY DEF MapTypes, IdsInRange, ChannelNamed, Places
  <2> QED
    BY <2>1, <2>2, <2>3, <2>4
<1> QED
  BY <1>1, MainKeepsTypes, UserKeepsTypes, ServerThreadKeepsTypes, BrokerKeepsTypes DEF Next

\* The ids stay within the bounds the channels' and receipts' maps are made for, whatever
\* reset and command overlap: StompClient's TypeOK, for any channels and bounds.
THEOREM ClientTypes == Spec => []TypeOK
<1>1. TypeInv => TypeOK
  BY TypesInParts DEF TypeInv
<1> QED
  BY <1>1, InitTyped, TypesKept, PTL DEF Spec

-----------------------------------------------------------------------------
(* What the client makes of a RECEIPT.                                      *)

\* A command, other than a login, for which frames are being made.
Making == mainAt \in {"look up", "input", "store", "read subscription", "store subscription",
                      "record subscription", "record", "store logout", "read receipt", "frame"}

\* Its receipt id is stored.
Numbered == mainAt \in {"read subscription", "store subscription", "record subscription", "record",
                        "store logout", "read receipt", "frame"}

Live == serverThread \in {"loop", "drain", "write", "receive", "rest"} /\ handler = "open"

\* There is no session, and resetProtocol is over.
Vacant == ~Live /\ serverThread \notin Resetting

LoggedIn == Live /\ userLoggedIn

\* resetProtocol has not come to the later of these yet.
LogoutUnreset == serverThread \in {"receiptId", "subscriptionId", "logoutReceiptId"}
EventsUnreset == LogoutUnreset \/ serverThread \in {"userLoggedIn", "eventsMap"}
JoinsUnreset == EventsUnreset \/ serverThread = "joinReciepts"
ExitsUnreset == JoinsUnreset \/ serverThread = "exitReciepts"

\* The frames on their way to the broker, and its answers.
Way == (IF Live THEN toServer ELSE <<>>) \o messageQueue \o output
Answers == IF Live THEN toClient ELSE <<>>

\* The frames a command is made into, and the answers that may come to them when they
\* are the first ones of a connection.
FrameOf(cmd, f) ==
    \/ cmd.verb = "login" /\ f.type = "CONNECT"
    \/ cmd.verb = "join" /\ f.type = "SUBSCRIBE" /\ f.channel = cmd.channel
    \/ cmd.verb = "exit" /\ f.type = "UNSUBSCRIBE"
    \/ cmd.verb = "report" /\ f.type = "SEND"
    \/ cmd.verb = "logout" /\ f.type = "DISCONNECT"

AnswerTo(cmd, f) ==
    \/ cmd.verb = "join" /\ f.answers = "SUBSCRIBE" /\ f.channel = cmd.channel
    \/ cmd.verb = "logout" /\ f.answers = "DISCONNECT" /\ f.channel = None

\* An ERROR is the end: nothing is received after it.
ErrorEnds ==
    /\ isRunning \/ gotError
    /\ serverThread = "stop" => gotError
    /\ gotError => serverThread \in {"close", "delete", "stop"} \/ ~isRunning

-----------------------------------------------------------------------------
\* At any time.

QueueEmpty ==
    serverThread \in {"receive", "rest", "close", "delete", "stop"} \cup Resetting
        => messageQueue = <<>>

OutputOfCommand ==
    /\ mainAt \notin {"input", "store", "push"} => output = <<>>
    /\ mainAt \in {"input", "store"} /\ command.verb # "report" => output = <<>>
    /\ \A i \in DOMAIN output : FrameOf(command, output[i])
    /\ Len(output) > 1 => command.verb = "report"

NothingSubscribed == \A t \in SubIds : subIdToDestination[t] = None

MakesOne ==
    /\ mainAt = "handle login" =>
          serverThread = "none" /\ toServer = <<>> /\ toClient = <<>> /\ NothingSubscribed
    /\ Making =>
        /\ Live => userLoggedIn
        /\ Vacant => messageQueue = <<>>

LoggedOut ==
    Vacant \/ serverThread \in {"eventsMap", "joinReciepts", "exitReciepts"} => ~userLoggedIn

\* Ids that are recorded have been given out, and no more than that.
IdsGiven ==
    /\ ~JoinsUnreset => \A r \in Receipts : r > receiptId => joinReciepts[r] = None
    /\ ~ExitsUnreset => \A r \in Receipts : r > receiptId => exitReciepts[r] = None
    /\ ~EventsUnreset => \A ch \in Channels : eventsMap[ch] <= subscriptionId
    /\ mainAt = "store" => number > receiptId
    /\ mainAt = "store subscription" => number > subscriptionId

Control ==
    QueueEmpty /\ OutputOfCommand /\ MakesOne /\ LoggedOut /\ IdsGiven

-----------------------------------------------------------------------------
\* Between two sessions.

LeftOnWay(left) ==
    /\ \A i \in DOMAIN Way : Way[i].type = "CONNECT" \/ FrameOf(left, Way[i])
    /\ \A i, j \in DOMAIN Way : i < j /\ Way[i].type = "CONNECT" => Way[j].type = "CONNECT"

LeftInAnswers(left) ==
    /\ \A i \in DOMAIN Answers : Answers[i].type = "RECEIPT" => AnswerTo(left, Answers[i])
    /\ Live => \A t \in SubIds : subIdToDestination[t] # None =>
                  left.verb = "join" /\ left.channel = subIdToDestination[t]

LeftCommand(left) ==
    /\ Making => left = command
    /\ serverThread \in Resetting /\ ~Making /\ output = <<>> => left.verb = "none"

LeftInRecords(left) ==
    /\ ~LogoutUnreset => (logoutReceiptId # 0 => left.verb = "logout")
    /\ ~EventsUnreset =>
          \A ch \in Channels : eventsMap[ch] # 0 => left.verb = "join" /\ left.channel = ch
    /\ ~JoinsUnreset =>
          \A r \in Receipts : joinReciepts[r] # None =>
              left.verb = "join" /\ left.channel = joinReciepts[r]
    /\ ~ExitsUnreset =>
          \A r \in Receipts : exitReciepts[r] # None => left.verb = "exit"

Fits(left) ==
    LeftOnWay(left) /\ LeftInAnswers(left) /\ LeftCommand(left) /\ LeftInRecords(left)

OneLeft == ~LoggedIn => \E left \in Commands : Fits(left)

\* What is left is answered before the CONNECT.
ConnectedLast ==
    Live /\ ~userLoggedIn =>
        \A i \in DOMAIN Answers : Answers[i].type = "CONNECTED" =>
            /\ \A j \in DOMAIN Answers : j > i => Answers[j].type # "RECEIPT"
            /\ \A j \in DOMAIN Way : Way[j].type = "CONNECT"

\* A logout whose receipt id was reset under it ends the next session before its CONNECT.
LogoutFirst ==
    ~LoggedIn /\ ~LogoutUnreset /\ logoutReceiptId > receiptId =>
        /\ \A i \in DOMAIN Answers : Answers[i].type # "CONNECTED"
        /\ \/ Live /\ session = "over"
           \/ mainAt = "frame" /\ command.verb = "logout"
           \/ \E i \in DOMAIN Way :
                 Way[i].type = "DISCONNECT" /\ \A j \in DOMAIN Way : Way[j].type = "CONNECT" => i < j

AnsweredBefore == ConnectedLast /\ LogoutFirst

-----------------------------------------------------------------------------
\* In a session.

Issued(r) == r > 0 /\ r <= receiptId /\ (Numbered => r < receiptId)

\* Every frame and answer has its record and no other.
FrameRecorded(f) ==
    /\ f.type \in {"SUBSCRIBE", "UNSUBSCRIBE", "DISCONNECT"} => Issued(f.receipt)
    /\ f.type = "SUBSCRIBE" =>
          f.id > 0 /\ f.receipt # logoutReceiptId /\ joinReciepts[f.receipt] = f.channel
    /\ f.type = "UNSUBSCRIBE" =>
          /\ f.receipt # logoutReceiptId
          /\ joinReciepts[f.receipt] = None /\ exitReciepts[f.receipt] # None
    /\ f.type = "DISCONNECT" =>
          joinReciepts[f.receipt] = None /\ exitReciepts[f.receipt] = None

AnswerRecorded(f) ==
    f.type = "RECEIPT" =>
        /\ Issued(f.id)
        /\ f.answers = "SUBSCRIBE" =>
              /\ f.id # logoutReceiptId
              /\ joinReciepts[f.id] = f.channel /\ f.channel # None
        /\ f.answers = "UNSUBSCRIBE" =>
              /\ f.id # logoutReceiptId
              /\ joinReciepts[f.id] = None
              /\ f.subscription # 0 => exitReciepts[f.id] = f.channel
        /\ f.answers = "DISCONNECT" =>
              joinReciepts[f.id] = None /\ exitReciepts[f.id] = None /\ f.channel = None

WayRecorded == \A i \in DOMAIN Way : FrameRecorded(Way[i])
AnswersRecorded == \A i \in DOMAIN Answers : AnswerRecorded(Answers[i])

CommandRecorded ==
    /\ logoutReceiptId <= receiptId
    /\ mainAt = "store" => number = receiptId + 1
    /\ mainAt = "store subscription" => number = subscriptionId + 1
    /\ Numbered =>
          /\ receiptId > 0
          /\ mainAt # "frame" \/ command.verb # "logout" => receiptId # logoutReceiptId
    /\ mainAt \in {"record subscription", "record", "read receipt", "frame"} /\ command.verb = "join"
          => subscriptionId > 0
    /\ Numbered /\ mainAt \notin {"read receipt", "frame"} =>
          joinReciepts[receiptId] = None /\ exitReciepts[receiptId] = None
    /\ mainAt = "store logout" => number = receiptId
    /\ mainAt = "read receipt" => joinReciepts[receiptId] = command.channel
    /\ mainAt = "frame" =>
          /\ command.verb = "join" =>
                number = receiptId /\ joinReciepts[receiptId] = command.channel
          /\ command.verb = "exit" =>
                joinReciepts[receiptId] = None /\ exitReciepts[receiptId] = command.channel
          /\ command.verb = "logout" =>
                joinReciepts[receiptId] = None /\ exitReciepts[receiptId] = None

FrameOwned(owner, f) ==
    /\ f.type = "SUBSCRIBE" => owner[f.id] = f.channel
    /\ f.type = "UNSUBSCRIBE" /\ f.id # 0 => owner[f.id] = exitReciepts[f.receipt]

\* A join that has its subscription id on record.
Joining == mainAt \in {"record", "read receipt", "frame"} /\ command.verb = "join"

\* Every subscription id belongs to one channel, its owner.
OwnedIds(owner) ==
    /\ \A t \in SubIds : t > subscriptionId => owner[t] = None
    /\ mainAt = "record subscription" => owner[subscriptionId] = None
    /\ Joining => owner[subscriptionId] = command.channel
    /\ mainAt \in {"input", "store", "record", "frame"} /\ command.verb = "exit" /\ subId # 0
          => owner[subId] = command.channel
    /\ \A ch \in Channels : eventsMap[ch] # 0 => owner[eventsMap[ch]] = ch

Owned(owner) == OwnedIds(owner) /\ \A i \in DOMAIN Way : FrameOwned(owner, Way[i])

Unsubscribes(f, t) == f.type = "UNSUBSCRIBE" /\ f.id = t
Subscribes(f, t) == f.type = "SUBSCRIBE" /\ f.id = t

\* The broker has subscribed an id to its owner, or it is going to refuse the owner's
\* SUBSCRIBE before it comes to an UNSUBSCRIBE, and the session is over.
SubscribedFirst(t) ==
    \/ /\ Joining /\ subscriptionId = t
       /\ \A j \in DOMAIN Way : ~Unsubscribes(Way[j], t)
    \/ \E i \in DOMAIN Way :
          Subscribes(Way[i], t) /\ \A j \in DOMAIN Way : Unsubscribes(Way[j], t) => i < j

BrokerAgrees(owner) ==
    session # "over" =>
        \A t \in SubIds :
           t # 0 /\ owner[t] # None /\ subIdToDestination[t] \notin {None, owner[t]} =>
              SubscribedFirst(t)

IdsOwned == \E owner \in [SubIds -> Channels \cup {None}] : Owned(owner) /\ BrokerAgrees(owner)

SessionExact ==
    LoggedIn => WayRecorded /\ AnswersRecorded /\ CommandRecorded /\ IdsOwned

IdsExact == Control /\ OneLeft /\ AnsweredBefore /\ SessionExact

ReceiptInv == ErrorEnds /\ (~gotError => IdsExact)

-----------------------------------------------------------------------------
(* How the frames on their way move.                                        *)

\* The head of the one sequence moves to the end of the other.
LEMMA HeadMoves ==
    ASSUME NEW S, NEW a \in Seq(S), NEW b \in Seq(S), b # <<>>
    PROVE  Append(a, Head(b)) \o Tail(b) = a \o b
<1>1. /\ Head(b) \in S /\ Tail(b) \in Seq(S) /\ Len(Tail(b)) = Len(b) - 1
      /\ \A i \in 1..Len(Tail(b)) : Tail(b)[i] = b[i+1]
      /\ Head(b) = b[1] /\ Len(b) \in Nat /\ Len(b) > 0
  OBVIOUS
<1> DEFINE s == Append(a, Head(b)) \o Tail(b)
           t == a \o b
<1>2. /\ Append(a, Head(b)) \in Seq(S) /\ Len(Append(a, Head(b))) = Len(a) + 1
      /\ \A i \in 1..Len(a) : Append(a, Head(b))[i] = a[i]
      /\ Append(a, Head(b))[Len(a)+1] = Head(b)
  BY <1>1
<1>3. /\ s \in Seq(S) /\ Len(s) = Len(a) + Len(b)
      /\ \A i \in 1..Len(s) :
            s[i] = IF i <= Len(a) + 1 THEN Append(a, Head(b))[i] ELSE Tail(b)[i - (Len(a) + 1)]
  <2> DEFINE h == Append(a, Head(b))
  <2>1. h \in Seq(S) /\ Tail(b) \in Seq(S) /\ Len(h) = Len(a) + 1 /\ Len(a) \in Nat
    BY <1>1, <1>2
  <2> HIDE DEF h
  <2>2. /\ h \o Tail(b) \in Seq(S)
        /\ Len(h \o Tail(b)) = Len(h) + Len(Tail(b))
        /\ \A i \in 1..Len(h) + Len(Tail(b)) :
              (h \o Tail(b))[i] = IF i <= Len(h) THEN h[i] ELSE Tail(b)[i - Len(h)]
    BY <2>1, ConcatProperties
  <2> QED
    BY <1>1, <2>1, <2>2 DEF h
<1>4. /\ t \in Seq(S) /\ Len(t) = Len(a) + Len(b)
      /\ \A i \in 1..Len(t) : t[i] = IF i <= Len(a) THEN a[i] ELSE b[i - Len(a)]
  BY ConcatProperties
<1> HIDE DEF s, t
<1>5. ASSUME NEW i \in 1..Len(s)
      PROVE  s[i] = t[i]
  <2>0. i \in Nat /\ i > 0 /\ Len(a) \in Nat /\ i <= Len(a) + Len(b)
    BY <1>1, <1>3
  <2>1. CASE i <= Len(a)
    <3>1. i \in 1..Len(a) /\ i \in 1..Len(t) /\ i <= Len(a) + 1
      BY <1>3, <1>4, <2>0, <2>1
    <3>2. s[i] = Append(a, Head(b))[i] /\ t[i] = a[i]
      BY <1>3, <1>4, <2>1, <3>1, Zenon
    <3> QED
      BY <1>2, <3>1, <3>2, Zenon
  <2>2. CASE i = Len(a) + 1
    <3>1. s[i] = Head(b) /\ t[i] = b[i - Len(a)]
      BY <1>2, <1>3, <1>4, <2>0, <2>2
    <3>2. i - Len(a) = 1
      BY <2>0, <2>2
    <3> QED
      BY <1>1, <3>1, <3>2
  <2>3. CASE i > Len(a) + 1
    <3> DEFINE j == i - (Len(a) + 1)
    <3>1. j \in 1..Len(Tail(b)) /\ j + 1 = i - Len(a)
      BY <1>1, <2>0, <2>3
    <3>2. s[i] = Tail(b)[j] /\ t[i] = b[i - Len(a)]
      BY <1>3, <1>4, <2>0, <2>3
    <3> HIDE DEF j
    <3>3. Tail(b)[j] = b[j + 1]
      BY <1>1, <3>1
    <3> QED
      BY <3>1, <3>2, <3>3
  <2> QED
    BY <2>0, <2>1, <2>2, <2>3
<1>6. s = t
  BY <1>3, <1>4, <1>5, SeqEqual
<1> QED
  BY <1>6 DEF s, t

\* Frames on their way are frames, and answers are answers.
LEMMA WayTyped ==
    ASSUME TypeInv
    PROVE  /\ toServer \in Seq(ClientFrame) /\ messageQueue \in Seq(ClientFrame)
           /\ output \in Seq(ClientFrame) /\ toClient \in Seq(ServerFrame)
           /\ Way \in Seq(ClientFrame) /\ Answers \in Seq(ServerFrame)
           /\ DOMAIN Way = 1..Len(Way) /\ DOMAIN Answers = 1..Len(Answers)
           /\ Len(Way) \in Nat /\ Len(Answers) \in Nat
<1>1. /\ toServer \in Seq(ClientFrame) /\ messageQueue \in Seq(ClientFrame)
      /\ output \in Seq(ClientFrame) /\ toClient \in Seq(ServerFrame)
  BY DEF TypeInv, QueueTypes
<1>2. Way \in Seq(ClientFrame)
  BY <1>1 DEF Way
<1>3. Answers \in Seq(ServerFrame)
  BY <1>1 DEF Answers
<1> QED
  BY <1>1, <1>2, <1>3

\* The same after a step.
LEMMA WayTypedNext ==
    ASSUME TypeInv'
    PROVE  /\ Way' \in Seq(ClientFrame) /\ Answers' \in Seq(ServerFrame)
           /\ DOMAIN Way' = 1..Len(Way') /\ DOMAIN Answers' = 1..Len(Answers')
           /\ Len(Way') \in Nat /\ Len(Answers') \in Nat
<1>1. /\ toServer' \in Seq(ClientFrame) /\ messageQueue' \in Seq(ClientFrame)
      /\ output' \in Seq(ClientFrame) /\ toClient' \in Seq(ServerFrame)
  BY DEF TypeInv, QueueTypes
<1>2. Way' \in Seq(ClientFrame)
  BY <1>1 DEF Way
<1>3. Answers' \in Seq(ServerFrame)
  BY <1>1 DEF Answers
<1> QED
  BY <1>1, <1>2, <1>3

\* Nothing moves when no queue changes and the connection is as it was.
LEMMA WayKept ==
    ASSUME UNCHANGED <<toServer, messageQueue, output, toClient>>, Live' <=> Live
    PROVE  Way' = Way /\ Answers' = Answers
<1>1. CASE Live
  BY <1>1 DEF Way, Answers
<1>2. CASE ~Live
  BY <1>2 DEF Way, Answers
<1> QED
  BY <1>1, <1>2

\* Without a session there is what the main thread has made, and no answers.
LEMMA VacantWay ==
    ASSUME TypeInv, ~Live
    PROVE  Way = messageQueue \o output /\ Answers = <<>>
<1>1. Way = (<<>> \o messageQueue) \o output /\ Answers = <<>>
  BY DEF Way, Answers
<1>2. <<>> \o messageQueue = messageQueue
  BY WayTyped, ConcatEmptySeq
<1> QED
  BY <1>1, <1>2

\* Without a session the wire does not matter.
LEMMA VacantWayKept ==
    ASSUME ~Live, ~Live', UNCHANGED <<messageQueue, output>>
    PROVE  Way' = Way /\ Answers' = Answers
  BY DEF Way, Answers

\* Push moves a frame from output to messageQueue.
LEMMA PushKeepsWay ==
    ASSUME TypeInv, Push
    PROVE  Way' = Way /\ Answers' = Answers
<1>1. (Live' <=> Live) /\ UNCHANGED <<toServer, toClient>>
  BY DEF Push, Live, wire
<1>2. CASE output = <<>>
  BY <1>1, <1>2, WayKept DEF Push
<1>3. CASE output # <<>>
  <2> DEFINE sent == IF Live THEN toServer ELSE <<>>
  <2>1. messageQueue' = Append(messageQueue, Head(output)) /\ output' = Tail(output)
    BY <1>3 DEF Push
  <2>2. sent \in Seq(ClientFrame)
    BY WayTyped
  <2>3. Way = (sent \o messageQueue) \o output
    BY DEF Way
  <2>4. Way' = (sent \o messageQueue') \o output' /\ Answers' = Answers
    <3>1. CASE Live
      BY <1>1, <3>1 DEF Way, Answers
    <3>2. CASE ~Live
      BY <1>1, <3>2 DEF Way, Answers
    <3> QED
      BY <3>1, <3>2
  <2> HIDE DEF sent
  <2>5. /\ messageQueue' \in Seq(ClientFrame) /\ output' \in Seq(ClientFrame)
        /\ messageQueue' \o output' = messageQueue \o output
    <3>1. Head(output) \in ClientFrame /\ Tail(output) \in Seq(ClientFrame)
      BY <1>3, WayTyped
    <3>2. Append(messageQueue, Head(output)) \in Seq(ClientFrame)
      BY <3>1, WayTyped
    <3> QED
      BY <1>3, <2>1, <3>1, <3>2, WayTyped, HeadMoves
  <2> DEFINE m == messageQueue
             o == output
             m2 == messageQueue'
             o2 == output'
  <2>8. m \in Seq(ClientFrame) /\ o \in Seq(ClientFrame)
    BY WayTyped
  <2>9. m2 \in Seq(ClientFrame) /\ o2 \in Seq(ClientFrame)
    BY <2>5
  <2> HIDE DEF m, o, m2, o2
  <2>6. (sent \o m2) \o o2 = sent \o (m2 \o o2)
    BY <2>2, <2>9, ConcatAssociative
  <2>7. (sent \o m) \o o = sent \o (m \o o)
    BY <2>2, <2>8, ConcatAssociative
  <2> USE DEF m, o, m2, o2
  <2> QED
    BY <2>3, <2>4, <2>5, <2>6, <2>7
<1> QED
  BY <1>2, <1>3

\* SendMessage moves a frame from messageQueue to the wire.
LEMMA SendKeepsWay ==
    ASSUME TypeInv, Inv, SendMessage("drain") \/ SendMessage("write")
    PROVE  /\ Way' = Way /\ Answers' = Answers
           /\ Live /\ Live' /\ serverThread' \in {"drain", "receive"}
<1>0. /\ handler = "open" /\ serverThread \in {"drain", "write"}
      /\ serverThread' \in {"drain", "receive"}
      /\ UNCHANGED <<handler, output, toClient>>
      /\ \/ UNCHANGED <<messageQueue, toServer>>
         \/ /\ messageQueue # <<>>
            /\ toServer' = Append(toServer, Head(messageQueue)) /\ messageQueue' = Tail(messageQueue)
  BY DEF SendMessage, Inv, HandlerKept, mainVars
<1>1. Live /\ Live'
  BY ONLY <1>0 DEF Live
<1>2. CASE UNCHANGED <<messageQueue, toServer>>
  BY <1>0, <1>1, <1>2, WayKept
<1>3. CASE messageQueue # <<>> /\ toServer' = Append(toServer, Head(messageQueue))
           /\ messageQueue' = Tail(messageQueue)
  <2>2. toServer' \o messageQueue' = toServer \o messageQueue
    BY <1>3, WayTyped, HeadMoves
  <2> QED
    BY <1>0, <1>1, <2>2 DEF Way, Answers
<1> QED
  BY <1>0, <1>1, <1>2, <1>3

\* A frame is added behind the others.
LEMMA WayGrows ==
    ASSUME TypeInv, TypeInv', NEW f, output' = Append(output, f), UNCHANGED messageQueue,
           \/ UNCHANGED toServer /\ (Live' <=> Live)
           \/ toServer = <<>> /\ toServer' = <<>>
    PROVE  /\ Len(Way') = Len(Way) + 1
           /\ \A i \in 1..Len(Way) : Way'[i] = Way[i]
           /\ Way'[Len(Way) + 1] = f
<1> DEFINE sent == IF Live THEN toServer ELSE <<>>
           s == sent \o messageQueue
<1>0. sent' = sent
  OBVIOUS
<1>1. Way' = s \o output'
  BY <1>0 DEF Way
<1>2. sent \in Seq(ClientFrame) /\ messageQueue \in Seq(ClientFrame) /\ output \in Seq(ClientFrame)
  BY WayTyped
<1>3. output' \in Seq(ClientFrame)
  BY DEF TypeInv, QueueTypes
<1>4. Way = s \o output
  BY DEF Way
<1> HIDE DEF sent
<1>5. s \in Seq(ClientFrame)
  BY <1>2
<1> HIDE DEF s
<1>6. /\ Len(output') = Len(output) + 1 /\ output'[Len(output) + 1] = f
      /\ \A i \in 1..Len(output) : output'[i] = output[i]
      /\ Len(output) \in Nat /\ Len(s) \in Nat
  BY <1>2, <1>5
<1>7. /\ Len(s \o output') = Len(s) + Len(output')
      /\ \A i \in 1..Len(s) + Len(output') :
            (s \o output')[i] = IF i <= Len(s) THEN s[i] ELSE output'[i - Len(s)]
  BY <1>3, <1>5, ConcatProperties
<1>8. /\ Len(s \o output) = Len(s) + Len(output)
      /\ \A i \in 1..Len(s) + Len(output) :
            (s \o output)[i] = IF i <= Len(s) THEN s[i] ELSE output[i - Len(s)]
  BY <1>2, <1>5, ConcatProperties
<1>9. ASSUME NEW i \in 1..Len(Way)
      PROVE  Way'[i] = Way[i]
  <2>1. i \in 1..Len(s) + Len(output) /\ i \in 1..Len(s) + Len(output')
    BY <1>4, <1>6, <1>8
  <2>2. CASE i <= Len(s)
    BY <1>1, <1>4, <1>7, <1>8, <2>1, <2>2
  <2>3. CASE ~(i <= Len(s))
    <3>1. i - Len(s) \in 1..Len(output)
      BY <1>6, <2>1, <2>3
    <3> QED
      BY <1>1, <1>4, <1>6, <1>7, <1>8, <2>1, <2>3, <3>1
  <2> QED
    BY <2>2, <2>3
<1>10. Way'[Len(Way) + 1] = f
  <2>1. /\ Len(Way) + 1 \in 1..Len(s) + Len(output') /\ ~(Len(Way) + 1 <= Len(s))
        /\ (Len(Way) + 1) - Len(s) = Len(output) + 1
    BY <1>4, <1>6, <1>8
  <2> QED
    BY <1>1, <1>6, <1>7, <2>1
<1> QED
  BY <1>1, <1>4, <1>6, <1>7, <1>8, <1>9, <1>10

\* The foremost frames are lost or taken by the broker.
LEMMA WayDrops ==
    ASSUME TypeInv, Live, ~Live' \/ toServer' = <<>>, UNCHANGED <<messageQueue, output>>
    PROVE  \E k \in 0..Len(Way) :
              Len(Way') = Len(Way) - k /\ \A i \in 1..Len(Way') : Way'[i] = Way[i + k]
<1> DEFINE rest == messageQueue \o output
<1>1. /\ toServer \in Seq(ClientFrame) /\ rest \in Seq(ClientFrame)
      /\ messageQueue \in Seq(ClientFrame) /\ output \in Seq(ClientFrame)
  BY WayTyped
<1>2. Way = toServer \o rest
  BY <1>1, ConcatAssociative DEF Way
<1>3. Way' = rest
  <2>1. Way' = (<<>> \o messageQueue) \o output
    BY DEF Way
  <2> QED
    BY <1>1, <2>1, ConcatEmptySeq
<1> HIDE DEF rest
<1>4. /\ Len(toServer) \in Nat /\ Len(rest) \in Nat
      /\ Len(Way) = Len(toServer) + Len(rest)
      /\ \A i \in 1..Len(toServer) + Len(rest) :
            Way[i] = IF i <= Len(toServer) THEN toServer[i] ELSE rest[i - Len(toServer)]
  BY <1>1, <1>2, ConcatProperties
<1>5. ASSUME NEW i \in 1..Len(rest)
      PROVE  Way'[i] = Way[i + Len(toServer)]
  <2>1. /\ i + Len(toServer) \in 1..Len(toServer) + Len(rest)
        /\ ~(i + Len(toServer) <= Len(toServer))
        /\ (i + Len(toServer)) - Len(toServer) = i
    BY <1>4
  <2> QED
    BY <1>3, <1>4, <2>1
<1>6. Len(toServer) \in 0..Len(Way) /\ Len(Way') = Len(Way) - Len(toServer)
  BY <1>3, <1>4
<1> QED
  BY <1>3, <1>5, <1>6

\* The broker takes the foremost frame.
LEMMA WayTaken ==
    ASSUME TypeInv, Live, Live', toServer # <<>>, toServer' = Tail(toServer),
           UNCHANGED <<messageQueue, output>>
    PROVE  /\ Len(Way) > 0 /\ Way[1] = Head(toServer)
           /\ Len(Way') = Len(Way) - 1 /\ \A i \in 1..Len(Way') : Way'[i] = Way[i + 1]
<1> DEFINE rest == messageQueue \o output
<1>1. /\ toServer \in Seq(ClientFrame) /\ rest \in Seq(ClientFrame)
      /\ messageQueue \in Seq(ClientFrame) /\ output \in Seq(ClientFrame)
      /\ Tail(toServer) \in Seq(ClientFrame) /\ Len(Tail(toServer)) = Len(toServer) - 1
      /\ Head(toServer) = toServer[1]
      /\ \A i \in 1..Len(toServer) - 1 : Tail(toServer)[i] = toServer[i + 1]
      /\ Len(toServer) \in Nat \ {0}
  BY WayTyped
<1>2. Way = toServer \o rest
  <2>1. Way = (toServer \o messageQueue) \o output
    BY DEF Way
  <2>2. (toServer \o messageQueue) \o output = toServer \o (messageQueue \o output)
    BY ONLY <1>1, ConcatAssociative
  <2> QED
    BY <2>1, <2>2
<1>3. Way' = Tail(toServer) \o rest
  <2>1. Way' = (Tail(toServer) \o messageQueue) \o output
    BY DEF Way
  <2>2. (Tail(toServer) \o messageQueue) \o output = Tail(toServer) \o (messageQueue \o output)
    BY ONLY <1>1, ConcatAssociative
  <2> QED
    BY <2>1, <2>2
<1> HIDE DEF rest
<1>4. /\ Len(rest) \in Nat
      /\ Len(Way) = Len(toServer) + Len(rest)
      /\ \A i \in 1..Len(toServer) + Len(rest) :
            Way[i] = IF i <= Len(toServer) THEN toServer[i] ELSE rest[i - Len(toServer)]
  BY <1>1, <1>2, ConcatProperties
<1>5. /\ Len(Way') = Len(toServer) - 1 + Len(rest)
      /\ \A i \in 1..Len(toServer) - 1 + Len(rest) :
            Way'[i] = IF i <= Len(toServer) - 1 THEN Tail(toServer)[i]
                                                ELSE rest[i - (Len(toServer) - 1)]
  BY <1>1, <1>3, ConcatProperties
<1>6. ASSUME NEW i \in 1..Len(Way')
      PROVE  Way'[i] = Way[i + 1]
  <2>1. i + 1 \in 1..Len(toServer) + Len(rest)
    BY <1>1, <1>4, <1>5
  <2>2. CASE i <= Len(toServer) - 1
    BY <1>1, <1>4, <1>5, <2>1, <2>2
  <2>3. CASE i > Len(toServer) - 1
    <3>1. i - (Len(toServer) - 1) = (i + 1) - Len(toServer) /\ ~(i + 1 <= Len(toServer))
      BY <1>1, <2>3
    <3> QED
      BY <1>1, <1>4, <1>5, <2>1, <2>3, <3>1
  <2> QED
    BY <1>1, <2>2, <2>3
<1>7. Len(Way) > 0 /\ Len(Way') = Len(Way) - 1
  BY <1>1, <1>4, <1>5
<1>8. Way[1] = Head(toServer)
  <2>1. 1 \in 1..Len(toServer) + Len(rest) /\ 1 <= Len(toServer)
    BY <1>1, <1>4
  <2> QED
    BY <1>1, <1>4, <2>1
<1> QED
  BY <1>6, <1>7, <1>8


-----------------------------------------------------------------------------
(* Steps by which nothing is said or recorded.                              *)

\* The main thread stays where it is, or makes no frames.
MainStill ==
    \/ UNCHANGED mainVars
    \/ ~Making /\ ~Making' /\ (serverThread \in Resetting => output' = output)

\* The k foremost frames and the m foremost answers are gone, and perhaps the last answers,
\* and no id is changed.
Still(k, m) ==
    /\ \A i \in DOMAIN Way' : i + k \in DOMAIN Way /\ Way'[i] = Way[i + k]
    /\ \A i \in DOMAIN Answers' : i + m \in DOMAIN Answers /\ Answers'[i] = Answers[i + m]
    /\ UNCHANGED <<receiptId, subscriptionId, logoutReceiptId, userLoggedIn, maps>>
    /\ (Live' <=> Live) /\ (Vacant' <=> Vacant)
    /\ serverThread \in Resetting \/ serverThread' \in Resetting => serverThread' = serverThread
    /\ \/ Live /\ session' = "over" /\ (UNCHANGED subIdToDestination \/ NothingSubscribed')
       \/ Way' = Way /\ (Live => UNCHANGED <<session, subIdToDestination>>)
    /\ MainStill

\* The stages of resetProtocol are passed or not as they were.
LEMMA StagesKept ==
    ASSUME serverThread \in Resetting \/ serverThread' \in Resetting => serverThread' = serverThread
    PROVE  /\ LogoutUnreset' <=> LogoutUnreset
           /\ EventsUnreset' <=> EventsUnreset
           /\ JoinsUnreset' <=> JoinsUnreset
           /\ ExitsUnreset' <=> ExitsUnreset
           /\ serverThread' \in Resetting <=> serverThread \in Resetting
<1>1. CASE serverThread' = serverThread
  BY <1>1 DEF LogoutUnreset, EventsUnreset, JoinsUnreset, ExitsUnreset
<1>2. CASE serverThread \notin Resetting /\ serverThread' \notin Resetting
  BY <1>2 DEF LogoutUnreset, EventsUnreset, JoinsUnreset, ExitsUnreset
<1> QED
  BY <1>1, <1>2

LEMMA StillStages ==
    ASSUME NEW k, NEW m, Still(k, m)
    PROVE  /\ LogoutUnreset' <=> LogoutUnreset
           /\ EventsUnreset' <=> EventsUnreset
           /\ JoinsUnreset' <=> JoinsUnreset
           /\ ExitsUnreset' <=> ExitsUnreset
           /\ serverThread' \in Resetting <=> serverThread \in Resetting
  BY StagesKept DEF Still

\* What is left of a session still is of one command.
LEMMA StillLeft ==
    ASSUME NEW k \in Nat, NEW m \in Nat, TypeInv, TypeInv', OneLeft, Still(k, m)
    PROVE  OneLeft'
<1> SUFFICES ASSUME ~LoggedIn'
             PROVE  \E left \in Commands : Fits(left)'
  BY DEF OneLeft, Commands
<1>1. ~LoggedIn
  BY DEF Still, LoggedIn
<1>2. PICK left \in Commands : Fits(left)
  BY <1>1 DEF OneLeft
<1>3. LeftOnWay(left)'
  <2>0. /\ DOMAIN Way = 1..Len(Way) /\ Len(Way) \in Nat
        /\ \A i \in DOMAIN Way : Way[i].type = "CONNECT" \/ FrameOf(left, Way[i])
        /\ \A i, j \in DOMAIN Way : i < j /\ Way[i].type = "CONNECT" => Way[j].type = "CONNECT"
    BY <1>2, WayTyped DEF Fits, LeftOnWay
  <2>1. \A i \in DOMAIN Way' : i + k \in DOMAIN Way /\ Way'[i] = Way[i + k]
    BY DEF Still
  <2>2. \A i \in DOMAIN Way' : Way'[i].type = "CONNECT" \/ FrameOf(left, Way'[i])
    BY <2>0, <2>1
  <2>3. ASSUME NEW i \in DOMAIN Way', NEW j \in DOMAIN Way', i < j, Way'[i].type = "CONNECT"
        PROVE  Way'[j].type = "CONNECT"
    <3>1. i \in Nat /\ j \in Nat
      <4>1. DOMAIN Way' = 1..Len(Way')
        BY WayTypedNext
      <4>2. Len(Way') \in Nat
        BY WayTypedNext
      <4> QED
        BY <4>1, <4>2
    <3>2. i + k < j + k
      BY <2>3, <3>1
    <3> QED
      BY <2>0, <2>1, <2>3, <3>2
  <2> QED
    BY <2>2, <2>3 DEF LeftOnWay, FrameOf
<1>4. LeftInAnswers(left)'
  <2>1. /\ \A i \in DOMAIN Answers' : Answers'[i].type = "RECEIPT" => AnswerTo(left, Answers'[i])
        /\ Live' => \A t \in SubIds : subIdToDestination'[t] # None =>
                       left.verb = "join" /\ left.channel = subIdToDestination'[t]
    BY <1>2 DEF Fits, LeftInAnswers, Still, NothingSubscribed
  <2> QED
    BY <2>1 DEF LeftInAnswers, AnswerTo
<1>5. LeftCommand(left)'
  <2>1. /\ Making => left = command
        /\ serverThread \in Resetting /\ ~Making /\ output = <<>> => left.verb = "none"
    BY <1>2 DEF Fits, LeftCommand
  <2>2. /\ Making' => Making /\ command' = command
        /\ serverThread' \in Resetting /\ ~Making' /\ output' = <<>> =>
              serverThread \in Resetting /\ ~Making /\ output = <<>>
    BY StillStages DEF Still, MainStill, Making, mainVars
  <2> QED
    BY <2>1, <2>2 DEF LeftCommand
<1>6. LeftInRecords(left)'
  <2>1. UNCHANGED <<logoutReceiptId, eventsMap, joinReciepts, exitReciepts>>
    BY DEF Still, maps
  <2> QED
    BY <1>2, <2>1, StillStages DEF Fits, LeftInRecords
<1> QED
  BY <1>3, <1>4, <1>5, <1>6 DEF Fits

\* The CONNECTED still is behind the receipts that are left.
LEMMA StillConnectedLast ==
    ASSUME NEW k \in Nat, NEW m \in Nat, TypeInv, TypeInv', ConnectedLast, Still(k, m)
    PROVE  ConnectedLast'
<1> SUFFICES ASSUME Live, ~userLoggedIn, NEW i \in DOMAIN Answers', Answers'[i].type = "CONNECTED"
             PROVE  /\ \A j \in DOMAIN Answers' : j > i => Answers'[j].type # "RECEIPT"
                    /\ \A j \in DOMAIN Way' : Way'[j].type = "CONNECT"
  BY DEF ConnectedLast, Still
<1>1. /\ DOMAIN Answers' = 1..Len(Answers') /\ Len(Answers') \in Nat
  BY WayTypedNext
<1>2. /\ \A j \in DOMAIN Way' : j + k \in DOMAIN Way /\ Way'[j] = Way[j + k]
      /\ \A j \in DOMAIN Answers' : j + m \in DOMAIN Answers /\ Answers'[j] = Answers[j + m]
  BY DEF Still
<1>3. /\ \A j \in DOMAIN Answers : j > i + m => Answers[j].type # "RECEIPT"
      /\ \A j \in DOMAIN Way : Way[j].type = "CONNECT"
  BY <1>2 DEF ConnectedLast
<1>4. \A j \in DOMAIN Answers' : j > i => j + m > i + m
  BY <1>1
<1> QED
  BY <1>2, <1>3, <1>4

\* So is a logout that ends the session before its CONNECT.
LEMMA StillLogoutFirst ==
    ASSUME NEW k \in Nat, NEW m \in Nat, LogoutFirst, Still(k, m)
    PROVE  LogoutFirst'
<1> SUFFICES ASSUME ~LoggedIn', ~LogoutUnreset', logoutReceiptId' > receiptId'
             PROVE  /\ \A i \in DOMAIN Answers' : Answers'[i].type # "CONNECTED"
                    /\ \/ Live' /\ session' = "over"
                       \/ mainAt' = "frame" /\ command'.verb = "logout"
                       \/ \E i \in DOMAIN Way' :
                             /\ Way'[i].type = "DISCONNECT"
                             /\ \A j \in DOMAIN Way' : Way'[j].type = "CONNECT" => i < j
  BY DEF LogoutFirst
<1>1. ~LoggedIn /\ ~LogoutUnreset /\ logoutReceiptId > receiptId
  BY StillStages DEF Still, LoggedIn
<1>2. /\ \A i \in DOMAIN Answers : Answers[i].type # "CONNECTED"
      /\ \/ Live /\ session = "over"
         \/ mainAt = "frame" /\ command.verb = "logout"
         \/ \E i \in DOMAIN Way :
               Way[i].type = "DISCONNECT" /\ \A j \in DOMAIN Way : Way[j].type = "CONNECT" => i < j
  BY <1>1 DEF LogoutFirst
<1>3. \A i \in DOMAIN Answers' : Answers'[i].type # "CONNECTED"
  BY <1>2 DEF Still
<1>4. mainAt = "frame" /\ command.verb = "logout" => mainAt' = "frame" /\ command'.verb = "logout"
  BY DEF Still, MainStill, mainVars, Making
<1>5. CASE Live' /\ session' = "over"
  BY <1>3, <1>5
<1>6. CASE Way' = Way /\ (Live => UNCHANGED session)
  BY <1>2, <1>3, <1>4, <1>6 DEF Still
<1> QED
  BY <1>5, <1>6 DEF Still

\* Ids that are issued stay so, when no id is given out.
LEMMA StillIssued ==
    ASSUME MainStill, UNCHANGED receiptId
    PROVE  \A r : Issued(r) => Issued(r)'
<1>1. Numbered' => Numbered
  BY DEF MainStill, mainVars, Making, Numbered
<1> QED
  BY <1>1 DEF Issued

\* Every frame and answer of the session still has its record.
LEMMA StillExact ==
    ASSUME NEW k \in Nat, NEW m \in Nat, TypeInv, TypeInv', SessionExact, Still(k, m)
    PROVE  SessionExact'
<1> SUFFICES ASSUME LoggedIn'
             PROVE  WayRecorded' /\ AnswersRecorded' /\ CommandRecorded' /\ IdsOwned'
  BY DEF SessionExact
<1>1. Live /\ LoggedIn /\ WayRecorded /\ AnswersRecorded /\ CommandRecorded /\ IdsOwned
  BY DEF SessionExact, LoggedIn, Still
<1>2. UNCHANGED <<receiptId, subscriptionId, logoutReceiptId, eventsMap,
                  joinReciepts, exitReciepts>>
  BY DEF Still, maps
<1>3. UNCHANGED mainVars \/ (~Making /\ ~Making')
  BY DEF Still, MainStill
<1>4. \A r : Issued(r) => Issued(r)'
  BY StillIssued DEF Still
<1>5. /\ \A j \in DOMAIN Way' : j + k \in DOMAIN Way /\ Way'[j] = Way[j + k]
      /\ \A j \in DOMAIN Answers' : j + m \in DOMAIN Answers /\ Answers'[j] = Answers[j + m]
  BY DEF Still
<1>6. WayRecorded'
  <2> SUFFICES ASSUME NEW i \in DOMAIN Way', NEW f, f = Way'[i]
               PROVE  FrameRecorded(f)'
    BY DEF WayRecorded, FrameRecorded
  <2>1. FrameRecorded(f)
    BY <1>1, <1>5 DEF WayRecorded
  <2> QED
    BY <1>2, <1>4, <2>1 DEF FrameRecorded
<1>7. AnswersRecorded'
  <2> SUFFICES ASSUME NEW i \in DOMAIN Answers', NEW f, f = Answers'[i]
               PROVE  AnswerRecorded(f)'
    BY DEF AnswersRecorded, AnswerRecorded
  <2>1. AnswerRecorded(f)
    BY <1>1, <1>5 DEF AnswersRecorded
  <2> QED
    BY <1>2, <1>4, <2>1 DEF AnswerRecorded
<1>8. CommandRecorded'
  <2>1. CASE UNCHANGED mainVars
    BY <1>1, <1>2, <2>1 DEF CommandRecorded, mainVars, Numbered
  <2>2. CASE ~Making'
    BY <1>1, <1>2, <2>2 DEF CommandRecorded, Numbered, Making
  <2> QED
    BY <1>3, <2>1, <2>2
<1>9. IdsOwned'
  <2>1. PICK owner \in [SubIds -> Channels \cup {None}] : Owned(owner) /\ BrokerAgrees(owner)
    BY <1>1 DEF IdsOwned
  <2>2. Owned(owner)'
    <3>1. \A i \in DOMAIN Way' : FrameOwned(owner, Way[i])'
      BY <1>2, <1>5, <2>1 DEF Owned, FrameOwned
    <3>2. /\ \A t \in SubIds : t > subscriptionId' => owner[t] = None
          /\ \A ch \in Channels : eventsMap'[ch] # 0 => owner[eventsMap'[ch]] = ch
      BY <1>2, <2>1 DEF Owned, OwnedIds
    <3>3. /\ mainAt' = "record subscription" => owner[subscriptionId'] = None
          /\ Joining' => owner[subscriptionId'] = command'.channel
          /\ mainAt' \in {"input", "store", "record", "frame"} /\ command'.verb = "exit"
                /\ subId' # 0 => owner[subId'] = command'.channel
      <4>1. CASE UNCHANGED mainVars
        BY <1>2, <2>1, <4>1 DEF Owned, OwnedIds, Joining, mainVars
      <4>2. CASE ~Making'
        BY <4>2 DEF Joining, Making
      <4> QED
        BY <1>3, <4>1, <4>2
    <3> QED
      BY <3>1, <3>2, <3>3 DEF Owned, OwnedIds
  <2>3. BrokerAgrees(owner)'
    <3>1. CASE session' = "over"
      BY <3>1 DEF BrokerAgrees
    <3>2. CASE Way' = Way /\ UNCHANGED <<session, subIdToDestination>>
      <4>1. \A t : SubscribedFirst(t) => SubscribedFirst(t)'
        <5>1. Joining => Joining'
          BY <1>3 DEF Joining, mainVars, Making
        <5> QED
          BY <1>2, <3>2, <5>1 DEF SubscribedFirst, Subscribes, Unsubscribes
      <4> QED
        BY <2>1, <3>2, <4>1 DEF BrokerAgrees, SubIds
    <3> QED
      BY <1>1, <3>1, <3>2 DEF Still
  <2> QED
    BY <2>1, <2>2, <2>3 DEF IdsOwned, SubIds
<1> QED
  BY <1>6, <1>7, <1>8, <1>9

\* No id is recorded that was not given out.
LEMMA StillIds ==
    ASSUME NEW k \in Nat, NEW m \in Nat, IdsGiven, Still(k, m)
    PROVE  IdsGiven'
<1>1. UNCHANGED <<receiptId, subscriptionId, logoutReceiptId, eventsMap,
                  joinReciepts, exitReciepts>>
  BY DEF Still, maps
<1>2. \/ UNCHANGED <<mainAt, number>>
      \/ mainAt' # "store" /\ mainAt' # "store subscription"
  BY DEF Still, MainStill, Making, mainVars
<1> QED
  BY <1>1, <1>2, StillStages DEF IdsGiven

\* All of this.
LEMMA StillAll ==
    ASSUME NEW k \in Nat, NEW m \in Nat, TypeInv, TypeInv', IdsExact, Still(k, m)
    PROVE  OneLeft' /\ AnsweredBefore' /\ SessionExact' /\ IdsGiven'
  BY StillLeft, StillConnectedLast, StillLogoutFirst, StillExact, StillIds
     DEF IdsExact, AnsweredBefore, Control

\* The same when no frame or answer comes or goes.
LEMMA StillSame ==
    ASSUME TypeInv, TypeInv', IdsExact, Way' = Way, Answers' = Answers,
           UNCHANGED <<receiptId, subscriptionId, logoutReceiptId, userLoggedIn, maps>>,
           Live' <=> Live, Vacant' <=> Vacant,
           serverThread \in Resetting \/ serverThread' \in Resetting => serverThread' = serverThread,
           Live => UNCHANGED <<session, subIdToDestination>>,
           MainStill
    PROVE  OneLeft' /\ AnsweredBefore' /\ SessionExact' /\ IdsGiven'
<1>1. Still(0, 0)
  <2>1. /\ DOMAIN Way = 1..Len(Way) /\ DOMAIN Answers = 1..Len(Answers)
        /\ Len(Way) \in Nat /\ Len(Answers) \in Nat
    BY WayTyped
  <2>2. /\ \A i \in DOMAIN Way : i + 0 = i
        /\ \A i \in DOMAIN Answers : i + 0 = i
    BY <2>1
  <2> QED
    BY <2>2 DEF Still
<1> QED
  BY <1>1, StillAll

-----------------------------------------------------------------------------
(* The steps of the main thread.                                            *)

\* Nothing is made.
LEMMA NoOutput ==
    ASSUME output' = <<>>
    PROVE  OutputOfCommand'
<1>1. (\A i \in DOMAIN output' : FALSE) /\ ~(Len(output') > 1)
  OBVIOUS
<1> QED
  BY <1>1 DEF OutputOfCommand

\* Steps of the main thread that have to do with no command.
LEMMA MainWaits ==
    ASSUME TypeInv, TypeInv', Inv, isRunning, IdsExact,
           Top \/ RefuseLogin \/ AcceptLogin \/ End \/ JoinAtEnd \/ ReadLineInVain \/ ReadEmptyLine
    PROVE  IdsExact'
<1>1. /\ UNCHANGED <<number, subId, output, serverThread, isRunning, messageQueue,
                     protocol, logins, wire, server, handler>>
      /\ mainAt \in {"top", "read", "login"}
      /\ mainAt' \in {"top", "read", "end", "crashed", "join"}
  BY DEF Top, RefuseLogin, AcceptLogin, End, JoinAtEnd, ReadLineInVain, ReadEmptyLine, Inv,
         EndSeesStop
<1> USE DEF protocol, ids, flags, wire, server
<1>2. (Live' <=> Live) /\ (Vacant' <=> Vacant)
  BY <1>1 DEF Live, Vacant
<1>3. Way' = Way /\ Answers' = Answers
  BY <1>1, <1>2, WayKept
<1>4. MainStill
  BY <1>1 DEF MainStill, Making
<1>5. OneLeft' /\ AnsweredBefore' /\ SessionExact' /\ IdsGiven'
  BY <1>1, <1>2, <1>3, <1>4, StillSame
<1>6. output = <<>> /\ QueueEmpty /\ LoggedOut
  BY <1>1 DEF IdsExact, Control, OutputOfCommand
<1>7. OutputOfCommand'
  BY <1>1, <1>6, NoOutput
<1>8. QueueEmpty' /\ MakesOne' /\ LoggedOut'
  BY <1>1, <1>2, <1>6 DEF QueueEmpty, MakesOne, LoggedOut, Making
<1> QED
  BY <1>5, <1>7, <1>8 DEF IdsExact, Control

\* A login is read.
LEMMA LoginRead ==
    ASSUME TypeInv, TypeInv', IdsExact, NEW ch, ReadLine("login", ch)
    PROVE  IdsExact'
<1>1. /\ UNCHANGED <<number, subId, output, serverThread, isRunning, messageQueue,
                     protocol, logins, wire, server, handler>>
      /\ mainAt = "read" /\ mainAt' = "login"
  BY DEF ReadLine
<1> USE DEF protocol, ids, flags, wire, server
<1>2. (Live' <=> Live) /\ (Vacant' <=> Vacant)
  BY <1>1 DEF Live, Vacant
<1>3. Way' = Way /\ Answers' = Answers
  BY <1>1, <1>2, WayKept
<1>4. MainStill
  BY <1>1 DEF MainStill, Making
<1>5. OneLeft' /\ AnsweredBefore' /\ SessionExact' /\ IdsGiven'
  BY <1>1, <1>2, <1>3, <1>4, StillSame
<1>6. output = <<>> /\ QueueEmpty /\ LoggedOut
  BY <1>1 DEF IdsExact, Control, OutputOfCommand
<1>7. OutputOfCommand'
  BY <1>1, <1>6, NoOutput
<1>8. QueueEmpty' /\ MakesOne' /\ LoggedOut'
  BY <1>1, <1>2, <1>6 DEF QueueEmpty, MakesOne, LoggedOut, Making
<1> QED
  BY <1>5, <1>7, <1>8 DEF IdsExact, Control

\* Another command is read: there is a session, or it is being reset, with nothing left
\* of it.
LEMMA CommandRead ==
    ASSUME TypeInv, TypeInv', IdsExact,
           NEW verb \in {"join", "exit", "report", "logout"}, NEW ch, ReadLine(verb, ch)
    PROVE  IdsExact'
<1>1. /\ UNCHANGED <<number, subId, output, serverThread, isRunning, messageQueue,
                     protocol, logins, wire, server, handler>>
      /\ mainAt = "read" /\ command'.verb = verb /\ userLoggedIn
      /\ mainAt' = IF verb = "exit" THEN "look up" ELSE "input"
  BY DEF ReadLine
<1>0. mainAt' \in {"look up", "input"} /\ ~Making /\ Making' /\ ~Numbered /\ ~Numbered'
  BY <1>1 DEF Making, Numbered
<1> USE DEF protocol, ids, flags, maps, wire, server
<1>2. (Live' <=> Live) /\ (Vacant' <=> Vacant) /\ (LoggedIn' <=> LoggedIn)
  BY <1>1 DEF Live, Vacant, LoggedIn
<1>3. Way' = Way /\ Answers' = Answers
  BY <1>1, <1>2, WayKept
<1>4. output = <<>> /\ QueueEmpty /\ LoggedOut /\ IdsGiven
  BY <1>1 DEF IdsExact, Control, OutputOfCommand
<1>5. ~Vacant
  BY <1>1, <1>4 DEF LoggedOut
<1>6. QueueEmpty' /\ LoggedOut' /\ IdsGiven'
  <2>1. QueueEmpty' /\ LoggedOut'
    BY <1>1, <1>2, <1>4 DEF QueueEmpty, LoggedOut
  <2>2. IdsGiven'
    BY <1>0, <1>1, <1>4
       DEF IdsGiven, ExitsUnreset, JoinsUnreset, EventsUnreset, LogoutUnreset
  <2> QED
    BY <2>1, <2>2
<1>7. OutputOfCommand'
  BY <1>1, <1>4, NoOutput
<1>8. MakesOne'
  BY <1>0, <1>1, <1>2, <1>5 DEF MakesOne
<1>9. OneLeft'
  <2> SUFFICES ASSUME ~LoggedIn' PROVE \E left \in Commands : Fits(left)'
    BY DEF OneLeft, Commands
  <2>1. ~Live /\ ~Live' /\ serverThread \in Resetting /\ ~LoggedIn
    BY <1>1, <1>2, <1>5 DEF Vacant, LoggedIn
  <2>2. PICK left \in Commands : Fits(left)
    BY <2>1 DEF IdsExact, OneLeft
  <2>3. left.verb = "none"
    BY <1>0, <1>4, <2>1, <2>2 DEF Fits, LeftCommand
  <2>8. PICK cmd \in Commands : cmd = command'
    BY DEF TypeInv, ControlTypes, Commands
  <2>4. LeftOnWay(cmd)'
    BY <1>3, <2>2, <2>3 DEF Fits, LeftOnWay, FrameOf
  <2>5. LeftInAnswers(cmd)'
    BY <2>1 DEF LeftInAnswers, Answers
  <2>6. LeftCommand(cmd)'
    BY <1>0, <2>8 DEF LeftCommand
  <2>7. LeftInRecords(cmd)'
    BY <1>1, <2>2, <2>3
       DEF Fits, LeftInRecords, ExitsUnreset, JoinsUnreset, EventsUnreset, LogoutUnreset
  <2> QED
    BY <2>4, <2>5, <2>6, <2>7, <2>8 DEF Fits
<1>10. ConnectedLast'
  BY <1>1 DEF ConnectedLast
<1>11. LogoutFirst'
  BY <1>1, <1>2, <1>3 DEF IdsExact, AnsweredBefore, LogoutFirst, LogoutUnreset
<1>12. SessionExact'
  <2> SUFFICES ASSUME LoggedIn'
               PROVE  WayRecorded' /\ AnswersRecorded' /\ CommandRecorded' /\ IdsOwned'
    BY DEF SessionExact
  <2>1. WayRecorded /\ AnswersRecorded /\ CommandRecorded /\ IdsOwned
    BY <1>2 DEF IdsExact, SessionExact
  <2>2. WayRecorded' /\ AnswersRecorded'
    BY <1>0, <1>1, <1>3, <2>1
       DEF WayRecorded, AnswersRecorded, FrameRecorded, AnswerRecorded, Issued
  <2>3. CommandRecorded'
    BY <1>0, <1>1, <2>1 DEF CommandRecorded
  <2>4. PICK owner \in [SubIds -> Channels \cup {None}] : Owned(owner) /\ BrokerAgrees(owner)
    BY <2>1 DEF IdsOwned
  <2>5. Owned(owner)'
    BY <1>1, <1>3, <2>4 DEF Owned, OwnedIds, FrameOwned, Joining
  <2>6. BrokerAgrees(owner)'
    BY <1>1, <1>3, <2>4
       DEF BrokerAgrees, SubscribedFirst, SubIds, Unsubscribes, Subscribes, Joining
  <2> QED
    BY <2>2, <2>3, <2>4, <2>5, <2>6 DEF IdsOwned, SubIds
<1> QED
  BY <1>6, <1>7, <1>8, <1>9, <1>10, <1>11, <1>12 DEF IdsExact, Control, AnsweredBefore

\* A login makes its connection while there is no session.
LEMMA ConnectionMade ==
    ASSUME TypeInv, TypeInv', IdsExact, MakeConnection
    PROVE  IdsExact'
<1>1. /\ UNCHANGED <<number, subId, output, isRunning, messageQueue, protocol>>
      /\ mainAt = "join" /\ serverThread \in {"none", "done"} /\ serverThread' = "none"
      /\ \/ /\ mainAt' = "handle login"
            /\ toServer' = <<>> /\ toClient' = <<>>
            /\ subIdToDestination' = [id \in SubIds |-> None]
         \/ mainAt' = "top"
  BY DEF MakeConnection, Joined
<1> USE DEF protocol, ids, flags
<1>2. ~Live /\ ~Live' /\ Vacant /\ Vacant'
  BY <1>1 DEF Live, Vacant
<1>3. Way' = Way /\ Answers' = Answers
  BY <1>1, <1>2, VacantWayKept
<1>5. MainStill
  BY <1>1 DEF MainStill, Making
<1>6. OneLeft' /\ AnsweredBefore' /\ SessionExact' /\ IdsGiven'
  BY <1>1, <1>2, <1>3, <1>5, StillSame
<1>4. output = <<>> /\ QueueEmpty /\ LoggedOut
  BY <1>1 DEF IdsExact, Control, OutputOfCommand
<1>7. QueueEmpty' /\ LoggedOut'
  BY <1>1, <1>2, <1>4 DEF QueueEmpty, LoggedOut
<1>8. OutputOfCommand'
  BY <1>1, <1>4, NoOutput
<1>9. MakesOne'
  BY <1>1, <1>2 DEF MakesOne, Making, NothingSubscribed
<1> QED
  BY <1>6, <1>7, <1>8, <1>9 DEF IdsExact, Control

\* A frame is pushed, or the command is done.
LEMMA FramePushed ==
    ASSUME TypeInv, TypeInv', IdsExact, Push
    PROVE  IdsExact'
<1>1. /\ UNCHANGED <<serverThread, isRunning, handler, protocol, logins, wire, server>>
      /\ mainAt = "push" /\ mainAt' \in {"push", "top"}
      /\ serverThread \in Resetting => output' = output
  BY DEF Push, HoldsQueueMutex
<1> USE DEF protocol, ids, flags, wire, server
<1>2. (Live' <=> Live) /\ (Vacant' <=> Vacant)
  BY <1>1 DEF Live, Vacant
<1>3. Way' = Way /\ Answers' = Answers
  BY PushKeepsWay
<1>4. MainStill
  BY <1>1 DEF MainStill, Making
<1>5. OneLeft' /\ AnsweredBefore' /\ SessionExact' /\ IdsGiven'
  BY <1>1, <1>2, <1>3, <1>4, StillSame
<1>6. MakesOne' /\ LoggedOut'
  BY <1>1, <1>2 DEF IdsExact, Control, MakesOne, LoggedOut, Making
<1>7. QueueEmpty'
  BY <1>1 DEF IdsExact, Control, QueueEmpty, Push, HoldsQueueMutex
<1>8. OutputOfCommand'
  <2>0. OutputOfCommand
    BY DEF IdsExact, Control
  <2>1. CASE output = <<>>
    BY <2>1 DEF Push, OutputOfCommand
  <2>2. CASE output # <<>>
    <3>1. output' = Tail(output) /\ command' = command /\ mainAt' = "push"
      BY <1>1, <2>2 DEF Push
    <3>2. output \in Seq(ClientFrame)
      BY WayTyped
    <3>3. /\ \A i \in DOMAIN Tail(output) :
                i + 1 \in DOMAIN output /\ Tail(output)[i] = output[i + 1]
          /\ Len(Tail(output)) < Len(output)
      BY <2>2, <3>2
    <3>4. \A i \in DOMAIN output' : FrameOf(command, output'[i])
      BY <2>0, <3>1, <3>3 DEF OutputOfCommand
    <3>5. Len(output') > 1 => command.verb = "report"
      <4>1. Len(output') \in Nat /\ Len(output) \in Nat /\ Len(output') < Len(output)
        BY <3>1, <3>2, <3>3, <2>2
      <4> QED
        BY <2>0, <4>1 DEF OutputOfCommand
    <3> QED
      BY <3>1, <3>4, <3>5 DEF OutputOfCommand, FrameOf
  <2> QED
    BY <2>1, <2>2
<1> QED
  BY <1>5, <1>6, <1>7, <1>8 DEF IdsExact, Control

-----------------------------------------------------------------------------
(* The steps of handleInput and handleReport.                               *)

MakingPlaces == {"look up", "input", "store", "read subscription", "store subscription",
                 "record subscription", "record", "store logout", "read receipt", "frame"}

\* While a command is being made into a frame nothing is sent or received.
LEMMA InputKeeps ==
    ASSUME TypeInv, TypeInv', IdsExact, NEW at \in MakingPlaces, NEW next \in MakingPlaces,
           Input(at, next), output' = output,
           next \in {"input", "store"} \/ command.verb # "report"
    PROVE  /\ mainAt = at /\ mainAt' = next /\ Making
           /\ UNCHANGED <<command, serverThread, session, subIdToDestination>>
           /\ (Live' <=> Live) /\ (LoggedIn' <=> LoggedIn)
           /\ Way' = Way /\ Answers' = Answers
           /\ QueueEmpty' /\ OutputOfCommand' /\ MakesOne' /\ LoggedOut' /\ ConnectedLast'
           /\ LogoutUnreset' <=> LogoutUnreset
           /\ EventsUnreset' <=> EventsUnreset
           /\ JoinsUnreset' <=> JoinsUnreset
           /\ ExitsUnreset' <=> ExitsUnreset
           /\ UNCHANGED logoutReceiptId /\ receiptId' >= receiptId /\ at # "frame" => LogoutFirst'
           /\ ~LoggedIn => Fits(command)
           /\ (~LoggedIn => LeftInRecords(command)') => OneLeft'
<1>1. /\ UNCHANGED <<command, serverThread, isRunning, handler, messageQueue, userLoggedIn,
                     toServer, toClient, output, session, subIdToDestination>>
      /\ mainAt = at /\ mainAt' = next
  BY DEF Input, flags, wire, server
<1>2. Making /\ Making'
  BY <1>1 DEF Making, MakingPlaces
<1>3. (Live' <=> Live) /\ (Vacant' <=> Vacant) /\ (LoggedIn' <=> LoggedIn)
  BY <1>1 DEF Live, Vacant, LoggedIn
<1>4. Way' = Way /\ Answers' = Answers
  BY <1>1, <1>3, WayKept
<1>5. QueueEmpty' /\ MakesOne' /\ LoggedOut' /\ ConnectedLast'
  <2>1. QueueEmpty' /\ LoggedOut'
    BY <1>1, <1>3 DEF IdsExact, Control, QueueEmpty, LoggedOut
  <2>2. MakesOne'
    <3>1. next # "handle login"
      BY DEF MakingPlaces
    <3> QED
      BY <1>1, <1>2, <1>3, <3>1 DEF IdsExact, Control, MakesOne
  <2>3. ConnectedLast'
    BY <1>1, <1>3, <1>4 DEF IdsExact, AnsweredBefore, ConnectedLast
  <2> QED
    BY <2>1, <2>2, <2>3
<1>6. OutputOfCommand'
  <2>0. OutputOfCommand
    BY DEF IdsExact, Control
  <2>1. CASE command.verb # "report"
    <3>1. output = <<>>
      BY <1>1, <2>0, <2>1 DEF OutputOfCommand, MakingPlaces
    <3> QED
      BY <1>1, <3>1, NoOutput
  <2>2. CASE next \in {"input", "store"} /\ command.verb = "report"
    BY <1>1, <2>0, <2>2 DEF OutputOfCommand, FrameOf
  <2> QED
    BY <2>1, <2>2
<1>7. /\ LogoutUnreset' <=> LogoutUnreset
      /\ EventsUnreset' <=> EventsUnreset
      /\ JoinsUnreset' <=> JoinsUnreset
      /\ ExitsUnreset' <=> ExitsUnreset
  BY <1>1, StagesKept
<1>8. ASSUME UNCHANGED logoutReceiptId, receiptId' >= receiptId, at # "frame"
      PROVE  LogoutFirst'
  <2>1. logoutReceiptId' > receiptId' => logoutReceiptId > receiptId
    <3>1. receiptId \in Nat /\ receiptId' \in Nat /\ logoutReceiptId \in Nat
      BY DEF TypeInv, IdTypes, Receipts
    <3> QED
      BY ONLY <1>8, <3>1
  <2> QED
    BY <1>1, <1>3, <1>4, <1>7, <1>8, <2>1 DEF IdsExact, AnsweredBefore, LogoutFirst
<1>9. ~LoggedIn => Fits(command)
  BY <1>2 DEF IdsExact, OneLeft, Fits, LeftCommand
<1>10. ASSUME ~LoggedIn => LeftInRecords(command)'
       PROVE  OneLeft'
  <2> SUFFICES ASSUME ~LoggedIn' PROVE \E left \in Commands : Fits(left)'
    BY DEF OneLeft, Commands
  <2>1. PICK cmd \in Commands : cmd = command
    BY DEF TypeInv, ControlTypes, Commands
  <2>2. LeftInRecords(cmd)'
    BY <1>1, <1>3, <1>10, <2>1 DEF LeftInRecords
  <2>3. LeftOnWay(cmd)' /\ LeftInAnswers(cmd)'
    BY <1>1, <1>3, <1>4, <1>9, <2>1 DEF Fits, LeftOnWay, LeftInAnswers, FrameOf, AnswerTo
  <2>4. LeftCommand(cmd)'
    BY <1>1, <1>2, <2>1 DEF LeftCommand
  <2> QED
    BY <2>2, <2>3, <2>4 DEF Fits
<1> QED
  BY <1>1, <1>2, <1>3, <1>4, <1>5, <1>6, <1>7, <1>8, <1>9, <1>10

\* The receipt ids that are on their way keep their records.
LEMMA RecordsKept ==
    ASSUME TypeInv, WayRecorded, AnswersRecorded, Way' = Way, Answers' = Answers,
           \A r \in Receipts : Issued(r) =>
               /\ Issued(r)'
               /\ joinReciepts'[r] = joinReciepts[r] /\ exitReciepts'[r] = exitReciepts[r]
               /\ r = logoutReceiptId' => r = logoutReceiptId
    PROVE  WayRecorded' /\ AnswersRecorded'
<1>1. WayRecorded'
  <2> SUFFICES ASSUME NEW i \in DOMAIN Way', NEW f, f = Way'[i]
               PROVE  FrameRecorded(f)'
    BY DEF WayRecorded, FrameRecorded
  <2>1. FrameRecorded(f) /\ f \in ClientFrame
    BY WayTyped DEF WayRecorded
  <2>2. f.type \in {"SUBSCRIBE", "UNSUBSCRIBE", "DISCONNECT"} => f.receipt \in Receipts
    BY <2>1, FrameFields
  <2> QED
    BY <2>1, <2>2 DEF FrameRecorded
<1>2. AnswersRecorded'
  <2> SUFFICES ASSUME NEW i \in DOMAIN Answers', NEW f, f = Answers'[i]
               PROVE  AnswerRecorded(f)'
    BY DEF AnswersRecorded, AnswerRecorded
  <2>1. AnswerRecorded(f) /\ f \in ServerFrame
    BY WayTyped DEF AnswersRecorded
  <2>2. f.type = "RECEIPT" => f.id \in Receipts
    BY <2>1 DEF ServerFrame, Connected, Message, Error
  <2> QED
    BY <2>1, <2>2 DEF AnswerRecorded
<1> QED
  BY <1>1, <1>2

\* The owners of the subscription ids that are on their way stay so.
LEMMA OwnersKept ==
    ASSUME TypeInv, WayRecorded, Way' = Way, UNCHANGED <<session, subIdToDestination>>,
           NEW owner \in [SubIds -> Channels \cup {None}], Owned(owner), BrokerAgrees(owner),
           \A r \in Receipts : Issued(r) => exitReciepts'[r] = exitReciepts[r],
           Joining => Joining' /\ UNCHANGED subscriptionId
    PROVE  /\ \A i \in DOMAIN Way' : FrameOwned(owner, Way[i])'
           /\ BrokerAgrees(owner)'
<1>1. ASSUME NEW i \in DOMAIN Way', NEW f, f = Way'[i]
      PROVE  FrameOwned(owner, f)'
  <2>0. i \in DOMAIN Way /\ f = Way[i]
    BY <1>1
  <2>3. FrameRecorded(f) /\ f \in ClientFrame
    BY <2>0, WayTyped DEF WayRecorded
  <2>1. FrameRecorded(f) /\ FrameOwned(owner, f) /\ f \in ClientFrame
    BY <2>0, <2>3 DEF Owned
  <2>2. f.type \in {"SUBSCRIBE", "UNSUBSCRIBE", "DISCONNECT"} => f.receipt \in Receipts
    BY <2>1, FrameFields
  <2> QED
    BY <2>1, <2>2 DEF FrameRecorded, FrameOwned
<1>2. \A i \in DOMAIN Way' : FrameOwned(owner, Way[i])'
  BY <1>1 DEF FrameOwned
<1>3. \A t : SubscribedFirst(t) => SubscribedFirst(t)'
  BY DEF SubscribedFirst, Subscribes, Unsubscribes
<1>4. BrokerAgrees(owner)'
  BY <1>3 DEF BrokerAgrees, SubIds
<1> QED
  BY <1>2, <1>4

LEMMA IdsAreNumbers ==
    ASSUME TypeInv
    PROVE  /\ number \in Nat /\ subId \in Nat
           /\ receiptId \in Nat /\ subscriptionId \in Nat /\ logoutReceiptId \in Nat
           /\ Receipts \subseteq Nat /\ SubIds \subseteq Nat
  BY DEF TypeInv, IdTypes, Receipts, SubIds

\* What the steps of handleInput and handleReport that make no frame have to keep.
LEMMA InputExact ==
    ASSUME TypeInv, TypeInv', IdsExact, NEW at \in MakingPlaces, NEW next \in MakingPlaces,
           Input(at, next), output' = output,
           next \in {"input", "store"} \/ command.verb # "report",
           IdsGiven', LogoutFirst',
           ~LoggedIn => LeftInRecords(command)',
           LoggedIn =>
              /\ CommandRecorded'
              /\ \A r \in Receipts : Issued(r) =>
                    /\ Issued(r)'
                    /\ joinReciepts'[r] = joinReciepts[r] /\ exitReciepts'[r] = exitReciepts[r]
                    /\ r = logoutReceiptId' => r = logoutReceiptId
              /\ Joining => Joining' /\ UNCHANGED subscriptionId
              /\ \A owner \in [SubIds -> Channels \cup {None}] :
                    OwnedIds(owner) => OwnedIds(owner)'
    PROVE  IdsExact'
<1>1. /\ UNCHANGED <<session, subIdToDestination>>
      /\ LoggedIn' <=> LoggedIn
      /\ Way' = Way /\ Answers' = Answers
      /\ QueueEmpty' /\ OutputOfCommand' /\ MakesOne' /\ LoggedOut' /\ ConnectedLast' /\ OneLeft'
  BY InputKeeps
<1>2. SessionExact'
  <2> SUFFICES ASSUME LoggedIn
               PROVE  WayRecorded' /\ AnswersRecorded' /\ CommandRecorded' /\ IdsOwned'
    BY <1>1 DEF SessionExact
  <2>1. WayRecorded /\ AnswersRecorded /\ CommandRecorded /\ IdsOwned
    BY DEF IdsExact, SessionExact
  <2>2. WayRecorded' /\ AnswersRecorded'
    BY <1>1, <2>1, RecordsKept
  <2>3. PICK owner \in [SubIds -> Channels \cup {None}] : Owned(owner) /\ BrokerAgrees(owner)
    BY <2>1 DEF IdsOwned
  <2>4. (\A i \in DOMAIN Way' : FrameOwned(owner, Way[i])') /\ BrokerAgrees(owner)'
    BY <1>1, <2>1, <2>3, OwnersKept
  <2>5. Owned(owner)'
    BY <2>3, <2>4 DEF Owned
  <2> QED
    BY <2>2, <2>3, <2>4, <2>5 DEF IdsOwned, SubIds
<1> QED
  BY <1>1, <1>2 DEF IdsExact, Control, AnsweredBefore

\* exit looks up its subscription.
LEMMA SubscriptionLookedUp ==
    ASSUME TypeInv, TypeInv', IdsExact, LookUpSubscription
    PROVE  IdsExact'
<1>1. /\ Input("look up", "input") /\ output' = output /\ number' = number
      /\ subId' = eventsMap[command.channel]
      /\ UNCHANGED <<receiptId, subscriptionId, logoutReceiptId, eventsMap,
                     joinReciepts, exitReciepts>>
  BY DEF LookUpSubscription, ids, maps
<1>2. "look up" \in MakingPlaces /\ "input" \in MakingPlaces
  BY DEF MakingPlaces
<1>3. /\ mainAt = "look up" /\ mainAt' = "input" /\ UNCHANGED command
      /\ LogoutUnreset' <=> LogoutUnreset
      /\ EventsUnreset' <=> EventsUnreset
      /\ JoinsUnreset' <=> JoinsUnreset
      /\ ExitsUnreset' <=> ExitsUnreset
      /\ ~LoggedIn => Fits(command)
  BY <1>1, <1>2, InputKeeps
<1>4. command.verb = "exit" /\ command.channel \in Channels
  BY <1>3 DEF TypeInv, Places, ChannelNamed
<1>5. IdsGiven'
  BY <1>1, <1>3 DEF IdsExact, Control, IdsGiven
<1>6. LogoutFirst'
  <2>0. receiptId \in Nat /\ receiptId' = receiptId
    BY <1>1, IdsAreNumbers
  <2>1. receiptId' >= receiptId
    BY ONLY <2>0
  <2> QED
    BY <1>1, <1>2, <2>1, InputKeeps
<1>7. ~LoggedIn => LeftInRecords(command)'
  BY <1>1, <1>3 DEF Fits, LeftInRecords
<1>8. ~Numbered /\ ~Numbered' /\ ~Joining
  BY <1>3 DEF Numbered, Joining
<1>9. LoggedIn => CommandRecorded'
  BY <1>1, <1>3, <1>8 DEF IdsExact, SessionExact, CommandRecorded
<1>10. \A r : Issued(r) => Issued(r)'
  BY <1>1, <1>8 DEF Issued
<1>11. ASSUME NEW owner \in [SubIds -> Channels \cup {None}], OwnedIds(owner)
       PROVE  OwnedIds(owner)'
  BY <1>1, <1>3, <1>4, <1>11 DEF OwnedIds, Joining
<1> QED
  BY <1>1, <1>2, <1>5, <1>6, <1>7, <1>8, <1>9, <1>10, <1>11, InputExact

\* The receipt id is read.
LEMMA ReceiptIdRead ==
    ASSUME TypeInv, TypeInv', IdsExact, ReadReceiptId
    PROVE  IdsExact'
<1>1. /\ Input("input", "store") /\ output' = output /\ number' = receiptId + 1 /\ subId' = subId
      /\ UNCHANGED <<receiptId, subscriptionId, logoutReceiptId, eventsMap,
                     joinReciepts, exitReciepts>>
  BY DEF ReadReceiptId, ids, maps
<1>2. "input" \in MakingPlaces /\ "store" \in MakingPlaces
  BY DEF MakingPlaces
<1>3. /\ mainAt = "input" /\ mainAt' = "store" /\ UNCHANGED command
      /\ LogoutUnreset' <=> LogoutUnreset
      /\ EventsUnreset' <=> EventsUnreset
      /\ JoinsUnreset' <=> JoinsUnreset
      /\ ExitsUnreset' <=> ExitsUnreset
      /\ ~LoggedIn => Fits(command)
  BY <1>1, <1>2, InputKeeps
<1>4. receiptId \in Nat
  BY IdsAreNumbers
<1>5. IdsGiven'
  <2>1. number' > receiptId'
    BY <1>1, <1>4
  <2> QED
    BY <1>1, <1>3, <2>1 DEF IdsExact, Control, IdsGiven
<1>6. LogoutFirst'
  <2>1. receiptId' >= receiptId
    BY <1>1, <1>4
  <2> QED
    BY <1>1, <1>2, <2>1, InputKeeps
<1>7. ~LoggedIn => LeftInRecords(command)'
  BY <1>1, <1>3 DEF Fits, LeftInRecords
<1>8. ~Numbered /\ ~Numbered' /\ ~Joining
  BY <1>3 DEF Numbered, Joining
<1>9. LoggedIn => CommandRecorded'
  BY <1>1, <1>3, <1>8 DEF IdsExact, SessionExact, CommandRecorded
<1>10. \A r : Issued(r) => Issued(r)'
  BY <1>1, <1>8 DEF Issued
<1>11. ASSUME NEW owner \in [SubIds -> Channels \cup {None}], OwnedIds(owner)
       PROVE  OwnedIds(owner)'
  BY <1>1, <1>3, <1>11 DEF OwnedIds, Joining
<1> QED
  BY <1>1, <1>2, <1>5, <1>6, <1>7, <1>8, <1>9, <1>10, <1>11, InputExact

\* The new receipt id is greater than all that are recorded.
LEMMA ReceiptIdStored ==
    ASSUME TypeInv, TypeInv', IdsExact, StoreReceiptId
    PROVE  IdsExact'
<1> DEFINE next == IF command.verb = "join" THEN "read subscription" ELSE "record"
<1>1. /\ Input("store", next) /\ output' = output /\ receiptId' = number /\ subId' = subId
      /\ command.verb # "report"
      /\ UNCHANGED <<subscriptionId, logoutReceiptId, eventsMap, joinReciepts, exitReciepts>>
  BY DEF StoreReceiptId, maps
<1>2. "store" \in MakingPlaces /\ next \in MakingPlaces
  BY DEF MakingPlaces
<1>3. /\ mainAt = "store" /\ mainAt' = next /\ UNCHANGED command
      /\ LoggedIn' <=> LoggedIn
      /\ LogoutUnreset' <=> LogoutUnreset
      /\ EventsUnreset' <=> EventsUnreset
      /\ JoinsUnreset' <=> JoinsUnreset
      /\ ExitsUnreset' <=> ExitsUnreset
      /\ ~LoggedIn => Fits(command)
  BY <1>1, <1>2, InputKeeps
<1>4. number > receiptId /\ IdsGiven
  BY <1>3 DEF IdsExact, Control, IdsGiven
<1>5. /\ \A r \in Receipts : r > receiptId' => r > receiptId
      /\ receiptId' >= receiptId /\ receiptId' > 0 /\ number \in Receipts
  <2>1. receiptId' = number /\ number > receiptId /\ receiptId \in Nat /\ number \in Nat
    BY <1>1, <1>4, IdsAreNumbers
  <2>2. number \in Receipts
    BY DEF TypeInv, IdTypes
  <2>3. \A r \in Nat : r > receiptId' => r > receiptId
    BY ONLY <2>1
  <2>4. receiptId' >= receiptId /\ receiptId' > 0
    BY ONLY <2>1
  <2> QED
    BY <2>2, <2>3, <2>4, IdsAreNumbers
<1>6. mainAt' # "store" /\ mainAt' # "store subscription"
  BY <1>3
<1>7. IdsGiven'
  BY <1>1, <1>3, <1>4, <1>5, <1>6 DEF IdsGiven
<1>8. LogoutFirst'
  BY <1>1, <1>2, <1>5, InputKeeps
<1>9. ~LoggedIn => LeftInRecords(command)'
  BY <1>1, <1>3 DEF Fits, LeftInRecords
<1>10. ~Numbered /\ ~Joining /\ ~Joining'
  BY <1>3 DEF Numbered, Joining
<1>11. \A r \in Receipts : Issued(r) => Issued(r)'
  <2>1. ASSUME NEW r \in Receipts, r <= receiptId PROVE r < receiptId' /\ r <= receiptId'
    <3>1. r \in Nat /\ receiptId \in Nat /\ receiptId' \in Nat /\ receiptId' > receiptId
      BY <1>1, <1>4, IdsAreNumbers
    <3> QED
      BY ONLY <2>1, <3>1
  <2> QED
    BY <2>1 DEF Issued
<1>12. ASSUME LoggedIn
       PROVE  CommandRecorded'
  <2>1. logoutReceiptId <= receiptId
    BY <1>12 DEF IdsExact, SessionExact, CommandRecorded
  <2>2. receiptId' # logoutReceiptId /\ logoutReceiptId <= receiptId'
    <3>1. /\ logoutReceiptId \in Nat /\ receiptId \in Nat /\ receiptId' \in Nat
          /\ receiptId' > receiptId
      BY <1>1, <1>4, IdsAreNumbers
    <3> QED
      BY ONLY <2>1, <3>1
  <2>3. joinReciepts[receiptId'] = None /\ exitReciepts[receiptId'] = None
    <3>1. ~JoinsUnreset /\ ~ExitsUnreset
      BY <1>12 DEF LoggedIn, Live, JoinsUnreset, ExitsUnreset, EventsUnreset, LogoutUnreset
    <3> QED
      BY <1>1, <1>4, <1>5, <3>1 DEF IdsGiven
  <2>4. mainAt' = "record" => command'.verb # "join"
    BY <1>3
  <2>5. mainAt' \in {"read subscription", "record"}
    BY <1>3
  <2> QED
    BY <1>1, <1>3, <1>5, <2>2, <2>3, <2>4, <2>5 DEF CommandRecorded
<1>13. ASSUME NEW owner \in [SubIds -> Channels \cup {None}], OwnedIds(owner)
       PROVE  OwnedIds(owner)'
  BY <1>1, <1>3, <1>10, <1>13 DEF OwnedIds
<1>14. LoggedIn =>
          /\ CommandRecorded'
          /\ \A r \in Receipts : Issued(r) =>
                /\ Issued(r)'
                /\ joinReciepts'[r] = joinReciepts[r] /\ exitReciepts'[r] = exitReciepts[r]
                /\ r = logoutReceiptId' => r = logoutReceiptId
          /\ Joining => Joining' /\ UNCHANGED subscriptionId
          /\ \A owner \in [SubIds -> Channels \cup {None}] :
                OwnedIds(owner) => OwnedIds(owner)'
  BY <1>1, <1>10, <1>11, <1>12, <1>13
<1> HIDE DEF next
<1> QED
  BY <1>1, <1>2, <1>7, <1>8, <1>9, <1>14, InputExact

\* The subscription id is read.
LEMMA SubscriptionIdRead ==
    ASSUME TypeInv, TypeInv', IdsExact, ReadSubscriptionId
    PROVE  IdsExact'
<1>1. /\ Input("read subscription", "store subscription") /\ output' = output
      /\ number' = subscriptionId + 1 /\ subId' = subId
      /\ UNCHANGED <<receiptId, subscriptionId, logoutReceiptId, eventsMap,
                     joinReciepts, exitReciepts>>
  BY DEF ReadSubscriptionId, ids, maps
<1>2. "read subscription" \in MakingPlaces /\ "store subscription" \in MakingPlaces
  BY DEF MakingPlaces
<1>0. mainAt = "read subscription"
  BY <1>1 DEF Input
<1>4. command.verb = "join"
  BY <1>0 DEF TypeInv, Places
<1>3. /\ mainAt' = "store subscription" /\ UNCHANGED command
      /\ LogoutUnreset' <=> LogoutUnreset
      /\ EventsUnreset' <=> EventsUnreset
      /\ JoinsUnreset' <=> JoinsUnreset
      /\ ExitsUnreset' <=> ExitsUnreset
      /\ ~LoggedIn => Fits(command)
  BY <1>1, <1>2, <1>4, InputKeeps
<1>5. IdsGiven'
  <2>0. subscriptionId \in Nat /\ subscriptionId' = subscriptionId /\ number' = subscriptionId + 1
    BY <1>1, IdsAreNumbers
  <2>1. number' > subscriptionId'
    BY ONLY <2>0
  <2> QED
    BY <1>1, <1>3, <2>1 DEF IdsExact, Control, IdsGiven
<1>6. LogoutFirst'
  <2>1. receiptId \in Nat /\ receiptId' = receiptId
    BY <1>1, IdsAreNumbers
  <2>2. receiptId' >= receiptId
    BY ONLY <2>1
  <2> QED
    BY <1>1, <1>2, <1>4, <2>2, InputKeeps
<1>7. ~LoggedIn => LeftInRecords(command)'
  BY <1>1, <1>3 DEF Fits, LeftInRecords
<1>8. Numbered /\ Numbered' /\ ~Joining
  BY <1>0, <1>3 DEF Numbered, Joining
<1>9. LoggedIn => CommandRecorded'
  BY <1>0, <1>1, <1>3, <1>8 DEF IdsExact, SessionExact, CommandRecorded
<1>10. \A r : Issued(r) => Issued(r)'
  BY <1>1, <1>8 DEF Issued
<1>11. ASSUME NEW owner \in [SubIds -> Channels \cup {None}], OwnedIds(owner)
       PROVE  OwnedIds(owner)'
  BY <1>1, <1>3, <1>11 DEF OwnedIds, Joining
<1> QED
  BY <1>1, <1>2, <1>4, <1>5, <1>6, <1>7, <1>8, <1>9, <1>10, <1>11, InputExact

\* The new subscription id is greater than all that are recorded.
LEMMA SubscriptionIdStored ==
    ASSUME TypeInv, TypeInv', IdsExact, StoreSubscriptionId
    PROVE  IdsExact'
<1>1. /\ Input("store subscription", "record subscription") /\ output' = output
      /\ subscriptionId' = number /\ subId' = subId
      /\ UNCHANGED <<receiptId, logoutReceiptId, eventsMap, joinReciepts, exitReciepts>>
  BY DEF StoreSubscriptionId, maps
<1>2. "store subscription" \in MakingPlaces /\ "record subscription" \in MakingPlaces
  BY DEF MakingPlaces
<1>0. mainAt = "store subscription"
  BY <1>1 DEF Input
<1>4. command.verb = "join"
  BY <1>0 DEF TypeInv, Places
<1>3. /\ mainAt' = "record subscription" /\ UNCHANGED command
      /\ LogoutUnreset' <=> LogoutUnreset
      /\ EventsUnreset' <=> EventsUnreset
      /\ JoinsUnreset' <=> JoinsUnreset
      /\ ExitsUnreset' <=> ExitsUnreset
      /\ ~LoggedIn => Fits(command)
  BY <1>1, <1>2, <1>4, InputKeeps
<1>12. /\ subscriptionId' > subscriptionId /\ subscriptionId' \in SubIds /\ subscriptionId' > 0
       /\ \A t \in SubIds : t > subscriptionId' => t > subscriptionId
       /\ \A t \in SubIds : t <= subscriptionId => t <= subscriptionId'
  <2>1. number > subscriptionId /\ subscriptionId' = number
    BY <1>0, <1>1 DEF IdsExact, Control, IdsGiven
  <2>2. subscriptionId' \in SubIds
    BY DEF TypeInv, IdTypes, SubIds
  <2>3. subscriptionId' > subscriptionId /\ subscriptionId' \in Nat /\ subscriptionId \in Nat
    BY <2>1, IdsAreNumbers
  <2>4. /\ subscriptionId' > 0
        /\ \A t \in Nat : t > subscriptionId' => t > subscriptionId
        /\ \A t \in Nat : t <= subscriptionId => t <= subscriptionId'
    BY ONLY <2>3
  <2> QED
    BY <2>2, <2>3, <2>4, IdsAreNumbers
<1>5. IdsGiven'
  <2>1. \A ch \in Channels : eventsMap[ch] <= subscriptionId => eventsMap[ch] <= subscriptionId'
    BY <1>12 DEF TypeInv, MapTypes
  <2> QED
    BY <1>1, <1>3, <2>1 DEF IdsExact, Control, IdsGiven
<1>6. LogoutFirst'
  <2>1. receiptId \in Nat /\ receiptId' = receiptId
    BY <1>1, IdsAreNumbers
  <2>2. receiptId' >= receiptId
    BY ONLY <2>1
  <2> QED
    BY <1>1, <1>2, <1>4, <2>2, InputKeeps
<1>7. ~LoggedIn => LeftInRecords(command)'
  BY <1>1, <1>3 DEF Fits, LeftInRecords
<1>8. Numbered /\ Numbered' /\ ~Joining
  BY <1>0, <1>3 DEF Numbered, Joining
<1>9. LoggedIn => CommandRecorded'
  BY <1>0, <1>1, <1>3, <1>8, <1>12 DEF IdsExact, SessionExact, CommandRecorded
<1>10. \A r : Issued(r) => Issued(r)'
  BY <1>1, <1>8 DEF Issued
<1>11. ASSUME NEW owner \in [SubIds -> Channels \cup {None}], OwnedIds(owner)
       PROVE  OwnedIds(owner)'
  BY <1>1, <1>3, <1>11, <1>12 DEF OwnedIds, Joining
<1> QED
  BY <1>1, <1>2, <1>4, <1>5, <1>6, <1>7, <1>8, <1>9, <1>10, <1>11, InputExact

\* The id that no frame names becomes the channel's: the channel is its new owner.
LEMMA SubscriptionRecorded ==
    ASSUME TypeInv, TypeInv', IdsExact, RecordSubscription
    PROVE  IdsExact'
<1>1. /\ Input("record subscription", "record") /\ output' = output
      /\ eventsMap' = [eventsMap EXCEPT ![command.channel] = subscriptionId] /\ subId' = subId
      /\ number' = number
      /\ UNCHANGED <<receiptId, subscriptionId, logoutReceiptId, joinReciepts, exitReciepts>>
  BY DEF RecordSubscription, ids
<1>2. "record subscription" \in MakingPlaces /\ "record" \in MakingPlaces
  BY DEF MakingPlaces
<1>0. mainAt = "record subscription"
  BY <1>1 DEF Input
<1>4. command.verb = "join" /\ command.channel \in Channels /\ None \notin Channels
  BY <1>0, ClientAssumption DEF TypeInv, Places, ChannelNamed
<1>3. /\ mainAt' = "record" /\ UNCHANGED <<command, session, subIdToDestination>>
      /\ Way' = Way /\ Answers' = Answers
      /\ LoggedIn' <=> LoggedIn
      /\ LogoutUnreset' <=> LogoutUnreset
      /\ EventsUnreset' <=> EventsUnreset
      /\ JoinsUnreset' <=> JoinsUnreset
      /\ ExitsUnreset' <=> ExitsUnreset
      /\ ~LoggedIn => Fits(command)
      /\ QueueEmpty' /\ OutputOfCommand' /\ MakesOne' /\ LoggedOut' /\ ConnectedLast'
      /\ (~LoggedIn => LeftInRecords(command)') => OneLeft'
  BY <1>1, <1>2, <1>4, InputKeeps
<1>5. /\ eventsMap'[command.channel] = subscriptionId
      /\ \A ch \in Channels : ch # command.channel => eventsMap'[ch] = eventsMap[ch]
  BY <1>1, <1>4 DEF TypeInv, MapTypes
<1>6. IdsGiven'
  <2>1. subscriptionId <= subscriptionId
    BY IdsAreNumbers
  <2>2. ~EventsUnreset => \A ch \in Channels : eventsMap'[ch] <= subscriptionId
    BY <1>5, <2>1 DEF IdsExact, Control, IdsGiven
  <2> QED
    BY <1>1, <1>3, <2>2 DEF IdsExact, Control, IdsGiven
<1>7. LogoutFirst'
  <2>1. receiptId \in Nat /\ receiptId' = receiptId
    BY <1>1, IdsAreNumbers
  <2>2. receiptId' >= receiptId
    BY ONLY <2>1
  <2> QED
    BY <1>1, <1>2, <1>4, <2>2, InputKeeps
<1>8. OneLeft'
  <2>1. ~LoggedIn => LeftInRecords(command)'
    BY <1>1, <1>3, <1>4, <1>5 DEF Fits, LeftInRecords
  <2> QED
    BY <1>3, <2>1
<1>9. SessionExact'
  <2> SUFFICES ASSUME LoggedIn
               PROVE  WayRecorded' /\ AnswersRecorded' /\ CommandRecorded' /\ IdsOwned'
    BY <1>3 DEF SessionExact
  <2>1. WayRecorded /\ AnswersRecorded /\ CommandRecorded /\ IdsOwned
    BY DEF IdsExact, SessionExact
  <2>2. Numbered /\ Numbered' /\ ~Joining /\ Joining'
    BY <1>0, <1>3, <1>4 DEF Numbered, Joining
  <2>3. WayRecorded' /\ AnswersRecorded'
    <3>1. \A r : Issued(r) => Issued(r)'
      BY <1>1, <2>2 DEF Issued
    <3> QED
      BY <1>1, <1>3, <2>1, <3>1, RecordsKept
  <2>4. CommandRecorded'
    BY <1>0, <1>1, <1>3, <1>4, <2>1, <2>2 DEF CommandRecorded
  <2>5. PICK owner \in [SubIds -> Channels \cup {None}] : Owned(owner) /\ BrokerAgrees(owner)
    BY <2>1 DEF IdsOwned
  <2> DEFINE joined == [owner EXCEPT ![subscriptionId] = command.channel]
  <2>6. PICK next : next = joined
    OBVIOUS
  <2>14. subscriptionId \in SubIds
    BY DEF TypeInv, IdTypes
  <2>7. /\ next \in [SubIds -> Channels \cup {None}]
        /\ next[subscriptionId] = command.channel /\ owner[subscriptionId] = None
        /\ \A t \in SubIds : t # subscriptionId => next[t] = owner[t]
    BY <1>0, <1>4, <2>5, <2>6, <2>14 DEF Owned, OwnedIds
  <2> HIDE DEF joined
  <2>8. \A i \in DOMAIN Way :
           /\ Way[i].type = "SUBSCRIBE" => Way[i].id # subscriptionId
           /\ Way[i].type = "UNSUBSCRIBE" /\ Way[i].id # 0 => Way[i].id # subscriptionId
    <3> SUFFICES ASSUME NEW i \in DOMAIN Way, NEW f, f = Way[i]
                 PROVE  /\ f.type = "SUBSCRIBE" => f.id # subscriptionId
                        /\ f.type = "UNSUBSCRIBE" /\ f.id # 0 => f.id # subscriptionId
      OBVIOUS
    <3>1. FrameRecorded(f) /\ f \in ClientFrame /\ FrameOwned(owner, f)
      BY <2>1, <2>5, WayTyped DEF WayRecorded, Owned
    <3>2. f.type = "SUBSCRIBE" => f.channel \in Channels
      BY <3>1, FrameFields
    <3> QED
      BY <1>4, <2>7, <3>1, <3>2 DEF FrameRecorded, FrameOwned
  <2>9. subscriptionId # 0
    <3>1. subscriptionId > 0
      BY <1>0, <1>4, <2>1 DEF CommandRecorded
    <3> QED
      BY ONLY <3>1
  <2>10. OwnedIds(next)'
    <3>1. \A t \in SubIds : t > subscriptionId' => next[t] = None
      <4>1. \A t \in SubIds : t > subscriptionId => t # subscriptionId
        BY IdsAreNumbers
      <4>2. \A t \in SubIds : t > subscriptionId => owner[t] = None
        BY <2>5 DEF Owned, OwnedIds
      <4>3. subscriptionId' = subscriptionId
        BY <1>1
      <4> QED
        BY <2>7, <4>1, <4>2, <4>3
    <3>2. ASSUME NEW ch \in Channels, eventsMap'[ch] # 0
          PROVE  next[eventsMap'[ch]] = ch
      <4>1. CASE ch = command.channel
        BY <1>5, <2>7, <4>1
      <4>2. CASE ch # command.channel
        <5>1. eventsMap'[ch] = eventsMap[ch] /\ eventsMap[ch] \in SubIds
          BY <1>5, <4>2 DEF TypeInv, MapTypes
        <5>2. owner[eventsMap[ch]] = ch
          BY <2>5, <3>2, <5>1 DEF Owned, OwnedIds
        <5> QED
          BY <1>4, <2>7, <5>1, <5>2
      <4> QED
        BY <4>1, <4>2
    <3> QED
      BY <1>1, <1>3, <1>4, <2>7, <3>1, <3>2 DEF OwnedIds
  <2>11. \A i \in DOMAIN Way' : FrameOwned(next, Way[i])'
    <3>1. ASSUME NEW i \in DOMAIN Way', NEW f, f = Way'[i]
          PROVE  FrameOwned(next, f)'
      <4>0. i \in DOMAIN Way /\ f = Way[i]
        BY <1>3, <3>1
      <4>3. f \in ClientFrame
        BY <4>0, WayTyped
      <4>1. FrameOwned(owner, f) /\ f \in ClientFrame
        BY <2>5, <4>0, <4>3 DEF Owned
      <4>2. /\ f.type = "SUBSCRIBE" => next[f.id] = owner[f.id]
            /\ f.type = "UNSUBSCRIBE" /\ f.id # 0 => next[f.id] = owner[f.id]
        BY <2>7, <2>8, <4>0, <4>1, FrameFields
      <4> QED
        BY <1>1, <4>1, <4>2 DEF FrameOwned
    <3> QED
      BY <3>1 DEF FrameOwned
  <2>12. BrokerAgrees(next)'
    <3> SUFFICES ASSUME session' # "over", NEW t \in SubIds, t # 0, next[t] # None,
                        subIdToDestination'[t] \notin {None, next[t]}
                 PROVE  SubscribedFirst(t)'
      BY DEF BrokerAgrees, SubIds
    <3>1. CASE t = subscriptionId
      BY <1>1, <1>3, <2>2, <2>8, <2>9, <3>1 DEF SubscribedFirst, Unsubscribes
    <3>2. CASE t # subscriptionId
      <4>1. SubscribedFirst(t)
        BY <1>3, <2>5, <2>7, <3>2 DEF BrokerAgrees
      <4> QED
        BY <1>3, <2>2, <4>1 DEF SubscribedFirst, Unsubscribes, Subscribes
    <3> QED
      BY <3>1, <3>2
  <2>13. Owned(next)'
    BY <2>10, <2>11 DEF Owned
  <2> QED
    BY <2>3, <2>4, <2>7, <2>12, <2>13 DEF IdsOwned, SubIds
<1> QED
  BY <1>3, <1>6, <1>7, <1>8, <1>9 DEF IdsExact, Control, AnsweredBefore

\* The join's receipt is none of those on their way.
LEMMA JoinRecorded ==
    ASSUME TypeInv, TypeInv', IdsExact, RecordJoin
    PROVE  IdsExact'
<1>1. /\ Input("record", "read receipt") /\ output' = output /\ command.verb = "join"
      /\ joinReciepts' = [joinReciepts EXCEPT ![receiptId] = command.channel] /\ subId' = subId
      /\ UNCHANGED <<receiptId, subscriptionId, logoutReceiptId, eventsMap, exitReciepts>>
  BY DEF RecordJoin, ids
<1>2. "record" \in MakingPlaces /\ "read receipt" \in MakingPlaces
  BY DEF MakingPlaces
<1>3. /\ mainAt = "record" /\ mainAt' = "read receipt" /\ UNCHANGED command
      /\ LogoutUnreset' <=> LogoutUnreset
      /\ EventsUnreset' <=> EventsUnreset
      /\ JoinsUnreset' <=> JoinsUnreset
      /\ ExitsUnreset' <=> ExitsUnreset
      /\ ~LoggedIn => Fits(command)
  BY <1>1, <1>2, InputKeeps
<1>4. receiptId \in Receipts /\ receiptId \in Nat /\ Receipts \subseteq Nat
  BY IdsAreNumbers DEF TypeInv, IdTypes
<1>5. /\ joinReciepts'[receiptId] = command.channel
      /\ \A r \in Receipts : r # receiptId => joinReciepts'[r] = joinReciepts[r]
      /\ \A r \in Receipts : r > receiptId \/ r < receiptId => r # receiptId
  <2>1. joinReciepts \in [Receipts -> Channels \cup {None}]
    BY DEF TypeInv, MapTypes
  <2>2. \A r \in Receipts : r > receiptId \/ r < receiptId => r # receiptId
    BY ONLY <1>4
  <2> QED
    BY <1>1, <1>4, <2>1, <2>2
<1>6. IdsGiven'
  BY <1>1, <1>3, <1>5 DEF IdsExact, Control, IdsGiven
<1>7. LogoutFirst'
  <2>1. receiptId' = receiptId
    BY <1>1
  <2>2. receiptId' >= receiptId
    BY ONLY <1>4, <2>1
  <2> QED
    BY <1>1, <1>2, <2>2, InputKeeps
<1>8. ~LoggedIn => LeftInRecords(command)'
  BY <1>1, <1>3, <1>5 DEF Fits, LeftInRecords
<1>9. Numbered /\ Numbered' /\ Joining /\ Joining'
  BY <1>1, <1>3 DEF Numbered, Joining
<1>10. LoggedIn => CommandRecorded'
  BY <1>1, <1>3, <1>5, <1>9 DEF IdsExact, SessionExact, CommandRecorded
<1>11. \A r \in Receipts : Issued(r) => Issued(r)' /\ r # receiptId
  BY <1>1, <1>5, <1>9 DEF Issued
<1>12. ASSUME NEW owner \in [SubIds -> Channels \cup {None}], OwnedIds(owner)
       PROVE  OwnedIds(owner)'
  BY <1>1, <1>3, <1>9, <1>12 DEF OwnedIds
<1> QED
  BY <1>1, <1>2, <1>5, <1>6, <1>7, <1>8, <1>9, <1>10, <1>11, <1>12, InputExact

\* The exit's receipt is none of those on their way.
LEMMA ExitRecorded ==
    ASSUME TypeInv, TypeInv', IdsExact, RecordExit
    PROVE  IdsExact'
<1>1. /\ Input("record", "frame") /\ output' = output /\ command.verb = "exit"
      /\ exitReciepts' = [exitReciepts EXCEPT ![receiptId] = command.channel] /\ subId' = subId
      /\ UNCHANGED <<receiptId, subscriptionId, logoutReceiptId, eventsMap, joinReciepts>>
  BY DEF RecordExit, ids
<1>2. "record" \in MakingPlaces /\ "frame" \in MakingPlaces
  BY DEF MakingPlaces
<1>3. /\ mainAt = "record" /\ mainAt' = "frame" /\ UNCHANGED command
      /\ LogoutUnreset' <=> LogoutUnreset
      /\ EventsUnreset' <=> EventsUnreset
      /\ JoinsUnreset' <=> JoinsUnreset
      /\ ExitsUnreset' <=> ExitsUnreset
      /\ ~LoggedIn => Fits(command)
  BY <1>1, <1>2, InputKeeps
<1>4. receiptId \in Receipts /\ receiptId \in Nat /\ Receipts \subseteq Nat
  BY IdsAreNumbers DEF TypeInv, IdTypes
<1>5. /\ exitReciepts'[receiptId] = command.channel
      /\ \A r \in Receipts : r # receiptId => exitReciepts'[r] = exitReciepts[r]
      /\ \A r \in Receipts : r > receiptId \/ r < receiptId => r # receiptId
  <2>1. exitReciepts \in [Receipts -> Channels \cup {None}]
    BY DEF TypeInv, MapTypes
  <2>2. \A r \in Receipts : r > receiptId \/ r < receiptId => r # receiptId
    BY ONLY <1>4
  <2> QED
    BY <1>1, <1>4, <2>1, <2>2
<1>6. IdsGiven'
  BY <1>1, <1>3, <1>5 DEF IdsExact, Control, IdsGiven
<1>7. LogoutFirst'
  <2>1. receiptId' = receiptId
    BY <1>1
  <2>2. receiptId' >= receiptId
    BY ONLY <1>4, <2>1
  <2> QED
    BY <1>1, <1>2, <2>2, InputKeeps
<1>8. ~LoggedIn => LeftInRecords(command)'
  BY <1>1, <1>3, <1>5 DEF Fits, LeftInRecords
<1>9. Numbered /\ Numbered' /\ ~Joining /\ ~Joining'
  BY <1>1, <1>3 DEF Numbered, Joining
<1>10. LoggedIn => CommandRecorded'
  BY <1>1, <1>3, <1>5, <1>9 DEF IdsExact, SessionExact, CommandRecorded
<1>11. \A r \in Receipts : Issued(r) => Issued(r)' /\ r # receiptId
  BY <1>1, <1>5, <1>9 DEF Issued
<1>12. ASSUME NEW owner \in [SubIds -> Channels \cup {None}], OwnedIds(owner)
       PROVE  OwnedIds(owner)'
  BY <1>1, <1>3, <1>9, <1>12 DEF OwnedIds
<1> QED
  BY <1>1, <1>2, <1>5, <1>6, <1>7, <1>8, <1>9, <1>10, <1>11, <1>12, InputExact

\* The logout reads its receipt id back.
LEMMA LogoutRead ==
    ASSUME TypeInv, TypeInv', IdsExact, ReadLogout
    PROVE  IdsExact'
<1>1. /\ Input("record", "store logout") /\ output' = output /\ command.verb = "logout"
      /\ number' = receiptId /\ subId' = subId
      /\ UNCHANGED <<receiptId, subscriptionId, logoutReceiptId, eventsMap,
                     joinReciepts, exitReciepts>>
  BY DEF ReadLogout, ids, maps
<1>2. "record" \in MakingPlaces /\ "store logout" \in MakingPlaces
  BY DEF MakingPlaces
<1>3. /\ mainAt = "record" /\ mainAt' = "store logout" /\ UNCHANGED command
      /\ LogoutUnreset' <=> LogoutUnreset
      /\ EventsUnreset' <=> EventsUnreset
      /\ JoinsUnreset' <=> JoinsUnreset
      /\ ExitsUnreset' <=> ExitsUnreset
      /\ ~LoggedIn => Fits(command)
  BY <1>1, <1>2, InputKeeps
<1>6. IdsGiven'
  BY <1>1, <1>3 DEF IdsExact, Control, IdsGiven
<1>7. LogoutFirst'
  <2>1. receiptId \in Nat /\ receiptId' = receiptId
    BY <1>1, IdsAreNumbers
  <2>2. receiptId' >= receiptId
    BY ONLY <2>1
  <2> QED
    BY <1>1, <1>2, <2>2, InputKeeps
<1>8. ~LoggedIn => LeftInRecords(command)'
  BY <1>1, <1>3 DEF Fits, LeftInRecords
<1>9. Numbered /\ Numbered' /\ ~Joining /\ ~Joining'
  BY <1>1, <1>3 DEF Numbered, Joining
<1>10. LoggedIn => CommandRecorded'
  BY <1>1, <1>3, <1>9 DEF IdsExact, SessionExact, CommandRecorded
<1>11. \A r : Issued(r) => Issued(r)'
  BY <1>1, <1>9 DEF Issued
<1>12. ASSUME NEW owner \in [SubIds -> Channels \cup {None}], OwnedIds(owner)
       PROVE  OwnedIds(owner)'
  BY <1>1, <1>3, <1>9, <1>12 DEF OwnedIds
<1> QED
  BY <1>1, <1>2, <1>6, <1>7, <1>8, <1>9, <1>10, <1>11, <1>12, InputExact

\* The logout's receipt is none of those on their way, or, if the id was reset under it,
\* its DISCONNECT will be answered before any CONNECT.
LEMMA LogoutStored ==
    ASSUME TypeInv, TypeInv', IdsExact, StoreLogout
    PROVE  IdsExact'
<1>1. /\ Input("store logout", "frame") /\ output' = output /\ logoutReceiptId' = number
      /\ subId' = subId
      /\ UNCHANGED <<receiptId, subscriptionId, eventsMap, joinReciepts, exitReciepts>>
  BY DEF StoreLogout, maps
<1>2. "store logout" \in MakingPlaces /\ "frame" \in MakingPlaces
  BY DEF MakingPlaces
<1>0. mainAt = "store logout"
  BY <1>1 DEF Input
<1>4. command.verb = "logout"
  BY <1>0 DEF TypeInv, Places
<1>3. /\ mainAt' = "frame" /\ Making /\ UNCHANGED command
      /\ Live' <=> Live
      /\ LogoutUnreset' <=> LogoutUnreset
      /\ EventsUnreset' <=> EventsUnreset
      /\ JoinsUnreset' <=> JoinsUnreset
      /\ ExitsUnreset' <=> ExitsUnreset
      /\ LoggedIn' <=> LoggedIn
      /\ ~LoggedIn => Fits(command)
  BY <1>1, <1>2, <1>4, InputKeeps
<1>5. IdsGiven'
  BY <1>1, <1>3 DEF IdsExact, Control, IdsGiven
<1>6. LogoutFirst'
  <2> SUFFICES ASSUME ~LoggedIn
               PROVE  \A i \in DOMAIN Answers' : Answers'[i].type # "CONNECTED"
    BY <1>3, <1>4 DEF LogoutFirst
  <2>1. ~Live'
    BY <1>3 DEF IdsExact, Control, MakesOne, LoggedIn
  <2>2. Answers' = <<>>
    BY <2>1 DEF Answers
  <2>3. \A i \in DOMAIN <<>> : FALSE
    OBVIOUS
  <2> QED
    BY ONLY <2>2, <2>3
<1>7. ~LoggedIn => LeftInRecords(command)'
  BY <1>1, <1>3, <1>4 DEF Fits, LeftInRecords
<1>8. Numbered /\ Numbered' /\ ~Joining
  BY <1>0, <1>3 DEF Numbered, Joining
<1>9. LoggedIn => number = receiptId
  BY <1>0 DEF IdsExact, SessionExact, CommandRecorded
<1>10. LoggedIn => CommandRecorded'
  <2>0. receiptId' = receiptId /\ receiptId \in Nat
    BY <1>1, IdsAreNumbers
  <2>1. receiptId' <= receiptId'
    BY ONLY <2>0
  <2> QED
    BY <1>0, <1>1, <1>3, <1>4, <1>8, <1>9, <2>1 DEF IdsExact, SessionExact, CommandRecorded
<1>11. ASSUME NEW r \in Receipts, Issued(r)
       PROVE  Issued(r)' /\ r # receiptId
  <2>1. r < receiptId /\ r \in Nat /\ receiptId \in Nat
    BY <1>8, <1>11, IdsAreNumbers DEF Issued
  <2>2. r # receiptId
    BY ONLY <2>1
  <2> QED
    BY <1>1, <1>8, <1>11, <2>2 DEF Issued
<1>12. ASSUME NEW owner \in [SubIds -> Channels \cup {None}], OwnedIds(owner)
       PROVE  OwnedIds(owner)'
  BY <1>1, <1>3, <1>4, <1>12 DEF OwnedIds, Joining
<1>13. LoggedIn =>
          /\ CommandRecorded'
          /\ \A r \in Receipts : Issued(r) =>
                /\ Issued(r)'
                /\ joinReciepts'[r] = joinReciepts[r] /\ exitReciepts'[r] = exitReciepts[r]
                /\ r = logoutReceiptId' => r = logoutReceiptId
          /\ Joining => Joining' /\ UNCHANGED subscriptionId
          /\ \A owner \in [SubIds -> Channels \cup {None}] :
                OwnedIds(owner) => OwnedIds(owner)'
  BY <1>1, <1>8, <1>9, <1>10, <1>11, <1>12
<1> QED
  BY <1>1, <1>2, <1>4, <1>5, <1>6, <1>7, <1>13, InputExact

\* The join reads its receipt id back.
LEMMA ReceiptOfFrameRead ==
    ASSUME TypeInv, TypeInv', IdsExact, ReadReceiptOfFrame
    PROVE  IdsExact'
<1>1. /\ Input("read receipt", "frame") /\ output' = output /\ number' = receiptId
      /\ subId' = subId
      /\ UNCHANGED <<receiptId, subscriptionId, logoutReceiptId, eventsMap,
                     joinReciepts, exitReciepts>>
  BY DEF ReadReceiptOfFrame, ids, maps
<1>2. "read receipt" \in MakingPlaces /\ "frame" \in MakingPlaces
  BY DEF MakingPlaces
<1>0. mainAt = "read receipt"
  BY <1>1 DEF Input
<1>4. command.verb = "join"
  BY <1>0 DEF TypeInv, Places
<1>3. /\ mainAt' = "frame" /\ UNCHANGED command
      /\ LogoutUnreset' <=> LogoutUnreset
      /\ EventsUnreset' <=> EventsUnreset
      /\ JoinsUnreset' <=> JoinsUnreset
      /\ ExitsUnreset' <=> ExitsUnreset
      /\ ~LoggedIn => Fits(command)
  BY <1>1, <1>2, <1>4, InputKeeps
<1>6. IdsGiven'
  BY <1>1, <1>3 DEF IdsExact, Control, IdsGiven
<1>7. LogoutFirst'
  <2>1. receiptId \in Nat /\ receiptId' = receiptId
    BY <1>1, IdsAreNumbers
  <2>2. receiptId' >= receiptId
    BY ONLY <2>1
  <2> QED
    BY <1>1, <1>2, <1>4, <2>2, InputKeeps
<1>8. ~LoggedIn => LeftInRecords(command)'
  BY <1>1, <1>3 DEF Fits, LeftInRecords
<1>9. Numbered /\ Numbered' /\ Joining /\ Joining'
  BY <1>0, <1>3, <1>4 DEF Numbered, Joining
<1>10. LoggedIn => CommandRecorded'
  BY <1>0, <1>1, <1>3, <1>4, <1>9 DEF IdsExact, SessionExact, CommandRecorded
<1>11. \A r : Issued(r) => Issued(r)'
  BY <1>1, <1>9 DEF Issued
<1>12. ASSUME NEW owner \in [SubIds -> Channels \cup {None}], OwnedIds(owner)
       PROVE  OwnedIds(owner)'
  BY <1>0, <1>1, <1>3, <1>4, <1>9, <1>12 DEF OwnedIds
<1> QED
  BY <1>1, <1>2, <1>4, <1>6, <1>7, <1>8, <1>9, <1>10, <1>11, <1>12, InputExact

\* A frame that a command is made into is behind the others, and the records of it are
\* made.
LEMMA FrameAdded ==
    ASSUME TypeInv, TypeInv', IdsExact, NEW f,
           UNCHANGED <<command, serverThread, handler, messageQueue, userLoggedIn,
                       subscriptionId, logoutReceiptId, maps, wire, server>>,
           \/ mainAt = "frame" /\ mainAt' = "push"
           \/ mainAt = "store" /\ mainAt' = "input" /\ command.verb = "report",
           output' = Append(output, f),
           command.verb # "login", FrameOf(command, f),
           receiptId' >= receiptId,
           LoggedIn => FrameRecorded(f)',
           \A owner : LoggedIn /\ Owned(owner) => FrameOwned(owner, f)',
           Joining => Subscribes(f, subscriptionId)
    PROVE  IdsExact'
<1> USE DEF wire, server, maps
<1>1. (Live' <=> Live) /\ (Vacant' <=> Vacant) /\ (LoggedIn' <=> LoggedIn)
  BY DEF Live, Vacant, LoggedIn
<1>2. /\ Making /\ ~Numbered' /\ ~Joining' /\ mainAt' \in {"push", "input"}
      /\ mainAt = "frame" => output = <<>>
  BY DEF IdsExact, Control, OutputOfCommand, Making, Numbered, Joining
<1>3. /\ Len(Way') = Len(Way) + 1
      /\ \A i \in 1..Len(Way) : Way'[i] = Way[i]
      /\ Way'[Len(Way) + 1] = f
  BY <1>1, WayGrows
<1>4. Answers' = Answers
  BY <1>1 DEF Answers
<1>5. /\ DOMAIN Way = 1..Len(Way) /\ Len(Way) \in Nat
      /\ DOMAIN Way' = 1..Len(Way')
  BY WayTyped, WayTypedNext
<1>6. /\ \A j \in DOMAIN Way' : j \in DOMAIN Way \/ j = Len(Way) + 1
      /\ \A j \in DOMAIN Way : j \in DOMAIN Way' /\ j < Len(Way) + 1
      /\ Len(Way) + 1 \in DOMAIN Way'
  BY <1>3, <1>5
<1>7. \A j \in DOMAIN Way : Way'[j] = Way[j]
  BY <1>3, <1>5
<1>8. f.type # "CONNECT"
  BY DEF FrameOf
<1>9. /\ LogoutUnreset' <=> LogoutUnreset
      /\ EventsUnreset' <=> EventsUnreset
      /\ JoinsUnreset' <=> JoinsUnreset
      /\ ExitsUnreset' <=> ExitsUnreset
  BY StagesKept
<1>10. output \in Seq(ClientFrame) /\ output' # <<>>
  <2>1. output \in Seq(ClientFrame)
    BY WayTyped
  <2>2. Len(Append(output, f)) = Len(output) + 1 /\ Len(output) \in Nat
    BY <2>1
  <2>3. Len(Append(output, f)) # 0 /\ Len(<<>>) = 0
    BY ONLY <2>2
  <2> QED
    BY <2>1, <2>3
<1>11. OutputOfCommand'
  <2>0. OutputOfCommand
    BY DEF IdsExact, Control
  <2>1. \A i \in DOMAIN output' : (i \in DOMAIN output /\ output'[i] = output[i]) \/ output'[i] = f
    BY <1>10
  <2>2. \A i \in DOMAIN output' : FrameOf(command, output'[i])
    BY <2>0, <2>1 DEF OutputOfCommand
  <2>3. Len(output') > 1 => command.verb = "report"
    <3>1. CASE mainAt = "frame"
      BY <1>2, <3>1
    <3> QED
      BY <3>1
  <2> QED
    BY <1>2, <2>2, <2>3 DEF OutputOfCommand, FrameOf
<1>12. QueueEmpty' /\ MakesOne' /\ LoggedOut'
  BY <1>1, <1>2 DEF IdsExact, Control, QueueEmpty, MakesOne, LoggedOut
<1>13. \A r \in Receipts : (r > receiptId' => r > receiptId) /\ (r <= receiptId => r <= receiptId')
  <2>1. receiptId' >= receiptId /\ receiptId' \in Nat /\ receiptId \in Nat
    BY DEF TypeInv, IdTypes, Receipts
  <2>2. \A r \in Nat : (r > receiptId' => r > receiptId) /\ (r <= receiptId => r <= receiptId')
    BY ONLY <2>1
  <2> QED
    BY <2>2, IdsAreNumbers
<1>14. IdsGiven'
  BY <1>2, <1>9, <1>13 DEF IdsExact, Control, IdsGiven
<1>15. ConnectedLast'
  BY <1>1, <1>2 DEF IdsExact, Control, MakesOne, ConnectedLast
<1>16. ~LoggedIn => ~Live /\ messageQueue = <<>> /\ \A i \in DOMAIN Way : Way[i].type # "CONNECT"
  <2> SUFFICES ASSUME ~LoggedIn
               PROVE  ~Live /\ messageQueue = <<>> /\ \A i \in DOMAIN Way : Way[i].type # "CONNECT"
    OBVIOUS
  <2>1. ~Live
    BY <1>2 DEF IdsExact, Control, MakesOne, LoggedIn
  <2>2. messageQueue = <<>>
    BY <1>2, <2>1 DEF IdsExact, Control, MakesOne, QueueEmpty, Vacant
  <2>3. Way = output
    <3>1. Way = <<>> \o output
      BY <2>1, <2>2, VacantWay
    <3> QED
      BY <1>10, <3>1, ConcatEmptySeq
  <2> QED
    BY <2>1, <2>2, <2>3 DEF IdsExact, Control, OutputOfCommand, FrameOf
<1>17. LogoutFirst'
  <2> SUFFICES ASSUME ~LoggedIn, ~LogoutUnreset, logoutReceiptId > receiptId'
               PROVE  /\ \A i \in DOMAIN Answers' : Answers'[i].type # "CONNECTED"
                      /\ \E i \in DOMAIN Way' :
                            Way'[i].type = "DISCONNECT" /\ \A j \in DOMAIN Way' : Way'[j].type # "CONNECT"
    BY <1>1, <1>9 DEF LogoutFirst
  <2>1. logoutReceiptId > receiptId
    BY <1>13 DEF TypeInv, IdTypes
  <2>2. /\ \A i \in DOMAIN Answers : Answers[i].type # "CONNECTED"
        /\ \/ mainAt = "frame" /\ command.verb = "logout"
           \/ \E i \in DOMAIN Way : Way[i].type = "DISCONNECT"
    BY <1>16, <2>1 DEF IdsExact, AnsweredBefore, LogoutFirst
  <2>3. \A j \in DOMAIN Way' : Way'[j].type # "CONNECT"
    BY <1>3, <1>6, <1>7, <1>8, <1>16
  <2>4. mainAt = "frame" /\ command.verb = "logout" => f.type = "DISCONNECT"
    BY DEF FrameOf
  <2> QED
    BY <1>3, <1>4, <1>6, <1>7, <2>2, <2>3, <2>4
<1>18. OneLeft'
  <2> SUFFICES ASSUME ~LoggedIn' PROVE \E left \in Commands : Fits(left)'
    BY DEF OneLeft, Commands
  <2>1. PICK left \in Commands : Fits(left)
    BY <1>1 DEF IdsExact, OneLeft
  <2>2. left = command
    BY <1>2, <2>1 DEF Fits, LeftCommand
  <2>3. \A j \in DOMAIN Way' : Way'[j].type # "CONNECT"
    BY <1>1, <1>3, <1>6, <1>7, <1>8, <1>16
  <2>4. \A j \in DOMAIN Way' : Way'[j].type = "CONNECT" \/ FrameOf(left, Way'[j])
    BY <1>3, <1>6, <1>7, <2>1, <2>2 DEF Fits, LeftOnWay
  <2>5. LeftOnWay(left)'
    BY <2>3, <2>4 DEF LeftOnWay, FrameOf
  <2>6. LeftInAnswers(left)'
    BY <1>1, <1>4, <2>1 DEF Fits, LeftInAnswers, AnswerTo
  <2>7. LeftCommand(left)'
    BY <1>10, <2>2 DEF LeftCommand
  <2>8. LeftInRecords(left)'
    BY <1>9, <2>1 DEF Fits, LeftInRecords
  <2> QED
    BY <2>5, <2>6, <2>7, <2>8 DEF Fits
<1>19. SessionExact'
  <2> SUFFICES ASSUME LoggedIn'
               PROVE  WayRecorded' /\ AnswersRecorded' /\ CommandRecorded' /\ IdsOwned'
    BY DEF SessionExact
  <2>1. LoggedIn /\ WayRecorded /\ AnswersRecorded /\ CommandRecorded /\ IdsOwned
    BY <1>1 DEF IdsExact, SessionExact
  <2>2. ASSUME NEW r \in Receipts, Issued(r)
        PROVE  Issued(r)'
    BY <1>2, <1>13, <2>2 DEF Issued
  <2>3. WayRecorded'
    <3> SUFFICES ASSUME NEW j \in DOMAIN Way', NEW g, g = Way'[j]
                 PROVE  FrameRecorded(g)'
      BY DEF WayRecorded, FrameRecorded
    <3>1. CASE j \in DOMAIN Way /\ g = Way[j]
      <4>1. FrameRecorded(g) /\ g \in ClientFrame
        BY <2>1, <3>1, WayTyped DEF WayRecorded
      <4> QED
        BY <2>2, <4>1, FrameFields DEF FrameRecorded
    <3>2. CASE g = f
      BY <2>1, <3>2
    <3> QED
      BY <1>3, <1>6, <1>7, <3>1, <3>2
  <2>4. AnswersRecorded'
    <3> SUFFICES ASSUME NEW i \in DOMAIN Answers', NEW g, g = Answers'[i]
                 PROVE  AnswerRecorded(g)'
      BY DEF AnswersRecorded, AnswerRecorded
    <3>1. AnswerRecorded(g) /\ g \in ServerFrame
      BY <1>4, <2>1, WayTyped DEF AnswersRecorded
    <3>2. g.type = "RECEIPT" => g.id \in Receipts
      BY <3>1 DEF ServerFrame, Connected, Message, Error
    <3> QED
      BY <2>2, <3>1, <3>2 DEF AnswerRecorded
  <2>5. CommandRecorded'
    <3>1. logoutReceiptId <= receiptId /\ logoutReceiptId \in Receipts
      BY <2>1 DEF CommandRecorded, TypeInv, IdTypes
    <3>2. logoutReceiptId <= receiptId'
      BY <1>13, <3>1
    <3> QED
      BY <1>2, <3>2 DEF CommandRecorded
  <2>6. PICK owner \in [SubIds -> Channels \cup {None}] : Owned(owner) /\ BrokerAgrees(owner)
    BY <2>1 DEF IdsOwned
  <2>7. OwnedIds(owner)'
    BY <1>2, <2>6 DEF Owned, OwnedIds
  <2>10. Owned(owner)'
    <3>1. ASSUME NEW j \in DOMAIN Way', NEW g, g = Way'[j]
          PROVE  FrameOwned(owner, g)'
      <4>1. CASE j \in DOMAIN Way /\ g = Way[j]
        <5>1. FrameOwned(owner, g)
          BY <2>6, <4>1 DEF Owned
        <5> QED
          BY <5>1 DEF FrameOwned
      <4>2. CASE g = f
        BY <2>1, <2>6, <4>2
      <4> QED
        BY <1>3, <1>6, <1>7, <3>1, <4>1, <4>2
    <3>2. \A j \in DOMAIN Way' : FrameOwned(owner, Way[j])'
      BY <3>1 DEF FrameOwned
    <3> QED
      BY <2>7, <3>2 DEF Owned
  <2>8. ASSUME NEW t \in SubIds, SubscribedFirst(t)
        PROVE  SubscribedFirst(t)'
    <3>1. CASE Joining /\ subscriptionId = t /\ \A j \in DOMAIN Way : ~Unsubscribes(Way[j], t)
      <4>1. Subscribes(f, t) /\ ~Unsubscribes(f, t)
        BY <3>1 DEF Subscribes, Unsubscribes
      <4>2. \A j \in DOMAIN Way' : ~Unsubscribes(Way'[j], t)
        BY <1>3, <1>6, <1>7, <3>1, <4>1 DEF Unsubscribes
      <4> QED
        BY <1>3, <1>6, <4>1, <4>2 DEF SubscribedFirst, Unsubscribes, Subscribes
    <3>2. ASSUME NEW i \in DOMAIN Way,
                 Subscribes(Way[i], t) /\ \A j \in DOMAIN Way : Unsubscribes(Way[j], t) => i < j
          PROVE  SubscribedFirst(t)'
      <4>2. \A j \in DOMAIN Way' : Unsubscribes(Way'[j], t) => i < j
        BY <1>6, <1>7, <3>2 DEF Unsubscribes
      <4> QED
        BY <1>6, <1>7, <3>2, <4>2 DEF SubscribedFirst, Unsubscribes, Subscribes
    <3> QED
      BY <2>8, <3>1, <3>2 DEF SubscribedFirst
  <2>9. BrokerAgrees(owner)'
    BY <2>6, <2>8 DEF BrokerAgrees, SubIds
  <2> QED
    BY <2>3, <2>4, <2>5, <2>6, <2>9, <2>10 DEF IdsOwned, SubIds
<1> QED
  BY <1>11, <1>12, <1>14, <1>15, <1>17, <1>18, <1>19 DEF IdsExact, Control, AnsweredBefore

\* What MakeFrame changes.
LEMMA FrameMade ==
    ASSUME TypeInv, IdsExact, NEW verb, NEW frame, MakeFrame(verb, frame)
    PROVE  /\ UNCHANGED <<command, serverThread, handler, messageQueue, userLoggedIn,
                          receiptId, subscriptionId, logoutReceiptId, maps, wire, server>>
           /\ mainAt = "frame" /\ mainAt' = "push" /\ command.verb = verb
           /\ output' = Append(output, frame)
           /\ receiptId' >= receiptId
           /\ Numbered /\ ~Numbered'
           /\ LoggedIn => CommandRecorded
<1>1. /\ UNCHANGED <<command, serverThread, handler, messageQueue, userLoggedIn,
                     receiptId, subscriptionId, logoutReceiptId, maps, wire, server>>
      /\ mainAt = "frame" /\ mainAt' = "push" /\ command.verb = verb
      /\ output' = <<frame>>
  BY DEF MakeFrame, Input, ids, flags
<1>2. output = <<>>
  BY <1>1 DEF IdsExact, Control, OutputOfCommand
<1>3. output' = Append(output, frame)
  BY <1>1, <1>2
<1>4. receiptId' = receiptId /\ receiptId \in Nat
  BY <1>1, IdsAreNumbers
<1>5. receiptId' >= receiptId
  BY ONLY <1>4
<1> QED
  BY <1>1, <1>3, <1>5 DEF Numbered, IdsExact, SessionExact

\* The frame of handleInput is the one its command recorded.
LEMMA FrameReturned ==
    ASSUME TypeInv, TypeInv', IdsExact, ReturnFrame
    PROVE  IdsExact'
<1>0. \A r, s : r \in Nat /\ s \in Nat /\ s = r => s <= r
  OBVIOUS
<1>1. CASE MakeFrame("join", Subscribe(command.channel, subscriptionId, number))
  <2>0. PICK f : f = Subscribe(command.channel, subscriptionId, number)
    OBVIOUS
  <2>1. /\ f.type = "SUBSCRIBE" /\ f.id = subscriptionId /\ f.receipt = number
        /\ f.channel = command.channel
    BY <2>0 DEF Subscribe
  <2>2. MakeFrame("join", f)
    BY <1>1, <2>0
  <2>3. /\ UNCHANGED <<command, serverThread, handler, messageQueue, userLoggedIn,
                       receiptId, subscriptionId, logoutReceiptId, maps, wire, server>>
        /\ mainAt = "frame" /\ mainAt' = "push" /\ command.verb = "join"
        /\ output' = Append(output, f)
        /\ receiptId' >= receiptId
        /\ Numbered /\ ~Numbered'
        /\ LoggedIn => CommandRecorded
    BY <2>2, FrameMade
  <2>4. FrameOf(command, f) /\ Joining /\ Subscribes(f, subscriptionId)
    BY <2>1, <2>3 DEF FrameOf, Joining, Subscribes
  <2>5. LoggedIn => FrameRecorded(f)'
    <3>1. LoggedIn => number = receiptId /\ receiptId > 0 /\ receiptId # logoutReceiptId
                      /\ subscriptionId > 0 /\ joinReciepts[receiptId] = command.channel
      BY <2>3 DEF CommandRecorded
    <3>2. receiptId' = receiptId /\ receiptId' <= receiptId'
      BY <1>0, <2>3, IdsAreNumbers
    <3> QED
      BY <2>1, <2>3, <3>1, <3>2 DEF FrameRecorded, Issued, maps
  <2>6. \A owner : LoggedIn /\ Owned(owner) => FrameOwned(owner, f)'
    BY <2>1, <2>3, <2>4 DEF FrameOwned, Owned, OwnedIds
  <2> QED
    BY <2>3, <2>4, <2>5, <2>6, FrameAdded
<1>2. CASE MakeFrame("exit", Unsubscribe(subId, receiptId))
  <2>0. PICK f : f = Unsubscribe(subId, receiptId)
    OBVIOUS
  <2>1. f.type = "UNSUBSCRIBE" /\ f.id = subId /\ f.receipt = receiptId
    BY <2>0 DEF Unsubscribe
  <2>2. MakeFrame("exit", f)
    BY <1>2, <2>0
  <2>3. /\ UNCHANGED <<command, serverThread, handler, messageQueue, userLoggedIn,
                       receiptId, subscriptionId, logoutReceiptId, maps, wire, server>>
        /\ mainAt = "frame" /\ mainAt' = "push" /\ command.verb = "exit"
        /\ output' = Append(output, f)
        /\ receiptId' >= receiptId
        /\ Numbered /\ ~Numbered'
        /\ LoggedIn => CommandRecorded
    BY <2>2, FrameMade
  <2>4. FrameOf(command, f) /\ ~Joining
    BY <2>1, <2>3 DEF FrameOf, Joining
  <2>7. command.channel \in Channels /\ None \notin Channels
    BY <2>3, ClientAssumption DEF TypeInv, ChannelNamed
  <2>8. LoggedIn => receiptId > 0 /\ receiptId # logoutReceiptId
                    /\ joinReciepts[receiptId] = None /\ exitReciepts[receiptId] = command.channel
    BY <2>3 DEF CommandRecorded
  <2>5. LoggedIn => FrameRecorded(f)'
    <3>2. receiptId' = receiptId /\ receiptId' <= receiptId'
      BY <1>0, <2>3, IdsAreNumbers
    <3> QED
      BY <2>1, <2>3, <2>7, <2>8, <3>2 DEF FrameRecorded, Issued, maps
  <2>6. \A owner : LoggedIn /\ Owned(owner) => FrameOwned(owner, f)'
    BY <2>1, <2>3, <2>8 DEF FrameOwned, Owned, OwnedIds, maps
  <2> QED
    BY <2>3, <2>4, <2>5, <2>6, FrameAdded
<1>3. CASE MakeFrame("logout", Disconnect(receiptId))
  <2>0. PICK f : f = Disconnect(receiptId)
    OBVIOUS
  <2>1. f.type = "DISCONNECT" /\ f.receipt = receiptId
    BY <2>0 DEF Disconnect
  <2>2. MakeFrame("logout", f)
    BY <1>3, <2>0
  <2>3. /\ UNCHANGED <<command, serverThread, handler, messageQueue, userLoggedIn,
                       receiptId, subscriptionId, logoutReceiptId, maps, wire, server>>
        /\ mainAt = "frame" /\ mainAt' = "push" /\ command.verb = "logout"
        /\ output' = Append(output, f)
        /\ receiptId' >= receiptId
        /\ Numbered /\ ~Numbered'
        /\ LoggedIn => CommandRecorded
    BY <2>2, FrameMade
  <2>4. FrameOf(command, f) /\ ~Joining
    BY <2>1, <2>3 DEF FrameOf, Joining
  <2>5. LoggedIn => FrameRecorded(f)'
    <3>1. LoggedIn => receiptId > 0 /\ joinReciepts[receiptId] = None
                      /\ exitReciepts[receiptId] = None
      BY <2>3 DEF CommandRecorded
    <3>2. receiptId' = receiptId /\ receiptId' <= receiptId'
      BY <1>0, <2>3, IdsAreNumbers
    <3> QED
      BY <2>1, <2>3, <3>1, <3>2 DEF FrameRecorded, Issued, maps
  <2>6. \A owner : LoggedIn /\ Owned(owner) => FrameOwned(owner, f)'
    BY <2>1 DEF FrameOwned
  <2> QED
    BY <2>3, <2>4, <2>5, <2>6, FrameAdded
<1> QED
  BY <1>1, <1>2, <1>3 DEF ReturnFrame

\* The frames of a report ask for no receipt.
LEMMA EventHandled ==
    ASSUME TypeInv, TypeInv', IdsExact, HandleEvent
    PROVE  IdsExact'
<1>1. PICK f : f = SendTo(command.channel)
  OBVIOUS
<1>2. /\ UNCHANGED <<command, serverThread, handler, messageQueue, userLoggedIn,
                     subscriptionId, logoutReceiptId, maps, wire, server>>
      /\ mainAt = "store" /\ mainAt' = "input" /\ command.verb = "report"
      /\ output' = Append(output, f) /\ receiptId' = number
  BY <1>1 DEF HandleEvent, Input, flags
<1>3. f.type = "SEND"
  BY <1>1 DEF SendTo
<1>4. receiptId' >= receiptId
  <2>1. receiptId' = number /\ number > receiptId /\ number \in Nat /\ receiptId \in Nat
    BY <1>2, IdsAreNumbers DEF IdsExact, Control, IdsGiven
  <2> QED
    BY ONLY <2>1
<1>5. FrameOf(command, f) /\ ~Joining
  BY <1>2, <1>3 DEF FrameOf, Joining
<1>6. LoggedIn => FrameRecorded(f)'
  BY <1>3 DEF FrameRecorded
<1>7. \A owner : LoggedIn /\ Owned(owner) => FrameOwned(owner, f)'
  BY <1>3 DEF FrameOwned
<1> QED
  BY <1>2, <1>4, <1>5, <1>6, <1>7, FrameAdded

\* A report is done; if it was overtaken by resetProtocol without having made a frame,
\* nothing is left of it.
LEMMA ReportDone ==
    ASSUME TypeInv, TypeInv', IdsExact, NoMoreEvents
    PROVE  IdsExact'
<1>1. /\ UNCHANGED <<command, number, subId, output, serverThread, handler, messageQueue,
                     userLoggedIn, ids, maps, wire, server>>
      /\ mainAt = "input" /\ mainAt' = "push" /\ command.verb = "report"
  BY DEF NoMoreEvents, Input, flags
<1> USE DEF ids, maps, wire, server
<1>2. (Live' <=> Live) /\ (Vacant' <=> Vacant) /\ (LoggedIn' <=> LoggedIn)
  BY <1>1 DEF Live, Vacant, LoggedIn
<1>3. Way' = Way /\ Answers' = Answers
  BY <1>1, <1>2, WayKept
<1>4. /\ Making /\ ~Making' /\ ~Numbered /\ ~Numbered' /\ ~Joining /\ ~Joining'
  BY <1>1 DEF Making, Numbered, Joining
<1>5. /\ LogoutUnreset' <=> LogoutUnreset
      /\ EventsUnreset' <=> EventsUnreset
      /\ JoinsUnreset' <=> JoinsUnreset
      /\ ExitsUnreset' <=> ExitsUnreset
  BY <1>1, StagesKept
<1>6. OutputOfCommand'
  BY <1>1 DEF IdsExact, Control, OutputOfCommand, FrameOf
<1>7. QueueEmpty' /\ MakesOne' /\ LoggedOut' /\ IdsGiven'
  <2>1. QueueEmpty' /\ MakesOne' /\ LoggedOut'
    BY <1>1, <1>2, <1>4 DEF IdsExact, Control, QueueEmpty, MakesOne, LoggedOut
  <2>2. IdsGiven'
    BY <1>1, <1>5 DEF IdsExact, Control, IdsGiven
  <2> QED
    BY <2>1, <2>2
<1>8. ConnectedLast'
  BY <1>1, <1>2, <1>3 DEF IdsExact, AnsweredBefore, ConnectedLast
<1>9. LogoutFirst'
  BY <1>1, <1>2, <1>3, <1>5 DEF IdsExact, AnsweredBefore, LogoutFirst
<1>10. OneLeft'
  <2> SUFFICES ASSUME ~LoggedIn' PROVE \E left \in Commands : Fits(left)'
    BY DEF OneLeft, Commands
  <2>1. PICK left \in Commands : Fits(left)
    BY <1>2 DEF IdsExact, OneLeft
  <2>2. left = command
    BY <1>4, <2>1 DEF Fits, LeftCommand
  <2>3. CASE serverThread \in Resetting /\ output = <<>>
    <3>1. PICK none \in Commands : none = NoCommand
      BY DEF Commands, NoCommand
    <3>2. none.verb = "none"
      BY <3>1 DEF NoCommand
    <3>3. ~Live' /\ ~Live
      BY <1>2, <2>3 DEF Live
    <3>4. messageQueue = <<>>
      BY <2>3 DEF IdsExact, Control, QueueEmpty
    <3>5. Way' = <<>>
      <4>1. Way = <<>> \o <<>>
        BY <2>3, <3>3, <3>4, VacantWay
      <4> QED
        BY <1>3, <4>1
    <3>6. LeftOnWay(none)'
      <4>1. \A i \in DOMAIN <<>> : FALSE
        OBVIOUS
      <4> QED
        BY <3>5, <4>1 DEF LeftOnWay
    <3>7. LeftInAnswers(none)'
      <4>1. Answers' = <<>>
        BY <3>3 DEF Answers
      <4>2. \A i \in DOMAIN <<>> : FALSE
        OBVIOUS
      <4> QED
        BY <3>3, <4>1, <4>2 DEF LeftInAnswers
    <3>8. LeftCommand(none)'
      BY <1>4, <3>2 DEF LeftCommand
    <3>9. LeftInRecords(none)'
      BY <1>1, <1>5, <2>1, <2>2 DEF Fits, LeftInRecords
    <3> QED
      BY <3>6, <3>7, <3>8, <3>9 DEF Fits
  <2>4. CASE ~(serverThread \in Resetting /\ output = <<>>)
    <3>1. LeftOnWay(left)' /\ LeftInAnswers(left)'
      BY <1>1, <1>2, <1>3, <2>1 DEF Fits, LeftOnWay, LeftInAnswers, FrameOf, AnswerTo
    <3>2. LeftCommand(left)'
      BY <1>1, <1>4, <2>4 DEF LeftCommand
    <3>3. LeftInRecords(left)'
      BY <1>1, <1>5, <2>1 DEF Fits, LeftInRecords
    <3> QED
      BY <3>1, <3>2, <3>3 DEF Fits
  <2> QED
    BY <2>3, <2>4
<1>11. SessionExact'
  <2> SUFFICES ASSUME LoggedIn'
               PROVE  WayRecorded' /\ AnswersRecorded' /\ CommandRecorded' /\ IdsOwned'
    BY DEF SessionExact
  <2>1. WayRecorded /\ AnswersRecorded /\ CommandRecorded /\ IdsOwned
    BY <1>2 DEF IdsExact, SessionExact
  <2>2. WayRecorded' /\ AnswersRecorded'
    <3>1. \A r : Issued(r) => Issued(r)'
      BY <1>1, <1>4 DEF Issued
    <3> QED
      BY <1>1, <1>3, <2>1, <3>1, RecordsKept
  <2>3. CommandRecorded'
    BY <1>1, <1>4, <2>1 DEF CommandRecorded
  <2>4. PICK owner \in [SubIds -> Channels \cup {None}] : Owned(owner) /\ BrokerAgrees(owner)
    BY <2>1 DEF IdsOwned
  <2>5. (\A i \in DOMAIN Way' : FrameOwned(owner, Way[i])') /\ BrokerAgrees(owner)'
    BY <1>1, <1>3, <1>4, <2>1, <2>4, OwnersKept
  <2>6. OwnedIds(owner)'
    BY <1>1, <1>4, <2>4 DEF Owned, OwnedIds
  <2>7. Owned(owner)'
    BY <2>5, <2>6 DEF Owned
  <2> QED
    BY <2>2, <2>3, <2>4, <2>5, <2>7 DEF IdsOwned, SubIds
<1> QED
  BY <1>6, <1>7, <1>8, <1>9, <1>10, <1>11 DEF IdsExact, Control, AnsweredBefore

\* A login's CONNECT is the first frame of a new connection.
LEMMA ConnectAdded ==
    ASSUME TypeInv, TypeInv', IdsExact, HandleLogin
    PROVE  IdsExact'
<1>1. /\ UNCHANGED <<command, number, subId, handler, messageQueue, subscriptionId,
                     logoutReceiptId, userLoggedIn, maps, wire, server>>
      /\ mainAt = "handle login" /\ mainAt' = "push"
      /\ receiptId' = receiptId + 1
      /\ output' = <<Connect(receiptId + 1)>>
      /\ serverThread' = "loop"
  BY DEF HandleLogin, flags
<1> USE DEF maps, wire, server
<1>0. PICK f : f = Connect(receiptId + 1)
  OBVIOUS
<1>2. /\ serverThread = "none" /\ toServer = <<>> /\ toClient = <<>> /\ NothingSubscribed
      /\ Vacant /\ ~Live /\ ~userLoggedIn
  BY <1>1 DEF IdsExact, Control, MakesOne, Vacant, Live, LoggedOut
<1>3. output = <<>> /\ ~Making /\ ~Making' /\ command.verb = "login" /\ f.type = "CONNECT"
  BY <1>0, <1>1 DEF IdsExact, Control, OutputOfCommand, Making, Connect, TypeInv, Places
<1>4. output' = Append(output, f)
  <2>1. output = <<>> /\ output' = <<f>>
    BY <1>0, <1>1, <1>3
  <2> QED
    BY ONLY <2>1
<1>5. /\ Len(Way') = Len(Way) + 1
      /\ \A i \in 1..Len(Way) : Way'[i] = Way[i]
      /\ Way'[Len(Way) + 1] = f
  BY <1>1, <1>2, <1>4, WayGrows
<1>6. /\ DOMAIN Way = 1..Len(Way) /\ Len(Way) \in Nat
      /\ DOMAIN Way' = 1..Len(Way') /\ Len(Way') \in Nat
  BY WayTyped, WayTypedNext
<1>7. /\ \A j \in DOMAIN Way' :
            \/ j \in DOMAIN Way /\ Way'[j] = Way[j]
            \/ j = Len(Way) + 1 /\ Way'[j] = f
      /\ \A j \in DOMAIN Way : j \in DOMAIN Way' /\ Way'[j] = Way[j] /\ j < Len(Way) + 1
  BY <1>5, <1>6
<1>8. Answers' = <<>> /\ \A i \in DOMAIN Answers' : FALSE
  <2>1. Answers' = <<>>
    BY <1>1, <1>2 DEF Answers
  <2>2. \A i \in DOMAIN <<>> : FALSE
    OBVIOUS
  <2> QED
    BY ONLY <2>1, <2>2
<1>9. OutputOfCommand'
  <2>0. output' = <<f>>
    BY <1>0, <1>1
  <2>1. (\A i \in DOMAIN output' : output'[i] = f) /\ ~(Len(output') > 1)
    BY ONLY <2>0
  <2> QED
    BY <1>1, <1>3, <2>1 DEF OutputOfCommand, FrameOf
<1>10. QueueEmpty' /\ MakesOne' /\ LoggedOut'
  BY <1>1, <1>2, <1>3 DEF QueueEmpty, MakesOne, LoggedOut
<1>11. /\ LogoutUnreset' <=> LogoutUnreset
       /\ EventsUnreset' <=> EventsUnreset
       /\ JoinsUnreset' <=> JoinsUnreset
       /\ ExitsUnreset' <=> ExitsUnreset
  BY <1>1, <1>2, StagesKept
<1>12. /\ \A r \in Receipts : r > receiptId' => r > receiptId
       /\ logoutReceiptId > receiptId' => logoutReceiptId > receiptId
  <2>1. receiptId' = receiptId + 1 /\ receiptId \in Nat
    BY <1>1, IdsAreNumbers
  <2>2. \A r \in Nat : r > receiptId' => r > receiptId
    BY ONLY <2>1
  <2> QED
    BY <2>2, IdsAreNumbers
<1>13. IdsGiven'
  BY <1>1, <1>11, <1>12 DEF IdsExact, Control, IdsGiven
<1>14. ConnectedLast'
  BY <1>8 DEF ConnectedLast
<1>15. LogoutFirst'
  <2> SUFFICES ASSUME ~LogoutUnreset, logoutReceiptId > receiptId
               PROVE  \E i \in DOMAIN Way' :
                         /\ Way'[i].type = "DISCONNECT"
                         /\ \A j \in DOMAIN Way' : Way'[j].type = "CONNECT" => i < j
    BY <1>1, <1>8, <1>11, <1>12 DEF LogoutFirst
  <2>1. PICK i \in DOMAIN Way :
           Way[i].type = "DISCONNECT" /\ \A j \in DOMAIN Way : Way[j].type = "CONNECT" => i < j
    BY <1>1, <1>2 DEF IdsExact, AnsweredBefore, LogoutFirst, LoggedIn
  <2>2. \A j \in DOMAIN Way' : Way'[j].type = "CONNECT" => i < j
    BY <1>7, <2>1
  <2> QED
    BY <1>7, <2>1, <2>2
<1>16. OneLeft'
  <2>1. PICK left \in Commands : Fits(left)
    BY <1>2 DEF IdsExact, OneLeft, LoggedIn
  <2>2. LeftOnWay(left)'
    <3>1. \A i \in DOMAIN Way' : Way'[i].type = "CONNECT" \/ FrameOf(left, Way'[i])
      BY <1>3, <1>7, <2>1 DEF Fits, LeftOnWay
    <3>2. ASSUME NEW i \in DOMAIN Way', NEW j \in DOMAIN Way', i < j, Way'[i].type = "CONNECT"
          PROVE  Way'[j].type = "CONNECT"
      <4>1. CASE j = Len(Way) + 1
        BY <1>3, <1>5, <4>1
      <4>2. CASE j \in DOMAIN Way
        <5>1. i \in DOMAIN Way
          BY <1>6, <3>2, <4>2
        <5> QED
          BY <1>5, <1>6, <2>1, <3>2, <4>2, <5>1 DEF Fits, LeftOnWay
      <4> QED
        BY <1>7, <4>1, <4>2
    <3> QED
      BY <3>1, <3>2 DEF LeftOnWay, FrameOf
  <2>3. LeftInAnswers(left)'
    BY <1>1, <1>2, <1>8 DEF LeftInAnswers, NothingSubscribed
  <2>4. LeftCommand(left)'
    BY <1>1, <1>3 DEF LeftCommand
  <2>5. LeftInRecords(left)'
    BY <1>1, <1>11, <2>1 DEF Fits, LeftInRecords
  <2> QED
    BY <2>1, <2>2, <2>3, <2>4, <2>5 DEF OneLeft, Fits, Commands
<1>17. SessionExact'
  BY <1>1, <1>2 DEF SessionExact, LoggedIn
<1> QED
  BY <1>9, <1>10, <1>13, <1>14, <1>15, <1>16, <1>17 DEF IdsExact, Control, AnsweredBefore

\* Every step of the main thread and of the user.
LEMMA MainKeepsIds ==
    ASSUME TypeInv, TypeInv', Inv, isRunning, IdsExact, MainThread \/ User
    PROVE  IdsExact'
<1>1. CASE Top \/ RefuseLogin \/ AcceptLogin \/ End \/ JoinAtEnd \/ ReadLineInVain \/ ReadEmptyLine
  BY <1>1, MainWaits
<1>2. ASSUME NEW verb \in {"login", "join", "exit", "report", "logout"},
             NEW ch \in Channels \cup {None}, ReadLine(verb, ch)
      PROVE  IdsExact'
  BY <1>2, LoginRead, CommandRead
<1>3. CASE MakeConnection \/ HandleLogin \/ Push
  BY <1>3, ConnectionMade, ConnectAdded, FramePushed
<1>4. CASE LookUpSubscription \/ ReadReceiptId \/ StoreReceiptId \/ ReadSubscriptionId
           \/ StoreSubscriptionId \/ RecordSubscription
  BY <1>4, SubscriptionLookedUp, ReceiptIdRead, ReceiptIdStored, SubscriptionIdRead,
     SubscriptionIdStored, SubscriptionRecorded
<1>5. CASE RecordJoin \/ RecordExit \/ ReadLogout \/ StoreLogout \/ ReadReceiptOfFrame
  BY <1>5, JoinRecorded, ExitRecorded, LogoutRead, LogoutStored, ReceiptOfFrameRead
<1>6. CASE ReturnFrame \/ HandleEvent \/ NoMoreEvents
  BY <1>6, FrameReturned, EventHandled, ReportDone
<1> QED
  BY <1>1, <1>2, <1>3, <1>4, <1>5, <1>6 DEF MainThread, User

-----------------------------------------------------------------------------
(* The steps of the server thread.                                          *)

\* Steps of the server thread that handle no frame and reset nothing.
LEMMA ServerThreadWaits ==
    ASSUME TypeInv, TypeInv', Inv, isRunning, ~gotError, IdsExact,
           \/ Loop \/ SendMessage("drain") \/ SendMessage("write") \/ WriteBlocks
           \/ NothingAvailable \/ GetPart \/ GetMessageFails \/ Close \/ Delete
    PROVE  IdsExact'
<1>0. /\ UNCHANGED <<mainVars, protocol, server>>
      /\ \/ /\ UNCHANGED <<toServer, messageQueue, toClient, handler>>
            /\ \/ serverThread = "loop" /\ handler = "open" /\ serverThread' = "drain"
               \/ serverThread = "loop" /\ handler # "open" /\ serverThread' = "done"
               \/ /\ serverThread \in {"drain", "receive", "rest"} /\ handler = "open"
                  /\ \/ serverThread' \in {"loop", "write"}
                     \/ serverThread' = "rest" /\ serverThread = "receive"
         \/ SendMessage("drain") \/ SendMessage("write")
         \/ /\ serverThread = "close" /\ serverThread' = "delete"
            /\ UNCHANGED messageQueue
         \/ /\ serverThread = "delete" /\ serverThread' = "loop" /\ handler' = "freed"
            /\ UNCHANGED messageQueue
  <2>1. CASE Loop
    BY <2>1 DEF Loop, wire
  <2>2. CASE WriteBlocks \/ NothingAvailable \/ GetPart \/ GetMessageFails
    BY <2>2 DEF WriteBlocks, NothingAvailable, GetPart, GetMessageFails, wire, Inv, HandlerKept
  <2>3. CASE SendMessage("drain") \/ SendMessage("write")
    BY <2>3 DEF SendMessage
  <2>4. CASE Close \/ Delete
    BY <2>4 DEF Close, Delete
  <2> QED
    BY <2>1, <2>2, <2>3, <2>4
<1>1. CASE SendMessage("drain") \/ SendMessage("write")
  <2>1. /\ Way' = Way /\ Answers' = Answers
        /\ Live /\ Live' /\ serverThread' \in {"drain", "receive"}
    BY <1>1, SendKeepsWay
  <2>2. /\ UNCHANGED <<receiptId, subscriptionId, logoutReceiptId, userLoggedIn, maps>>
        /\ UNCHANGED <<session, subIdToDestination>> /\ MainStill
    BY <1>0 DEF protocol, ids, flags, server, MainStill
  <2>3. serverThread \in {"drain", "write"} /\ (serverThread' = "receive" => messageQueue' = <<>>)
    BY <1>1 DEF SendMessage
  <2>4. OneLeft' /\ AnsweredBefore' /\ SessionExact' /\ IdsGiven'
    <3>1. (Live' <=> Live) /\ (Vacant' <=> Vacant)
      BY <2>1 DEF Vacant
    <3>2. serverThread \notin Resetting /\ serverThread' \notin Resetting
      BY <2>1, <2>3
    <3> QED
      BY <2>1, <2>2, <3>1, <3>2, StillSame
  <2>5. QueueEmpty' /\ LoggedOut'
    BY <2>1, <2>3 DEF QueueEmpty, LoggedOut, Vacant
  <2>6. MakesOne' /\ OutputOfCommand'
    BY <1>0, <2>1, <2>2, <2>3
       DEF IdsExact, Control, MakesOne, Making, mainVars, Vacant, OutputOfCommand, FrameOf
  <2> QED
    BY <2>4, <2>5, <2>6 DEF IdsExact, Control
<1>2. CASE ~SendMessage("drain") /\ ~SendMessage("write")
  <2>1. /\ (Live' <=> Live) /\ (Vacant' <=> Vacant)
        /\ serverThread \notin Resetting \cup {"none"} /\ serverThread' \notin Resetting
        /\ messageQueue' = messageQueue /\ output' = output
    BY <1>0, <1>2 DEF Live, Vacant, mainVars
  <2>2. Way' = Way /\ Answers' = Answers
    <3>1. CASE UNCHANGED <<toServer, messageQueue, toClient>>
      BY <2>1, <3>1, WayKept
    <3>2. CASE ~Live
      BY <2>1, <3>2, VacantWayKept
    <3> QED
      BY <1>0, <1>2, <3>1, <3>2 DEF Live
  <2>3. /\ UNCHANGED <<receiptId, subscriptionId, logoutReceiptId, userLoggedIn, maps>>
        /\ UNCHANGED <<session, subIdToDestination>> /\ MainStill
    BY <1>0 DEF protocol, ids, flags, server, MainStill
  <2>4. OneLeft' /\ AnsweredBefore' /\ SessionExact' /\ IdsGiven'
    BY <2>1, <2>2, <2>3, StillSame
  <2>5. QueueEmpty' /\ LoggedOut'
    BY <1>0, <1>2, <2>1, <2>3 DEF IdsExact, Control, QueueEmpty, LoggedOut
  <2>6. MakesOne' /\ OutputOfCommand'
    BY <1>0, <2>1, <2>3
       DEF IdsExact, Control, MakesOne, Making, mainVars, OutputOfCommand, FrameOf
  <2> QED
    BY <2>4, <2>5, <2>6 DEF IdsExact, Control
<1> QED
  BY <1>1, <1>2

\* What a store of resetProtocol does to the numbers and the maps.
LEMMA ResetStores ==
    ASSUME ResetProtocol
    PROVE  /\ UNCHANGED <<mainVars, handler, messageQueue>>
           /\ serverThread \in Resetting /\ serverThread' \in Resetting \cup {"close"}
           /\ serverThread' \in {"eventsMap", "joinReciepts", "exitReciepts", "close"} =>
                 \/ ~userLoggedIn'
                 \/ /\ serverThread \in {"eventsMap", "joinReciepts", "exitReciepts"}
                    /\ userLoggedIn' = userLoggedIn
           /\ \/ receiptId' = receiptId
              \/ receiptId' = 0 /\ LogoutUnreset'
           /\ subscriptionId' = subscriptionId \/ (subscriptionId' = 0 /\ EventsUnreset')
           /\ \/ LogoutUnreset'
              \/ logoutReceiptId' = 0
              \/ ~LogoutUnreset /\ logoutReceiptId' = logoutReceiptId
           /\ \/ EventsUnreset'
              \/ \A ch \in Channels : eventsMap'[ch] = 0
              \/ ~EventsUnreset /\ eventsMap' = eventsMap
           /\ \/ JoinsUnreset'
              \/ \A r \in Receipts : joinReciepts'[r] = None
              \/ ~JoinsUnreset /\ joinReciepts' = joinReciepts
           /\ \/ ExitsUnreset'
              \/ \A r \in Receipts : exitReciepts'[r] = None
              \/ ~ExitsUnreset /\ exitReciepts' = exitReciepts
<1> USE DEF Reset, LogoutUnreset, EventsUnreset, JoinsUnreset, ExitsUnreset, ids, flags, maps
<1>1. CASE ResetReceiptId
  BY <1>1 DEF ResetReceiptId
<1>2. CASE ResetSubscriptionId
  BY <1>2 DEF ResetSubscriptionId
<1>3. CASE ResetLogoutReceiptId
  BY <1>3 DEF ResetLogoutReceiptId
<1>4. CASE ResetFlags
  BY <1>4 DEF ResetFlags
<1>5. CASE ClearEventsMap
  BY <1>5 DEF ClearEventsMap
<1>6. CASE ClearJoinReciepts
  BY <1>6 DEF ClearJoinReciepts
<1>7. CASE ClearExitReciepts
  BY <1>7 DEF ClearExitReciepts
<1> QED
  BY <1>1, <1>2, <1>3, <1>4, <1>5, <1>6, <1>7 DEF ResetProtocol

\* What is left when resetProtocol goes on is what was left before, less what is reset.
LEMMA ProtocolReset ==
    ASSUME TypeInv, TypeInv', IdsExact, ResetProtocol
    PROVE  IdsExact'
<1>1. /\ UNCHANGED <<mainAt, command, number, subId, output, messageQueue, handler>>
      /\ serverThread \in Resetting /\ serverThread' \in Resetting \cup {"close"}
  BY ResetStores DEF mainVars
<1>2. /\ ~Live /\ ~Live' /\ ~LoggedIn /\ ~LoggedIn'
      /\ messageQueue = <<>>
  BY <1>1 DEF Live, LoggedIn, IdsExact, Control, QueueEmpty
<1>3. Way' = Way /\ Answers' = Answers /\ Answers' = <<>>
  BY <1>1, <1>2, VacantWay, VacantWayKept
<1>4. QueueEmpty' /\ OutputOfCommand'
  BY <1>1, <1>2 DEF IdsExact, Control, QueueEmpty, OutputOfCommand, FrameOf
<1>5. MakesOne'
  BY <1>1, <1>2 DEF IdsExact, Control, MakesOne, Making
<1>6. LoggedOut'
  BY <1>1, ResetStores DEF IdsExact, Control, LoggedOut, Vacant
<1>7. IdsGiven'
  <2>0. subscriptionId' \in SubIds
    BY DEF TypeInv, IdTypes
  <2>1. IdsGiven /\ receiptId \in Nat /\ subscriptionId \in Nat /\ subscriptionId' \in Nat
    BY <2>0, IdsAreNumbers DEF IdsExact, Control
  <2>2. ~JoinsUnreset' => \A r \in Receipts : r > receiptId' => joinReciepts'[r] = None
    BY <2>1, ResetStores DEF IdsGiven, JoinsUnreset, EventsUnreset
  <2>3. ~ExitsUnreset' => \A r \in Receipts : r > receiptId' => exitReciepts'[r] = None
    BY <2>1, ResetStores DEF IdsGiven, ExitsUnreset, JoinsUnreset, EventsUnreset
  <2>4. ~EventsUnreset' => \A ch \in Channels : eventsMap'[ch] <= subscriptionId'
    <3>1. CASE \A ch \in Channels : eventsMap'[ch] = 0
      <4>1. 0 <= subscriptionId'
        BY ONLY <2>1
      <4> QED
        BY ONLY <3>1, <4>1
    <3>2. CASE ~EventsUnreset /\ eventsMap' = eventsMap
      <4>1. \A ch \in Channels : eventsMap[ch] <= subscriptionId
        BY <2>1, <3>2 DEF IdsGiven
      <4>2. CASE EventsUnreset'
        BY <4>2
      <4>3. CASE ~EventsUnreset'
        <5>1. subscriptionId' = subscriptionId
          BY <4>3, ResetStores
        <5> QED
          BY ONLY <3>2, <4>1, <5>1
      <4> QED
        BY <4>2, <4>3
    <3> QED
      BY <3>1, <3>2, ResetStores
  <2>5. mainAt' = "store" => number' > receiptId'
    <3>1. mainAt' = "store" => number > receiptId /\ number \in Nat
      BY <1>1, <2>1, IdsAreNumbers DEF IdsGiven
    <3>2. receiptId' \in {0, receiptId} /\ number' = number
      BY <1>1, ResetStores
    <3> QED
      BY ONLY <2>1, <3>1, <3>2
  <2>6. mainAt' = "store subscription" => number' > subscriptionId'
    <3>1. mainAt' = "store subscription" => number > subscriptionId /\ number \in Nat
      BY <1>1, <2>1, IdsAreNumbers DEF IdsGiven
    <3>2. subscriptionId' \in {0, subscriptionId} /\ number' = number
      BY <1>1, ResetStores
    <3>3. subscriptionId' = 0 \/ subscriptionId' = subscriptionId
      BY <3>2
    <3>4. CASE subscriptionId' = 0
      <4>1. subscriptionId \in Nat
        BY <2>1
      <4>2. number \in Nat /\ number > subscriptionId => number > 0
        BY ONLY <4>1
      <4> QED
        BY ONLY <3>1, <3>2, <3>4, <4>2
    <3>5. CASE subscriptionId' = subscriptionId
      BY ONLY <3>1, <3>2, <3>5
    <3> QED
      BY <3>3, <3>4, <3>5
  <2> QED
    BY <2>2, <2>3, <2>4, <2>5, <2>6 DEF IdsGiven
<1>8. AnsweredBefore'
  <2>1. ConnectedLast'
    BY <1>2 DEF ConnectedLast
  <2>2. LogoutFirst'
    <3> SUFFICES ASSUME ~LogoutUnreset', logoutReceiptId' > receiptId'
                 PROVE  LogoutFirst'
      BY DEF LogoutFirst
    <3>1. receiptId' = receiptId
      BY ResetStores
    <3>2. logoutReceiptId' # 0
      <4>1. receiptId' \in Nat
        BY <3>1, IdsAreNumbers
      <4> QED
        BY <4>1
    <3>3. ~LogoutUnreset /\ logoutReceiptId > receiptId
      BY <3>1, <3>2, ResetStores
    <3> QED
      BY <1>1, <1>2, <1>3, <3>3 DEF IdsExact, AnsweredBefore, LogoutFirst
  <2> QED
    BY <2>1, <2>2 DEF AnsweredBefore
<1>9. OneLeft'
  <2>1. PICK left \in Commands : Fits(left)
    BY <1>2 DEF IdsExact, OneLeft
  <2>2. LeftOnWay(left)' /\ LeftInAnswers(left)'
    BY <1>2, <1>3, <2>1 DEF Fits, LeftOnWay, LeftInAnswers, FrameOf, AnswerTo
  <2>3. LeftCommand(left)'
    BY <1>1, <2>1 DEF Fits, LeftCommand, Making
  <2>4. LeftInRecords(left)'
    BY <2>1, ResetStores DEF Fits, LeftInRecords
  <2> QED
    BY <2>1, <2>2, <2>3, <2>4 DEF OneLeft, Fits, Commands
<1>10. SessionExact'
  BY <1>2 DEF SessionExact
<1> QED
  BY <1>4, <1>5, <1>6, <1>7, <1>8, <1>9, <1>10 DEF IdsExact, Control

\* The RECEIPT of the logout: what is left of the session is what the main thread is at.
LEMMA SessionEnded ==
    ASSUME TypeInv, TypeInv', IdsExact, Live, messageQueue = <<>>,
           UNCHANGED <<mainVars, messageQueue, handler, ids, maps>>,
           serverThread' = "receiptId"
    PROVE  IdsExact'
<1>1. /\ UNCHANGED <<mainAt, command, number, subId, output>>
      /\ UNCHANGED <<receiptId, subscriptionId, logoutReceiptId, eventsMap, joinReciepts,
                     exitReciepts>>
  BY DEF mainVars, ids, maps
<1>2. /\ ~Live' /\ ~Vacant' /\ ~LoggedIn'
      /\ LogoutUnreset' /\ EventsUnreset' /\ JoinsUnreset' /\ ExitsUnreset'
  BY DEF Live, Vacant, LoggedIn, LogoutUnreset, EventsUnreset, JoinsUnreset, ExitsUnreset
<1>3. mainAt # "handle login"
  BY DEF IdsExact, Control, MakesOne, Live
<1>4. QueueEmpty' /\ OutputOfCommand' /\ MakesOne' /\ LoggedOut'
  BY <1>1, <1>2, <1>3
     DEF IdsExact, Control, QueueEmpty, OutputOfCommand, FrameOf, MakesOne, LoggedOut, Making
<1>5. IdsGiven'
  BY <1>1, <1>2 DEF IdsExact, Control, IdsGiven
<1>6. AnsweredBefore' /\ SessionExact'
  BY <1>2 DEF AnsweredBefore, ConnectedLast, LogoutFirst, SessionExact
<1>7. Way' = output /\ Answers' = <<>>
  <2>1. Way' = (<<>> \o messageQueue') \o output' /\ Answers' = <<>>
    BY <1>2 DEF Way, Answers
  <2>2. output \in Seq(ClientFrame)
    BY WayTyped
  <2>3. (<<>> \o <<>>) \o output = output
    BY ONLY <2>2
  <2> QED
    BY <1>1, <2>1, <2>3
<1>8. \A i \in DOMAIN Way' : FrameOf(command, Way'[i])
  BY <1>7 DEF IdsExact, Control, OutputOfCommand
<1>9. OneLeft'
  <2>1. command \in Commands /\ NoCommand \in Commands
    BY DEF TypeInv, ControlTypes, Commands, NoCommand
  <2>2. PICK left \in Commands : left = IF Making \/ output # <<>> THEN command ELSE NoCommand
    BY <2>1
  <2>3. \A i \in DOMAIN Way' : FrameOf(left, Way'[i])
    <3>1. CASE output = <<>>
      <4>1. \A i \in DOMAIN <<>> : FALSE
        OBVIOUS
      <4>2. \A i \in DOMAIN Way' : FALSE
        BY ONLY <1>7, <3>1, <4>1
      <4> QED
        BY <4>2
    <3>2. CASE output # <<>>
      BY <1>8, <2>2, <3>2
    <3> QED
      BY <3>1, <3>2
  <2>4. LeftOnWay(left)'
    <3>1. ASSUME NEW i \in DOMAIN Way', NEW j \in DOMAIN Way', Way'[i].type = "CONNECT"
          PROVE  Way'[j].type = "CONNECT"
      BY <2>3, <3>1 DEF FrameOf
    <3> QED
      BY <2>3, <3>1 DEF LeftOnWay, FrameOf
  <2>5. LeftInAnswers(left)'
    <3>1. \A i \in DOMAIN Answers' : FALSE
      <4>1. \A i \in DOMAIN <<>> : FALSE
        OBVIOUS
      <4> QED
        BY ONLY <1>7, <4>1
    <3> QED
      BY <1>2, <3>1 DEF LeftInAnswers
  <2>6. LeftCommand(left)'
    BY <1>1, <2>2 DEF LeftCommand, Making, NoCommand
  <2>7. LeftInRecords(left)'
    BY <1>2 DEF LeftInRecords
  <2> QED
    BY <2>4, <2>5, <2>6, <2>7 DEF OneLeft, Fits, Commands
<1> QED
  BY <1>4, <1>5, <1>6, <1>9 DEF IdsExact, Control

\* The CONNECTED finds nothing left but records, of one channel at most.
LEMMA SessionBegun ==
    ASSUME TypeInv, TypeInv', IdsExact, Live, Live', ~userLoggedIn, ~LogoutUnreset, ~EventsUnreset,
           UNCHANGED <<mainVars, ids, maps, session, subIdToDestination>>,
           Way' = Way,
           1 \in DOMAIN Answers, Answers[1].type = "CONNECTED",
           \A i \in DOMAIN Answers' : i + 1 \in DOMAIN Answers /\ Answers'[i] = Answers[i + 1]
    PROVE  SessionExact'
<1>1. /\ UNCHANGED <<mainAt, command, number, subId, output>>
      /\ UNCHANGED <<receiptId, subscriptionId, logoutReceiptId, eventsMap>>
  BY DEF mainVars, ids, maps
<1>2. /\ \A j \in DOMAIN Answers : j > 1 => Answers[j].type # "RECEIPT"
      /\ \A j \in DOMAIN Way : Way[j].type = "CONNECT"
  BY DEF IdsExact, AnsweredBefore, ConnectedLast
<1>3. \A j \in DOMAIN Answers' : Answers'[j].type # "RECEIPT"
  <2>1. DOMAIN Answers' = 1..Len(Answers') /\ Len(Answers') \in Nat
    BY WayTypedNext
  <2>2. \A j \in DOMAIN Answers' : j + 1 > 1
    BY ONLY <2>1
  <2> QED
    BY <1>2, <2>2
<1>4. WayRecorded'
  BY <1>2 DEF WayRecorded, FrameRecorded
<1>5. AnswersRecorded'
  BY <1>3 DEF AnswersRecorded, AnswerRecorded
<1>6. ~LoggedIn /\ ~Making
  BY DEF LoggedIn, IdsExact, Control, MakesOne
<1>7. logoutReceiptId' <= receiptId'
  <2>1. ~(logoutReceiptId > receiptId)
    BY <1>6 DEF IdsExact, AnsweredBefore, LogoutFirst
  <2>2. logoutReceiptId \in Nat /\ receiptId \in Nat
    BY IdsAreNumbers
  <2>3. logoutReceiptId <= receiptId
    BY ONLY <2>1, <2>2
  <2> QED
    BY <1>1, <2>3
<1>8. CommandRecorded'
  BY <1>1, <1>6, <1>7 DEF CommandRecorded, Numbered, Making
<1>9. PICK left \in Commands : Fits(left)
  BY <1>6 DEF IdsExact, OneLeft
<1> DEFINE owned == [t \in SubIds |->
                        IF t # 0 /\ left.channel \in Channels /\ eventsMap[left.channel] = t
                        THEN left.channel ELSE None]
<1>10. PICK owner : owner = owned
  OBVIOUS
<1>11. owner \in [SubIds -> Channels \cup {None}]
  BY <1>10
<1>12. /\ \A ch \in Channels : eventsMap[ch] # 0 => ch = left.channel
       /\ \A ch \in Channels : eventsMap[ch] <= subscriptionId /\ eventsMap[ch] \in SubIds
  BY <1>9 DEF Fits, LeftInRecords, IdsExact, Control, IdsGiven, TypeInv, MapTypes
<1>13. OwnedIds(owner)'
  <2>1. ASSUME NEW t \in SubIds, t > subscriptionId
        PROVE  owner[t] = None
    <3>1. t \in Nat /\ subscriptionId \in Nat /\ ~(t <= subscriptionId)
      <4>1. t \in Nat /\ subscriptionId \in Nat
        BY IdsAreNumbers
      <4> QED
        BY ONLY <2>1, <4>1
    <3>2. \A ch \in Channels : eventsMap[ch] # t
      BY <1>12, <3>1
    <3> QED
      BY <1>10, <3>2
  <2>2. \A ch \in Channels : eventsMap[ch] # 0 => owner[eventsMap[ch]] = ch
    BY <1>10, <1>12
  <2>3. /\ mainAt' # "record subscription" /\ ~Joining'
        /\ mainAt' \notin {"input", "store", "record", "frame"}
    BY <1>1, <1>6 DEF Making, Joining
  <2> QED
    BY <1>1, <2>1, <2>2, <2>3 DEF OwnedIds
<1>14. Owned(owner)'
  <2>1. \A i \in DOMAIN Way' : FrameOwned(owner, Way[i])'
    BY <1>2 DEF FrameOwned
  <2> QED
    BY <1>13, <2>1 DEF Owned
<1>15. BrokerAgrees(owner)'
  <2>1. \A t \in SubIds : subIdToDestination[t] # None => left.channel = subIdToDestination[t]
    BY <1>9 DEF Fits, LeftInAnswers
  <2>2. \A t \in SubIds : owner[t] # None => owner[t] = left.channel
    BY <1>10
  <2>3. \A t \in SubIds : owner[t] # None => subIdToDestination'[t] \in {None, owner[t]}
    BY <2>1, <2>2
  <2> QED
    BY <2>3 DEF BrokerAgrees, SubIds
<1>16. IdsOwned'
  BY <1>11, <1>14, <1>15 DEF IdsOwned, SubIds
<1> QED
  BY <1>4, <1>5, <1>8, <1>16 DEF SessionExact

\* A frame is handled.
LEMMA MessageHandled ==
    ASSUME TypeInv, TypeInv', Inv, ~gotError', IdsExact,
           GetMessage("receive") \/ GetMessage("rest")
    PROVE  IdsExact'
<1>1. /\ UNCHANGED <<mainVars, handler, messageQueue, ids, maps, toServer, session,
                     subIdToDestination>>
      /\ serverThread \in {"receive", "rest"}
      /\ toClient # <<>> /\ toClient' = Tail(toClient)
      /\ userLoggedIn' = (userLoggedIn \/ Head(toClient).type = "CONNECTED")
      /\ serverThread' = IF shouldLogOut' THEN "receiptId" ELSE "loop"
  BY DEF GetMessage, Process, server
<1>2. Live /\ ~Vacant /\ handler' = "open" /\ messageQueue = <<>>
  BY <1>1 DEF Live, Vacant, Inv, HandlerKept, IdsExact, Control, QueueEmpty
<1>3. CASE shouldLogOut'
  BY <1>1, <1>2, <1>3, SessionEnded
<1>4. CASE ~shouldLogOut'
  <2>1. serverThread' = "loop"
    BY <1>1, <1>4
  <2>2. Live' /\ ~Vacant' /\ serverThread \notin Resetting /\ serverThread' \notin Resetting
    BY <1>1, <1>2, <2>1 DEF Live, Vacant
  <2>3. Way' = Way /\ Answers' = Tail(toClient)
    BY <1>1, <1>2, <2>2 DEF Way, Answers, mainVars
  <2>4. /\ Answers = toClient
        /\ 1 \in DOMAIN Answers /\ Answers[1] = Head(toClient)
        /\ \A i \in DOMAIN Answers' : i + 1 \in DOMAIN Answers /\ Answers'[i] = Answers[i + 1]
    <3>1. toClient \in Seq(ServerFrame) /\ Answers = toClient
      BY <1>2, WayTyped DEF Answers
    <3>2. /\ 1 \in DOMAIN toClient /\ toClient[1] = Head(toClient)
          /\ \A i \in DOMAIN Tail(toClient) :
                i + 1 \in DOMAIN toClient /\ Tail(toClient)[i] = toClient[i + 1]
      BY ONLY <1>1, <3>1
    <3> QED
      BY <2>3, <3>1, <3>2
  <2>5. QueueEmpty' /\ OutputOfCommand' /\ LoggedOut'
    BY <1>1, <2>1, <2>2
       DEF IdsExact, Control, QueueEmpty, OutputOfCommand, FrameOf, mainVars, LoggedOut
  <2>6. MakesOne'
    <3>1. mainAt' # "handle login" /\ (Making' => userLoggedIn')
      BY <1>1, <1>2 DEF IdsExact, Control, MakesOne, Making, mainVars
    <3> QED
      BY <2>2, <3>1 DEF MakesOne
  <2>7. (userLoggedIn \/ Head(toClient).type # "CONNECTED") => userLoggedIn' = userLoggedIn
    <3>1. userLoggedIn \in BOOLEAN
      BY DEF TypeInv, FlagTypes
    <3> QED
      BY <1>1, <3>1
  <2>8. CASE userLoggedIn' = userLoggedIn
    <3>1. Still(0, 1)
      <4>1. DOMAIN Way = 1..Len(Way) /\ Len(Way) \in Nat
        BY WayTyped
      <4>2. \A i \in DOMAIN Way : i + 0 = i
        BY ONLY <4>1
      <4>3. \A i \in DOMAIN Way' : i + 0 \in DOMAIN Way /\ Way'[i] = Way[i + 0]
        BY <2>3, <4>2
      <4> QED
        BY <1>1, <1>2, <2>2, <2>3, <2>4, <2>8, <4>3 DEF Still, MainStill, ids
    <3>2. OneLeft' /\ AnsweredBefore' /\ SessionExact' /\ IdsGiven'
      BY <3>1, StillAll
    <3> QED
      BY <2>5, <2>6, <3>2 DEF IdsExact, Control
  <2>9. CASE ~(userLoggedIn \/ Head(toClient).type # "CONNECTED")
    <3>1. ~userLoggedIn /\ Answers[1].type = "CONNECTED" /\ userLoggedIn'
      <4>1. ~userLoggedIn /\ Head(toClient).type = "CONNECTED"
        BY ONLY <2>9
      <4>2. userLoggedIn'
        BY <1>1, <4>1
      <4> QED
        BY <2>4, <4>1, <4>2
    <3>2. OneLeft' /\ AnsweredBefore'
      BY <2>2, <3>1 DEF OneLeft, AnsweredBefore, ConnectedLast, LogoutFirst, LoggedIn
    <3>3. ~LogoutUnreset /\ ~EventsUnreset
      BY <1>1 DEF LogoutUnreset, EventsUnreset
    <3>4. SessionExact'
      BY <1>1, <1>2, <2>2, <2>3, <2>4, <3>1, <3>3, SessionBegun
    <3>5. IdsGiven'
      <4>1. /\ LogoutUnreset' <=> LogoutUnreset
            /\ EventsUnreset' <=> EventsUnreset
            /\ JoinsUnreset' <=> JoinsUnreset
            /\ ExitsUnreset' <=> ExitsUnreset
        BY <2>2, StagesKept
      <4> QED
        BY <1>1, <4>1 DEF IdsExact, Control, IdsGiven, mainVars, ids, maps
    <3> QED
      BY <2>5, <2>6, <3>2, <3>4, <3>5 DEF IdsExact, Control
  <2> QED
    BY <2>7, <2>8, <2>9
<1> QED
  BY <1>3, <1>4

-----------------------------------------------------------------------------
(* The steps of the other end.                                              *)

\* What no step of the other end disturbs.
LEMMA OtherEndSteps ==
    ASSUME IdsExact,
           UNCHANGED <<mainVars, serverThread, isRunning, handler, messageQueue, protocol, logins>>,
           toServer = <<>> /\ toClient = <<>> /\ NothingSubscribed /\ ~Live
              => toServer' = <<>> /\ toClient' = <<>> /\ NothingSubscribed'
    PROVE  /\ QueueEmpty' /\ OutputOfCommand' /\ MakesOne' /\ LoggedOut' /\ IdsGiven'
           /\ (Live' <=> Live) /\ (Vacant' <=> Vacant) /\ (LoggedIn' <=> LoggedIn)
<1> USE DEF mainVars, protocol, ids, flags, maps
<1>1. (Live' <=> Live) /\ (Vacant' <=> Vacant) /\ (LoggedIn' <=> LoggedIn)
  BY DEF Live, Vacant, LoggedIn
<1>2. QueueEmpty' /\ OutputOfCommand' /\ LoggedOut'
  BY <1>1 DEF IdsExact, Control, QueueEmpty, OutputOfCommand, LoggedOut, FrameOf
<1>3. MakesOne'
  BY <1>1 DEF IdsExact, Control, MakesOne, Making, Live
<1>4. IdsGiven'
  BY StagesKept DEF IdsExact, Control, IdsGiven
<1> QED
  BY <1>1, <1>2, <1>3, <1>4

\* All frames on the wire, or the foremost of what is on its way, are lost.
LEMMA WireLost ==
    ASSUME TypeInv, TypeInv', Live, Live', toServer' = <<>>, UNCHANGED <<messageQueue, output>>
    PROVE  \E k \in Nat : \A i \in DOMAIN Way' : i + k \in DOMAIN Way /\ Way'[i] = Way[i + k]
<1>1. DOMAIN Way = 1..Len(Way) /\ Len(Way) \in Nat
  BY WayTyped
<1>2. DOMAIN Way' = 1..Len(Way') /\ Len(Way') \in Nat
  BY WayTypedNext
<1>3. PICK k \in 0..Len(Way) :
         Len(Way') = Len(Way) - k /\ \A i \in 1..Len(Way') : Way'[i] = Way[i + k]
  BY WayDrops
<1>4. k \in Nat /\ \A i \in DOMAIN Way' : i + k \in DOMAIN Way /\ Way'[i] = Way[i + k]
  BY <1>1, <1>2, <1>3
<1> QED
  BY <1>4

\* Frames and answers are lost, and no more answers come.
LEMMA ConnectionLost ==
    ASSUME TypeInv, TypeInv', IdsExact, LoseConnection
    PROVE  IdsExact'
<1>1. /\ UNCHANGED <<mainVars, serverThread, isRunning, handler, messageQueue, protocol, logins>>
      /\ session' = "over" /\ toServer' = <<>>
      /\ NothingSubscribed'
  BY DEF LoseConnection, NothingSubscribed
<1>2. PICK n \in 0..Len(toClient) : toClient' = SubSeq(toClient, 1, n)
  BY DEF LoseConnection
<1>3. /\ \A i \in DOMAIN toClient' : i \in DOMAIN toClient /\ toClient'[i] = toClient[i]
      /\ toClient = <<>> => toClient' = <<>>
  <2>1. toClient \in Seq(ServerFrame)
    BY WayTyped
  <2> QED
    BY ONLY <1>2, <2>1
<1>4. /\ QueueEmpty' /\ OutputOfCommand' /\ MakesOne' /\ LoggedOut' /\ IdsGiven'
      /\ (Live' <=> Live) /\ (Vacant' <=> Vacant)
  <2>1. toServer = <<>> /\ toClient = <<>> /\ NothingSubscribed /\ ~Live
           => toServer' = <<>> /\ toClient' = <<>> /\ NothingSubscribed'
    BY <1>1, <1>3
  <2> QED
    BY <1>1, <2>1, OtherEndSteps
<1>5. /\ UNCHANGED <<receiptId, subscriptionId, logoutReceiptId, userLoggedIn, maps>>
      /\ UNCHANGED <<messageQueue, output>> /\ MainStill
  BY <1>1 DEF protocol, ids, flags, mainVars, MainStill
<1>6. OneLeft' /\ AnsweredBefore' /\ SessionExact' /\ IdsGiven'
  <2>1. CASE Live
    <3>1. PICK k \in Nat : \A i \in DOMAIN Way' : i + k \in DOMAIN Way /\ Way'[i] = Way[i + k]
      BY <1>1, <1>4, <1>5, <2>1, WireLost
    <3>2. \A i \in DOMAIN Answers' : i + 0 \in DOMAIN Answers /\ Answers'[i] = Answers[i + 0]
      <4>1. DOMAIN Answers' = 1..Len(Answers') /\ Len(Answers') \in Nat
        BY WayTypedNext
      <4>2. \A i \in DOMAIN Answers' : i + 0 = i
        BY ONLY <4>1
      <4>3. \A i \in DOMAIN Answers' : i \in DOMAIN Answers /\ Answers'[i] = Answers[i]
        BY <1>3, <1>4, <2>1 DEF Answers
      <4> QED
        BY <4>2, <4>3
    <3>3. Still(k, 0)
      BY <1>1, <1>4, <1>5, <2>1, <3>1, <3>2 DEF Still
    <3> QED
      BY <3>3, StillAll
  <2>2. CASE ~Live
    <3>1. Way' = Way /\ Answers' = Answers
      BY <1>4, <1>5, <2>2, VacantWayKept
    <3> QED
      BY <1>1, <1>4, <1>5, <2>2, <3>1, StillSame
  <2> QED
    BY <2>1, <2>2
<1> QED
  BY <1>4, <1>6 DEF IdsExact, Control

\* What the broker answers to a frame f, and what becomes of the session.
Gives(f, a) ==
    \/ a = Error /\ session' = "over" /\ UNCHANGED subIdToDestination
    \/ f.type = "CONNECT" /\ a = Connected /\ UNCHANGED subIdToDestination
    \/ f.type = "SEND" /\ a = Message /\ UNCHANGED <<session, subIdToDestination>>
    \/ /\ f.type = "DISCONNECT" /\ a = Receipt(f.receipt, "DISCONNECT", None, 0)
       /\ session' = "over" /\ UNCHANGED subIdToDestination
    \/ /\ f.type = "SUBSCRIBE" /\ subIdToDestination[f.id] = None
       /\ a = Receipt(f.receipt, "SUBSCRIBE", f.channel, f.id) /\ UNCHANGED session
       /\ \/ UNCHANGED subIdToDestination
          \/ subIdToDestination' = [subIdToDestination EXCEPT ![f.id] = f.channel]
    \/ /\ f.type = "UNSUBSCRIBE" /\ subIdToDestination[f.id] # None
       /\ a = Receipt(f.receipt, "UNSUBSCRIBE", subIdToDestination[f.id], f.id)
       /\ UNCHANGED session
       /\ subIdToDestination' = [subIdToDestination EXCEPT ![f.id] = None]

\* The broker's answers are the five of Gives, or an ERROR.
LEMMA AnswerGiven ==
    ASSUME TypeInv, Broker, session # "over"
    PROVE  \E a : toClient' = toClient \o <<a>> /\ Gives(Head(toServer), a)
<1> DEFINE f == Head(toServer)
<1>0. AnswerConnect \/ AnswerSubscribe \/ AnswerUnsubscribe \/ AnswerSend \/ AnswerDisconnect
  BY DEF Broker
<1>1. subIdToDestination \in [SubIds -> Channels \cup {None}]
  BY DEF TypeInv, MapTypes
<1>2. CASE AnswerConnect
  <2>1. CASE Answer(<<Connected>>, "in")
    BY <1>2, <2>1 DEF AnswerConnect, Answer, Gives
  <2>2. CASE Answer(<<Error>>, "over")
    BY <1>2, <2>2 DEF AnswerConnect, Answer, Gives
  <2> QED
    BY <1>2, <2>1, <2>2 DEF AnswerConnect
<1>3. CASE AnswerSubscribe
  <2>1. CASE subIdToDestination[f.id] # None
    BY <1>3, <2>1 DEF AnswerSubscribe, Answer, Gives
  <2>2. CASE subIdToDestination[f.id] = None
    <3>1. /\ f.type = "SUBSCRIBE"
          /\ toClient' = toClient \o <<Receipt(f.receipt, "SUBSCRIBE", f.channel, f.id)>>
          /\ session' = session
          /\ \/ UNCHANGED subIdToDestination
             \/ subIdToDestination' = [subIdToDestination EXCEPT ![f.id] = f.channel]
      BY <1>3, <2>2 DEF AnswerSubscribe, Answer
    <3> QED
      BY <2>2, <3>1 DEF Gives
  <2> QED
    BY <2>1, <2>2
<1>4. CASE AnswerUnsubscribe
  <2>0. /\ f.type = "UNSUBSCRIBE"
        /\ subIdToDestination' = [subIdToDestination EXCEPT ![f.id] = None]
    BY <1>4 DEF AnswerUnsubscribe
  <2>1. CASE subIdToDestination[f.id] = None
    <3>1. subIdToDestination' = subIdToDestination
      BY <1>1, <2>0, <2>1
    <3> QED
      BY <1>4, <2>1, <3>1 DEF AnswerUnsubscribe, Answer, Gives
  <2>2. CASE subIdToDestination[f.id] # None
    <3>1. /\ toClient' = toClient \o
                <<Receipt(f.receipt, "UNSUBSCRIBE", subIdToDestination[f.id], f.id)>>
          /\ session' = session
      BY <1>4, <2>2 DEF AnswerUnsubscribe, Answer
    <3> QED
      BY <2>0, <2>2, <3>1 DEF Gives
  <2> QED
    BY <2>1, <2>2
<1>5. CASE AnswerSend
  <2>1. CASE Answer(<<Message>>, session)
    BY <1>5, <2>1 DEF AnswerSend, Answer, Gives
  <2>2. CASE Answer(<<Error>>, "over")
    BY <1>5, <2>2 DEF AnswerSend, Answer, Gives
  <2> QED
    BY <1>5, <2>1, <2>2 DEF AnswerSend
<1>6. CASE AnswerDisconnect
  <2>1. /\ f.type = "DISCONNECT"
        /\ toClient' = toClient \o <<Receipt(f.receipt, "DISCONNECT", None, 0)>>
        /\ session' = "over" /\ UNCHANGED subIdToDestination
    BY <1>6 DEF AnswerDisconnect, Answer
  <2> QED
    BY <2>1 DEF Gives
<1> QED
  BY <1>0, <1>2, <1>3, <1>4, <1>5, <1>6

\* The broker takes a frame and answers it.
LEMMA AnswerAdded ==
    ASSUME TypeInv, TypeInv', Broker, Live, session # "over"
    PROVE  LET f == Way[1]
           IN  \E a :
                  /\ Gives(f, a)
                  /\ 1 \in DOMAIN Way /\ f \in ClientFrame
                  /\ \A i \in DOMAIN Way' : i + 1 \in DOMAIN Way /\ Way'[i] = Way[i + 1]
                  /\ \A i \in DOMAIN Way :
                        i # 1 => i - 1 \in DOMAIN Way' /\ Way'[i - 1] = Way[i]
                  /\ DOMAIN Answers' = 1..Len(Answers) + 1
                  /\ \A i \in DOMAIN Answers : i \in DOMAIN Answers' /\ Answers'[i] = Answers[i]
                  /\ Answers'[Len(Answers) + 1] = a
                  /\ \A i \in DOMAIN Answers' :
                        \/ i \in DOMAIN Answers /\ Answers'[i] = Answers[i]
                        \/ i = Len(Answers) + 1 /\ Answers'[i] = a
<1> DEFINE f == Way[1]
<1>1. /\ UNCHANGED <<mainVars, serverThread, isRunning, handler, messageQueue, protocol, logins>>
      /\ toServer # <<>> /\ toServer' = Tail(toServer)
  BY DEF Broker
<1>2. Live'
  BY <1>1 DEF Live
<1>3. /\ Len(Way) > 0 /\ f = Head(toServer)
      /\ Len(Way') = Len(Way) - 1
      /\ \A i \in 1..Len(Way') : Way'[i] = Way[i + 1]
  BY <1>1, <1>2, WayTaken DEF mainVars
<1>4. /\ DOMAIN Way = 1..Len(Way) /\ Len(Way) \in Nat /\ Way \in Seq(ClientFrame)
      /\ DOMAIN Answers = 1..Len(Answers) /\ Len(Answers) \in Nat /\ Answers \in Seq(ServerFrame)
  BY WayTyped
<1>5. DOMAIN Way' = 1..Len(Way') /\ Len(Way') \in Nat
  BY WayTypedNext
<1>6. PICK a : toClient' = toClient \o <<a>> /\ Gives(f, a)
  BY <1>3, AnswerGiven
<1>7. 1 \in DOMAIN Way /\ f \in ClientFrame
  BY <1>3, <1>4
<1>8. \A i \in DOMAIN Way' : i + 1 \in DOMAIN Way /\ Way'[i] = Way[i + 1]
  BY <1>3, <1>4, <1>5
<1>9. \A i \in DOMAIN Way : i # 1 => i - 1 \in DOMAIN Way' /\ Way'[i - 1] = Way[i]
  <2> SUFFICES ASSUME NEW i \in DOMAIN Way, i # 1
               PROVE  i - 1 \in DOMAIN Way' /\ Way'[i - 1] = Way[i]
    OBVIOUS
  <2>1. i - 1 \in DOMAIN Way' /\ (i - 1) + 1 = i
    BY <1>3, <1>4, <1>5
  <2> QED
    BY <1>8, <2>1
<1>10. /\ DOMAIN Answers' = 1..Len(Answers) + 1
       /\ \A i \in DOMAIN Answers : i \in DOMAIN Answers' /\ Answers'[i] = Answers[i]
       /\ Answers'[Len(Answers) + 1] = a
  <2>1. Answers' = Answers \o <<a>>
    BY <1>2, <1>6 DEF Answers
  <2> QED
    BY ONLY <1>4, <2>1
<1>11. \A i \in DOMAIN Answers' :
          \/ i \in DOMAIN Answers /\ Answers'[i] = Answers[i]
          \/ i = Len(Answers) + 1 /\ Answers'[i] = a
  BY <1>4, <1>10
<1> QED
  BY <1>6, <1>7, <1>8, <1>9, <1>10, <1>11

\* What an answer is, by the frame.
LEMMA AnswerTells ==
    ASSUME NEW f, NEW a, Gives(f, a)
    PROVE  /\ a.type = "RECEIPT" =>
                 \/ /\ f.type = "SUBSCRIBE" /\ a.answers = "SUBSCRIBE"
                    /\ a.id = f.receipt /\ a.channel = f.channel
                 \/ /\ f.type = "UNSUBSCRIBE" /\ a.answers = "UNSUBSCRIBE" /\ a.id = f.receipt
                    /\ a.subscription = f.id
                    /\ subIdToDestination[f.id] # None /\ a.channel = subIdToDestination[f.id]
                 \/ /\ f.type = "DISCONNECT" /\ a.answers = "DISCONNECT"
                    /\ a.id = f.receipt /\ a.channel = None
           /\ a.type = "CONNECTED" => f.type = "CONNECT"
           /\ f.type = "DISCONNECT" => session' = "over"
           /\ f.type = "SUBSCRIBE" /\ session' # "over" => subIdToDestination[f.id] = None
           /\ subIdToDestination \in [SubIds -> Channels \cup {None}] =>
                 \A t \in SubIds :
                    \/ subIdToDestination'[t] = subIdToDestination[t]
                    \/ f.type = "SUBSCRIBE" /\ t = f.id /\ subIdToDestination'[t] = f.channel
                    \/ f.type = "UNSUBSCRIBE" /\ t = f.id /\ subIdToDestination'[t] = None
<1>1. CASE a = Error /\ session' = "over" /\ UNCHANGED subIdToDestination
  BY <1>1 DEF Error
<1>2. CASE f.type = "CONNECT" /\ a = Connected /\ UNCHANGED subIdToDestination
  BY <1>2 DEF Connected
<1>3. CASE f.type = "SEND" /\ a = Message /\ UNCHANGED <<session, subIdToDestination>>
  BY <1>3 DEF Message
<1>4. CASE /\ f.type = "DISCONNECT" /\ a = Receipt(f.receipt, "DISCONNECT", None, 0)
           /\ session' = "over" /\ UNCHANGED subIdToDestination
  BY <1>4 DEF Receipt
<1>5. CASE /\ f.type = "SUBSCRIBE" /\ subIdToDestination[f.id] = None
           /\ a = Receipt(f.receipt, "SUBSCRIBE", f.channel, f.id) /\ UNCHANGED session
           /\ \/ UNCHANGED subIdToDestination
              \/ subIdToDestination' = [subIdToDestination EXCEPT ![f.id] = f.channel]
  BY <1>5 DEF Receipt
<1>6. CASE /\ f.type = "UNSUBSCRIBE" /\ subIdToDestination[f.id] # None
           /\ a = Receipt(f.receipt, "UNSUBSCRIBE", subIdToDestination[f.id], f.id)
           /\ UNCHANGED session
           /\ subIdToDestination' = [subIdToDestination EXCEPT ![f.id] = None]
  BY <1>6 DEF Receipt
<1> QED
  BY <1>1, <1>2, <1>3, <1>4, <1>5, <1>6 DEF Gives

\* Before the login is confirmed what is left is answered, and nothing else.
LEMMA LeftAnswered ==
    ASSUME TypeInv, TypeInv', IdsExact, Broker, Live, session # "over", ~userLoggedIn
    PROVE  OneLeft' /\ AnsweredBefore' /\ SessionExact'
<1> DEFINE f == Way[1]
<1>1. UNCHANGED <<mainVars, serverThread, isRunning, handler, messageQueue, protocol, logins>>
  BY DEF Broker
<1>2. Live' /\ ~LoggedIn /\ ~LoggedIn' /\ ~userLoggedIn' /\ serverThread \notin Resetting
  BY <1>1 DEF Live, LoggedIn, protocol, flags
<1>3. PICK a :
         /\ Gives(f, a)
         /\ 1 \in DOMAIN Way /\ f \in ClientFrame
         /\ \A i \in DOMAIN Way' : i + 1 \in DOMAIN Way /\ Way'[i] = Way[i + 1]
         /\ \A i \in DOMAIN Way : i # 1 => i - 1 \in DOMAIN Way' /\ Way'[i - 1] = Way[i]
         /\ DOMAIN Answers' = 1..Len(Answers) + 1
         /\ \A i \in DOMAIN Answers : i \in DOMAIN Answers' /\ Answers'[i] = Answers[i]
         /\ Answers'[Len(Answers) + 1] = a
         /\ \A i \in DOMAIN Answers' :
               \/ i \in DOMAIN Answers /\ Answers'[i] = Answers[i]
               \/ i = Len(Answers) + 1 /\ Answers'[i] = a
  BY AnswerAdded
<1>4. f \in ClientFrame
  BY <1>3
<1>5. /\ f.type \in {"SUBSCRIBE", "UNSUBSCRIBE", "DISCONNECT"} => f.receipt \in Receipts
      /\ f.type \in {"SUBSCRIBE", "UNSUBSCRIBE"} => f.id \in SubIds
      /\ f.type = "SUBSCRIBE" => f.channel \in Channels
  BY <1>4, FrameFields
<1>6. subIdToDestination \in [SubIds -> Channels \cup {None}]
  BY DEF TypeInv, MapTypes
<1>7. /\ DOMAIN Way = 1..Len(Way) /\ Len(Way) \in Nat /\ Len(Answers) \in Nat
      /\ DOMAIN Way' = 1..Len(Way') /\ Len(Way') \in Nat
  BY WayTyped, WayTypedNext
<1> HIDE DEF f
<1>8. PICK left \in Commands : Fits(left)
  BY <1>2 DEF IdsExact, OneLeft
<1>9. /\ \A i \in DOMAIN Way : Way[i].type = "CONNECT" \/ FrameOf(left, Way[i])
      /\ \A i, j \in DOMAIN Way : i < j /\ Way[i].type = "CONNECT" => Way[j].type = "CONNECT"
      /\ f.type = "CONNECT" \/ FrameOf(left, f)
  BY <1>3, <1>8 DEF Fits, LeftOnWay, f
<1>10. \A t \in SubIds : subIdToDestination[t] # None =>
          left.verb = "join" /\ left.channel = subIdToDestination[t]
  BY <1>8 DEF Fits, LeftInAnswers
<1>11. LeftOnWay(left)'
  <2>1. \A i \in DOMAIN Way' : Way'[i].type = "CONNECT" \/ FrameOf(left, Way'[i])
    BY <1>3, <1>9
  <2>2. ASSUME NEW i \in DOMAIN Way', NEW j \in DOMAIN Way', i < j, Way'[i].type = "CONNECT"
        PROVE  Way'[j].type = "CONNECT"
    <3>1. i + 1 < j + 1
      BY <1>7, <2>2
    <3>2. /\ i + 1 \in DOMAIN Way /\ Way'[i] = Way[i + 1]
          /\ j + 1 \in DOMAIN Way /\ Way'[j] = Way[j + 1]
      BY <1>3
    <3> QED
      BY <1>9, <2>2, <3>1, <3>2
  <2> QED
    BY <2>1, <2>2 DEF LeftOnWay, FrameOf
<1>12. LeftInAnswers(left)'
  <2>1. a.type = "RECEIPT" => AnswerTo(left, a)
    BY <1>3, <1>5, <1>9, <1>10, AnswerTells DEF FrameOf, AnswerTo
  <2>2. \A i \in DOMAIN Answers' : Answers'[i].type = "RECEIPT" => AnswerTo(left, Answers'[i])
    BY <1>3, <1>8, <2>1 DEF Fits, LeftInAnswers
  <2>3. \A t \in SubIds : subIdToDestination'[t] # None =>
           left.verb = "join" /\ left.channel = subIdToDestination'[t]
    BY <1>3, <1>5, <1>6, <1>9, <1>10, AnswerTells DEF FrameOf
  <2> QED
    BY <2>2, <2>3 DEF LeftInAnswers, AnswerTo, SubIds
<1>13. LeftCommand(left)' /\ LeftInRecords(left)'
  <2>1. LogoutUnreset' = LogoutUnreset /\ EventsUnreset' = EventsUnreset
        /\ JoinsUnreset' = JoinsUnreset /\ ExitsUnreset' = ExitsUnreset
    BY <1>1 DEF LogoutUnreset, EventsUnreset, JoinsUnreset, ExitsUnreset
  <2>2. LeftCommand(left)'
    BY <1>1, <1>8 DEF Fits, LeftCommand, Making, mainVars
  <2>3. UNCHANGED <<logoutReceiptId, eventsMap, joinReciepts, exitReciepts>>
    BY <1>1 DEF protocol, ids, maps
  <2>4. LeftInRecords(left)'
    BY <1>8, <2>1, <2>3 DEF Fits, LeftInRecords
  <2> QED
    BY <2>2, <2>4
<1>14. OneLeft'
  BY <1>8, <1>11, <1>12, <1>13 DEF OneLeft, Fits, Commands
<1>15. ConnectedLast'
  <2> SUFFICES ASSUME NEW i \in DOMAIN Answers', Answers'[i].type = "CONNECTED"
               PROVE  /\ \A j \in DOMAIN Answers' : j > i => Answers'[j].type # "RECEIPT"
                      /\ \A j \in DOMAIN Way' : Way'[j].type = "CONNECT"
    BY DEF ConnectedLast
  <2>1. CASE i \in DOMAIN Answers
    <3>1. /\ \A j \in DOMAIN Answers : j > i => Answers[j].type # "RECEIPT"
          /\ \A j \in DOMAIN Way : Way[j].type = "CONNECT"
      BY <1>3, <2>1 DEF IdsExact, AnsweredBefore, ConnectedLast
    <3>2. f.type = "CONNECT"
      BY <1>3, <3>1 DEF f
    <3>3. a.type # "RECEIPT"
      BY <1>3, <3>2, AnswerTells
    <3> QED
      BY <1>3, <3>1, <3>3
  <2>2. CASE i = Len(Answers) + 1
    <3>1. f.type = "CONNECT"
      BY <1>3, <2>2, AnswerTells
    <3>2. \A j \in DOMAIN Way : j > 1 => Way[j].type = "CONNECT"
      BY <1>3, <1>9, <3>1 DEF f
    <3>3. \A j \in DOMAIN Way' : j + 1 > 1
      BY <1>7
    <3>4. \A j \in DOMAIN Answers' : ~(j > i)
      BY <1>3, <1>7, <2>2
    <3> QED
      BY <1>3, <3>2, <3>3, <3>4
  <2> QED
    BY <1>3, <2>1, <2>2
<1>16. LogoutFirst'
  <2> SUFFICES ASSUME logoutReceiptId' > receiptId', ~LogoutUnreset'
               PROVE  LogoutFirst'
    BY DEF LogoutFirst
  <2>1. /\ \A i \in DOMAIN Answers : Answers[i].type # "CONNECTED"
        /\ \/ mainAt = "frame"
           \/ \E i \in DOMAIN Way :
                 Way[i].type = "DISCONNECT" /\ \A j \in DOMAIN Way : Way[j].type = "CONNECT" => i < j
    <3>1. logoutReceiptId > receiptId /\ ~LogoutUnreset
      BY <1>1 DEF protocol, ids, LogoutUnreset
    <3> QED
      BY <1>2, <3>1 DEF IdsExact, AnsweredBefore, LogoutFirst
  <2>2. mainAt # "frame"
    BY DEF IdsExact, Control, MakesOne, Making
  <2>3. PICK i \in DOMAIN Way :
           Way[i].type = "DISCONNECT" /\ \A j \in DOMAIN Way : Way[j].type = "CONNECT" => i < j
    BY <2>1, <2>2
  <2>4. \A j \in DOMAIN Answers' : Answers'[j].type # "CONNECTED"
    <3>1. f.type # "CONNECT"
      <4>1. ~(i < 1)
        BY <1>7
      <4> QED
        BY <1>3, <2>3, <4>1 DEF f
    <3>2. a.type # "CONNECTED"
      BY <1>3, <3>1, AnswerTells
    <3> QED
      BY <1>3, <2>1, <3>2
  <2>5. CASE i = 1
    <3>1. session' = "over"
      BY <1>3, <2>3, <2>5, AnswerTells DEF f
    <3> QED
      BY <1>2, <2>4, <3>1 DEF LogoutFirst
  <2>6. CASE i # 1
    <3>1. i - 1 \in DOMAIN Way' /\ Way'[i - 1] = Way[i]
      BY <1>3, <2>6
    <3>2. \A j \in DOMAIN Way' : i < j + 1 => i - 1 < j
      BY <1>7
    <3>3. \A j \in DOMAIN Way' : Way'[j].type = "CONNECT" => i - 1 < j
      BY <1>3, <2>3, <3>2
    <3> QED
      BY <2>3, <2>4, <3>1, <3>3 DEF LogoutFirst
  <2> QED
    BY <2>5, <2>6
<1> QED
  BY <1>2, <1>14, <1>15, <1>16 DEF AnsweredBefore, SessionExact

\* The answer tells what the client has recorded of the frame: an UNSUBSCRIBE is answered
\* with the owner of its id, for the owner's SUBSCRIBE has been before it.
LEMMA SessionAnswered ==
    ASSUME TypeInv, TypeInv', IdsExact, Broker, Live, session # "over", userLoggedIn
    PROVE  SessionExact'
<1> DEFINE f == Way[1]
<1>1. UNCHANGED <<mainVars, serverThread, isRunning, handler, messageQueue, protocol, logins>>
  BY DEF Broker
<1>3. PICK a :
         /\ Gives(f, a)
         /\ 1 \in DOMAIN Way /\ f \in ClientFrame
         /\ \A i \in DOMAIN Way' : i + 1 \in DOMAIN Way /\ Way'[i] = Way[i + 1]
         /\ \A i \in DOMAIN Way : i # 1 => i - 1 \in DOMAIN Way' /\ Way'[i - 1] = Way[i]
         /\ DOMAIN Answers' = 1..Len(Answers) + 1
         /\ \A i \in DOMAIN Answers : i \in DOMAIN Answers' /\ Answers'[i] = Answers[i]
         /\ Answers'[Len(Answers) + 1] = a
         /\ \A i \in DOMAIN Answers' :
               \/ i \in DOMAIN Answers /\ Answers'[i] = Answers[i]
               \/ i = Len(Answers) + 1 /\ Answers'[i] = a
  BY AnswerAdded
<1>4. f \in ClientFrame
  BY <1>3
<1>5. /\ f.type \in {"SUBSCRIBE", "UNSUBSCRIBE", "DISCONNECT"} => f.receipt \in Receipts
      /\ f.type \in {"SUBSCRIBE", "UNSUBSCRIBE"} => f.id \in SubIds
      /\ f.type = "SUBSCRIBE" => f.channel \in Channels
  BY <1>4, FrameFields
<1>6. subIdToDestination \in [SubIds -> Channels \cup {None}]
  BY DEF TypeInv, MapTypes
<1>7. /\ DOMAIN Way = 1..Len(Way) /\ Len(Way) \in Nat
      /\ DOMAIN Way' = 1..Len(Way') /\ Len(Way') \in Nat
  BY WayTyped, WayTypedNext
<1> HIDE DEF f
<1> USE DEF mainVars, protocol, ids, maps
<1>8. LoggedIn
  BY DEF LoggedIn
<1>9. WayRecorded /\ AnswersRecorded /\ CommandRecorded /\ IdsOwned
  BY <1>8 DEF IdsExact, SessionExact
<1>10. PICK owner \in [SubIds -> Channels \cup {None}] : Owned(owner) /\ BrokerAgrees(owner)
  BY <1>9 DEF IdsOwned
<1>11. FrameRecorded(f) /\ FrameOwned(owner, f)
  BY <1>3, <1>9, <1>10 DEF WayRecorded, Owned, f
<1>12. \A t \in SubIds :
          t # 0 /\ owner[t] # None /\ subIdToDestination[t] \notin {None, owner[t]}
             => SubscribedFirst(t)
  BY <1>10 DEF BrokerAgrees
<1>13. \A r : Issued(r)' <=> Issued(r)
  BY <1>1 DEF Issued, Numbered
<1>14. WayRecorded'
  <2> SUFFICES ASSUME NEW i \in DOMAIN Way', NEW g, g = Way'[i]
               PROVE  FrameRecorded(g)'
    BY DEF WayRecorded, FrameRecorded
  <2>1. FrameRecorded(g)
    BY <1>3, <1>9 DEF WayRecorded
  <2> QED
    BY <1>1, <1>13, <2>1 DEF FrameRecorded
<1>15. f.type = "UNSUBSCRIBE" /\ f.id # 0 /\ subIdToDestination[f.id] # None
          => exitReciepts[f.receipt] = subIdToDestination[f.id]
  <2> SUFFICES ASSUME f.type = "UNSUBSCRIBE", f.id # 0, subIdToDestination[f.id] # None
               PROVE  exitReciepts[f.receipt] = subIdToDestination[f.id]
    OBVIOUS
  <2>1. f.id \in SubIds
    BY <1>5
  <2>2. owner[f.id] = exitReciepts[f.receipt] /\ owner[f.id] # None
    BY <1>11 DEF FrameOwned, FrameRecorded
  <2>3. ~SubscribedFirst(f.id)
    <3>1. Unsubscribes(Way[1], f.id)
      BY DEF Unsubscribes, f
    <3>2. \A i \in DOMAIN Way : ~(i < 1)
      BY <1>7
    <3> QED
      BY <1>3, <3>1, <3>2 DEF SubscribedFirst
  <2> QED
    BY <1>12, <2>1, <2>2, <2>3
<1>16. AnswersRecorded'
  <2>1. AnswerRecorded(a)
    <3> SUFFICES ASSUME a.type = "RECEIPT"
                 PROVE  AnswerRecorded(a)
      BY DEF AnswerRecorded
    <3>1. CASE /\ f.type = "SUBSCRIBE" /\ a.answers = "SUBSCRIBE"
               /\ a.id = f.receipt /\ a.channel = f.channel
      BY <1>5, <1>11, <3>1, ClientAssumption DEF AnswerRecorded, FrameRecorded
    <3>2. CASE /\ f.type = "UNSUBSCRIBE" /\ a.answers = "UNSUBSCRIBE" /\ a.id = f.receipt
               /\ a.subscription = f.id
               /\ subIdToDestination[f.id] # None /\ a.channel = subIdToDestination[f.id]
      BY <1>11, <1>15, <3>2 DEF AnswerRecorded, FrameRecorded
    <3>3. CASE /\ f.type = "DISCONNECT" /\ a.answers = "DISCONNECT"
               /\ a.id = f.receipt /\ a.channel = None
      BY <1>11, <3>3 DEF AnswerRecorded, FrameRecorded
    <3> QED
      BY <1>3, <3>1, <3>2, <3>3, AnswerTells
  <2> SUFFICES ASSUME NEW i \in DOMAIN Answers', NEW g, g = Answers'[i]
               PROVE  AnswerRecorded(g)'
    BY DEF AnswersRecorded, AnswerRecorded
  <2>2. AnswerRecorded(g)
    BY <1>3, <1>9, <2>1 DEF AnswersRecorded
  <2> QED
    BY <1>1, <1>13, <2>2 DEF AnswerRecorded
<1>17. CommandRecorded'
  BY <1>1, <1>9 DEF CommandRecorded, Numbered
<1>18. Owned(owner)'
  <2>1. \A i \in DOMAIN Way' : FrameOwned(owner, Way[i])'
    BY <1>1, <1>3, <1>10 DEF Owned, FrameOwned
  <2>2. OwnedIds(owner)'
    BY <1>1, <1>10 DEF Owned, OwnedIds, Joining
  <2> QED
    BY <2>1, <2>2 DEF Owned
<1>19. BrokerAgrees(owner)'
  <2> SUFFICES ASSUME session' # "over", NEW t \in SubIds, t # 0, owner[t] # None,
                      subIdToDestination'[t] \notin {None, owner[t]}
               PROVE  SubscribedFirst(t)'
    BY DEF BrokerAgrees, SubIds
  <2>1. subIdToDestination'[t] = subIdToDestination[t]
    BY <1>3, <1>6, <1>11, AnswerTells DEF FrameOwned
  <2>2. SubscribedFirst(t)
    BY <1>12, <2>1
  <2>3. ~Subscribes(f, t)
    <3>1. f.type = "SUBSCRIBE" => subIdToDestination[f.id] = None
      BY <1>3, AnswerTells
    <3> QED
      BY <2>1, <3>1 DEF Subscribes
  <2>4. CASE Joining /\ subscriptionId = t /\ \A j \in DOMAIN Way : ~Unsubscribes(Way[j], t)
    <3>1. Joining' /\ subscriptionId' = t
      BY <1>1, <2>4 DEF Joining
    <3>2. \A j \in DOMAIN Way' : ~Unsubscribes(Way'[j], t)
      BY <1>3, <2>4
    <3> QED
      BY <3>1, <3>2 DEF SubscribedFirst, Unsubscribes
  <2>5. ASSUME NEW i \in DOMAIN Way,
               Subscribes(Way[i], t) /\ \A j \in DOMAIN Way : Unsubscribes(Way[j], t) => i < j
        PROVE  SubscribedFirst(t)'
    <3>1. i # 1
      BY <2>3, <2>5 DEF f
    <3>2. /\ i - 1 \in DOMAIN Way' /\ Way'[i - 1] = Way[i]
          /\ \A j \in DOMAIN Way' : i < j + 1 => i - 1 < j
      <4>1. \A j \in DOMAIN Way' : i < j + 1 => i - 1 < j
        BY <1>7
      <4> QED
        BY <1>3, <3>1, <4>1
    <3>3. \A j \in DOMAIN Way' : Unsubscribes(Way'[j], t) => i - 1 < j
      BY <1>3, <2>5, <3>2
    <3> QED
      BY <2>5, <3>2, <3>3 DEF SubscribedFirst, Subscribes, Unsubscribes
  <2> QED
    BY <2>2, <2>4, <2>5 DEF SubscribedFirst
<1>20. IdsOwned'
  BY <1>10, <1>18, <1>19 DEF IdsOwned, SubIds
<1> QED
  BY <1>14, <1>16, <1>17, <1>20 DEF SessionExact

\* A step of the broker, with a session or without.
LEMMA BrokerKeepsIds ==
    ASSUME TypeInv, TypeInv', IdsExact, Broker
    PROVE  IdsExact'
<1>1. /\ UNCHANGED <<mainVars, serverThread, isRunning, handler, messageQueue, protocol, logins>>
      /\ toServer # <<>>
      /\ session = "over" =>
            toServer' = <<>> /\ UNCHANGED <<toClient, session, subIdToDestination>>
  BY DEF Broker, server
<1>2. /\ QueueEmpty' /\ OutputOfCommand' /\ MakesOne' /\ LoggedOut' /\ IdsGiven'
      /\ (Live' <=> Live) /\ (Vacant' <=> Vacant) /\ (LoggedIn' <=> LoggedIn)
  BY <1>1, OtherEndSteps
<1>3. /\ UNCHANGED <<receiptId, subscriptionId, logoutReceiptId, userLoggedIn, maps>>
      /\ UNCHANGED <<messageQueue, output>> /\ MainStill
  BY <1>1 DEF protocol, ids, flags, mainVars, MainStill
<1>4. CASE ~Live
  <2>1. Way' = Way /\ Answers' = Answers
    BY <1>2, <1>3, <1>4, VacantWayKept
  <2>2. OneLeft' /\ AnsweredBefore' /\ SessionExact'
    BY <1>1, <1>2, <1>3, <1>4, <2>1, StillSame
  <2> QED
    BY <1>2, <2>2 DEF IdsExact, Control
<1>5. CASE Live /\ session = "over"
  <2>1. PICK k \in Nat : \A i \in DOMAIN Way' : i + k \in DOMAIN Way /\ Way'[i] = Way[i + k]
    BY <1>1, <1>2, <1>3, <1>5, WireLost
  <2>2. \A i \in DOMAIN Answers' : i + 0 \in DOMAIN Answers /\ Answers'[i] = Answers[i + 0]
    <3>1. Answers' = Answers
      BY <1>1, <1>2, <1>5 DEF Answers
    <3>2. DOMAIN Answers = 1..Len(Answers) /\ Len(Answers) \in Nat
      BY WayTyped
    <3>3. \A i \in DOMAIN Answers : i + 0 = i
      BY ONLY <3>2
    <3> QED
      BY <3>1, <3>3
  <2>3. Still(k, 0)
    BY <1>1, <1>2, <1>3, <1>5, <2>1, <2>2 DEF Still
  <2>4. OneLeft' /\ AnsweredBefore' /\ SessionExact'
    BY <2>3, StillAll
  <2> QED
    BY <1>2, <2>4 DEF IdsExact, Control
<1>6. CASE Live /\ session # "over" /\ ~userLoggedIn
  BY <1>2, <1>6, LeftAnswered DEF IdsExact, Control
<1>7. CASE Live /\ session # "over" /\ userLoggedIn
  <2>1. OneLeft' /\ AnsweredBefore'
    <3>1. LoggedIn' /\ userLoggedIn'
      BY <1>2, <1>3, <1>7 DEF LoggedIn
    <3> QED
      BY <3>1 DEF OneLeft, AnsweredBefore, ConnectedLast, LogoutFirst
  <2>2. SessionExact'
    BY <1>7, SessionAnswered
  <2> QED
    BY <1>2, <2>1, <2>2 DEF IdsExact, Control
<1> QED
  BY <1>4, <1>5, <1>6, <1>7

-----------------------------------------------------------------------------
(* All the steps.                                                           *)

\* The server thread handles no frame after an ERROR, and stops.
LEMMA ErrorStillEnds ==
    ASSUME TypeInv, Inv, ErrorEnds, Next
    PROVE  ErrorEnds' /\ (~gotError' => ~gotError)
<1>0. /\ serverThread \in {"drain", "write", "receive", "rest"} \cup Resetting =>
            ~gotError /\ isRunning
      /\ mainAt = "handle login" => serverThread = "none"
  BY DEF Inv, StopIsLast, LoginStartsThread, ErrorEnds
<1>1. CASE MainThread \/ User
  <2>0. /\ UNCHANGED <<isRunning, gotError>>
        /\ \/ UNCHANGED serverThread
           \/ serverThread \in {"none", "done"} /\ serverThread' \in {"none", "loop"}
    <3>1. CASE Top \/ RefuseLogin \/ AcceptLogin \/ End \/ JoinAtEnd \/ Push
               \/ ReadLineInVain \/ ReadEmptyLine
      BY <3>1 DEF Top, RefuseLogin, AcceptLogin, End, JoinAtEnd, Push, ReadLineInVain,
                  ReadEmptyLine, protocol, flags
    <3>2. CASE MakeConnection \/ HandleLogin
      BY <1>0, <3>2 DEF MakeConnection, HandleLogin, Joined, protocol, flags
    <3>3. ASSUME NEW verb, NEW ch, ReadLine(verb, ch)
          PROVE  UNCHANGED <<isRunning, gotError, serverThread>>
      BY <3>3 DEF ReadLine, protocol, flags
    <3>4. \A at, next : Input(at, next) => UNCHANGED <<isRunning, gotError, serverThread>>
      BY DEF Input, flags
    <3>5. CASE \/ LookUpSubscription \/ ReadReceiptId \/ StoreReceiptId \/ ReadSubscriptionId
               \/ StoreSubscriptionId \/ RecordSubscription \/ RecordJoin \/ RecordExit
      BY ONLY <3>4, <3>5
         DEF LookUpSubscription, ReadReceiptId, StoreReceiptId, ReadSubscriptionId,
             StoreSubscriptionId, RecordSubscription, RecordJoin, RecordExit
    <3>6. CASE \/ ReadLogout \/ StoreLogout \/ ReadReceiptOfFrame \/ ReturnFrame
               \/ HandleEvent \/ NoMoreEvents
      BY ONLY <3>4, <3>6
         DEF ReadLogout, StoreLogout, ReadReceiptOfFrame, ReturnFrame, MakeFrame, HandleEvent,
             NoMoreEvents
    <3> QED
      BY <1>1, <3>1, <3>2, <3>3, <3>5, <3>6 DEF MainThread, User
  <2> QED
    BY <2>0 DEF ErrorEnds
<1>2. CASE \/ Loop \/ SendMessage("drain") \/ SendMessage("write") \/ WriteBlocks
           \/ NothingAvailable \/ GetPart \/ GetMessageFails
  <2>1. UNCHANGED <<isRunning, gotError>> /\ serverThread' # "stop"
    BY <1>2 DEF Loop, SendMessage, WriteBlocks, NothingAvailable, GetPart, GetMessageFails,
                protocol, flags
  <2>2. serverThread = "loop" \/ ~gotError
    BY <1>0, <1>2 DEF SendMessage, WriteBlocks, NothingAvailable, GetPart, GetMessageFails, Loop
  <2> QED
    BY <2>1, <2>2 DEF ErrorEnds
<1>3. CASE GetMessage("receive") \/ GetMessage("rest")
  <2>1. /\ serverThread \in {"receive", "rest"} /\ UNCHANGED isRunning
        /\ serverThread' = IF gotError' THEN "close" ELSE IF shouldLogOut' THEN "receiptId" ELSE "loop"
    BY <1>3 DEF GetMessage, Process
  <2>2. ~gotError /\ isRunning
    BY <1>0, <2>1
  <2>3. serverThread' # "stop" /\ (gotError' => serverThread' = "close")
    <3>1. CASE gotError'
      BY <2>1, <3>1
    <3>2. CASE ~gotError'
      BY <2>1, <3>2
    <3> QED
      BY <3>1, <3>2
  <2> QED
    BY <2>1, <2>2, <2>3 DEF ErrorEnds
<1>4. CASE ResetProtocol
  <2>1. serverThread \in Resetting /\ serverThread' # "stop"
    BY <1>4, ResetStores
  <2>2. UNCHANGED isRunning /\ (gotError' = gotError \/ gotError' = FALSE)
    BY <1>4 DEF ResetProtocol, Reset, ResetReceiptId, ResetSubscriptionId, ResetLogoutReceiptId,
                ResetFlags, ClearEventsMap, ClearJoinReciepts, ClearExitReciepts, flags
  <2>3. ~gotError /\ isRunning /\ isRunning' /\ ~gotError'
    <3>1. ~gotError /\ isRunning
      BY <1>0, <2>1
    <3>2. isRunning'
      BY <2>2, <3>1
    <3>3. CASE gotError' = gotError
      BY <3>1, <3>2, <3>3
    <3>4. CASE gotError' = FALSE
      BY <3>1, <3>2, <3>4
    <3> QED
      BY <2>2, <3>3, <3>4
  <2> QED
    BY <2>1, <2>3 DEF ErrorEnds
<1>5. CASE Close \/ Delete \/ Stop
  <2>1. UNCHANGED gotError
    BY <1>5 DEF Close, Delete, Stop, protocol, flags
  <2>2. CASE Close
    BY <2>1, <2>2 DEF Close, ErrorEnds
  <2>3. CASE Delete
    BY <2>1, <2>3 DEF Delete, ErrorEnds
  <2>4. CASE Stop
    BY <2>1, <2>4 DEF Stop, ErrorEnds
  <2> QED
    BY <1>5, <2>2, <2>3, <2>4
<1>6. CASE Broker \/ LoseConnection
  BY <1>6 DEF Broker, LoseConnection, ErrorEnds, protocol, flags
<1> QED
  BY <1>1, <1>2, <1>3, <1>4, <1>5, <1>6 DEF Next, ServerThread, RestArrives, RoomForWrite

\* Every step keeps the invariant.
LEMMA NextKeepsIds ==
    ASSUME TypeInv, TypeInv', Inv, ReceiptInv, Next
    PROVE  ReceiptInv'
<1>1. ErrorEnds' /\ (~gotError' => ~gotError)
  BY ErrorStillEnds DEF ReceiptInv
<1> SUFFICES ASSUME ~gotError' PROVE IdsExact'
  BY <1>1 DEF ReceiptInv
<1>2. ~gotError /\ IdsExact /\ isRunning
  BY <1>1 DEF ReceiptInv, ErrorEnds
<1>3. CASE MainThread \/ User
  BY <1>2, <1>3, MainKeepsIds
<1>4. CASE ServerThread \/ RestArrives \/ RoomForWrite
  <2>1. CASE \/ Loop \/ SendMessage("drain") \/ SendMessage("write") \/ WriteBlocks
             \/ NothingAvailable \/ GetPart \/ GetMessageFails \/ Close \/ Delete
    BY <1>2, <2>1, ServerThreadWaits
  <2>2. CASE GetMessage("receive") \/ GetMessage("rest")
    BY <1>2, <2>2, MessageHandled
  <2>3. CASE ResetProtocol
    BY <1>2, <2>3, ProtocolReset
  <2>4. ~Stop
    BY <1>2 DEF Stop, ReceiptInv, ErrorEnds
  <2> QED
    BY <1>4, <2>1, <2>2, <2>3, <2>4 DEF ServerThread, RestArrives, RoomForWrite
<1>5. CASE Broker \/ LoseConnection
  BY <1>2, <1>5, BrokerKeepsIds, ConnectionLost
<1> QED
  BY <1>3, <1>4, <1>5 DEF Next

\* So does a step that changes nothing.
LEMMA StutterKeepsIds ==
    ASSUME TypeInv, TypeInv', ReceiptInv, UNCHANGED vars
    PROVE  ReceiptInv'
<1>0. /\ UNCHANGED <<mainVars, serverThread, isRunning, handler, messageQueue, protocol>>
      /\ UNCHANGED <<toServer, toClient, session, subIdToDestination>>
  BY DEF vars, wire, server
<1>1. ErrorEnds'
  BY <1>0 DEF ReceiptInv, ErrorEnds, protocol, flags
<1> SUFFICES ASSUME ~gotError, IdsExact PROVE IdsExact'
  BY <1>0, <1>1 DEF ReceiptInv, protocol, flags
<1>2. (Live' <=> Live) /\ (Vacant' <=> Vacant)
  BY <1>0 DEF Live, Vacant
<1>3. Way' = Way /\ Answers' = Answers
  BY <1>0, <1>2, WayKept DEF mainVars
<1>4. OneLeft' /\ AnsweredBefore' /\ SessionExact' /\ IdsGiven'
  BY <1>0, <1>2, <1>3, StillSame DEF MainStill, protocol, ids, flags
<1>5. QueueEmpty' /\ OutputOfCommand' /\ MakesOne' /\ LoggedOut'
  BY <1>0, <1>2
     DEF IdsExact, Control, QueueEmpty, OutputOfCommand, MakesOne, LoggedOut, Making, FrameOf,
         NothingSubscribed, mainVars, protocol, flags
<1> QED
  BY <1>4, <1>5 DEF IdsExact, Control

\* At first there is nothing on its way and nothing recorded.
LEMMA InitExact == Init => ReceiptInv
<1> SUFFICES ASSUME Init PROVE ReceiptInv
  OBVIOUS
<1>1. ~Live /\ ~LoggedIn /\ ~Making
  BY DEF Init, Live, LoggedIn, Making
<1>2. Way = <<>> /\ Answers = <<>>
  <2>1. Way = (<<>> \o <<>>) \o <<>> /\ Answers = <<>>
    BY <1>1 DEF Init, Way, Answers
  <2>2. (<<>> \o <<>>) \o <<>> = <<>>
    OBVIOUS
  <2> QED
    BY <2>1, <2>2
<1>3. ErrorEnds
  BY DEF Init, ErrorEnds
<1>4. QueueEmpty /\ OutputOfCommand /\ MakesOne /\ LoggedOut
  <2>1. \A i \in DOMAIN <<>> : FALSE
    OBVIOUS
  <2>2. (\A i \in DOMAIN output : FALSE) /\ ~(Len(output) > 1)
    BY <2>1 DEF Init
  <2> QED
    BY <1>1, <2>2 DEF Init, QueueEmpty, OutputOfCommand, MakesOne, LoggedOut
<1>5. IdsGiven
  BY DEF Init, IdsGiven
<1>6. AnsweredBefore /\ SessionExact
  BY <1>1 DEF AnsweredBefore, ConnectedLast, LogoutFirst, SessionExact, Init
<1>7. OneLeft
  <2>1. NoCommand \in Commands
    BY DEF NoCommand, Commands
  <2>2. \A i \in DOMAIN Way : FALSE
    <3>1. \A i \in DOMAIN <<>> : FALSE
      OBVIOUS
    <3> QED
      BY ONLY <1>2, <3>1
  <2>3. \A i \in DOMAIN Answers : FALSE
    <3>1. \A i \in DOMAIN <<>> : FALSE
      OBVIOUS
    <3> QED
      BY ONLY <1>2, <3>1
  <2>4. LeftOnWay(NoCommand) /\ LeftInAnswers(NoCommand)
    BY <1>1, <2>2, <2>3 DEF LeftOnWay, LeftInAnswers
  <2>5. LeftCommand(NoCommand) /\ LeftInRecords(NoCommand)
    BY <1>1 DEF Init, LeftCommand, LeftInRecords, NoCommand
  <2> QED
    BY <2>1, <2>4, <2>5 DEF OneLeft, Fits
<1> QED
  BY <1>3, <1>4, <1>5, <1>6, <1>7 DEF ReceiptInv, IdsExact, Control

\* With the invariant the frame at the head of toClient is understood: in a session by its
\* record, between two by the one command that can be left.
LEMMA ExactUnderstood ==
    ASSUME TypeInv, Inv, ReceiptInv
    PROVE  ReceiptsUnderstood
<1> DEFINE f == Head(toClient)
           meant == IF f.id = logoutReceiptId THEN <<"DISCONNECT", None>>
                    ELSE IF joinReciepts[f.id] # None THEN <<"SUBSCRIBE", joinReciepts[f.id]>>
                    ELSE IF exitReciepts[f.id] # None THEN <<"UNSUBSCRIBE", exitReciepts[f.id]>>
                    ELSE <<f.answers, f.channel>>
<1> SUFFICES ASSUME serverThread \in {"receive", "rest"}, toClient # <<>>,
                    f.type = "RECEIPT", f.id # 0,
                    ~(f.answers = "UNSUBSCRIBE" /\ f.subscription = 0)
             PROVE  meant = <<f.answers, f.channel>>
  BY DEF ReceiptsUnderstood
<1>1. ~gotError /\ IdsExact
  BY DEF ReceiptInv, ErrorEnds, Inv, StopIsLast
<1>2. Live /\ Answers = toClient
  BY DEF Live, Inv, HandlerKept, Answers
<1>3. 1 \in DOMAIN Answers /\ Answers[1] = f /\ f \in ServerFrame
  <2>1. toClient \in Seq(ServerFrame)
    BY WayTyped
  <2>2. 1 \in DOMAIN toClient /\ toClient[1] = f /\ f \in ServerFrame
    BY <2>1
  <2> QED
    BY <1>2, <2>2
<1>4. f.id \in Receipts /\ f.answers \in {"SUBSCRIBE", "UNSUBSCRIBE", "DISCONNECT"}
  BY <1>3 DEF ServerFrame, Connected, Message, Error
<1> HIDE DEF f
<1>5. CASE userLoggedIn
  <2>1. AnswerRecorded(f)
    BY <1>1, <1>2, <1>3, <1>5 DEF IdsExact, SessionExact, LoggedIn, AnswersRecorded
  <2>2. /\ f.answers = "SUBSCRIBE" =>
              f.id # logoutReceiptId /\ joinReciepts[f.id] = f.channel /\ f.channel # None
        /\ f.answers = "UNSUBSCRIBE" =>
              /\ f.id # logoutReceiptId
              /\ joinReciepts[f.id] = None /\ exitReciepts[f.id] = f.channel
        /\ f.answers = "DISCONNECT" =>
              joinReciepts[f.id] = None /\ exitReciepts[f.id] = None /\ f.channel = None
    BY <2>1 DEF AnswerRecorded
  <2>3. CASE f.answers = "SUBSCRIBE"
    BY <2>2, <2>3
  <2>4. CASE f.answers = "UNSUBSCRIBE"
    BY <2>2, <2>4
  <2>5. CASE f.answers = "DISCONNECT"
    BY <2>2, <2>5
  <2> QED
    BY <1>4, <2>3, <2>4, <2>5
<1>6. CASE ~userLoggedIn
  <2>1. PICK left \in Commands : Fits(left)
    BY <1>1, <1>6 DEF IdsExact, OneLeft, LoggedIn
  <2>2. AnswerTo(left, f)
    BY <1>3, <2>1 DEF Fits, LeftInAnswers
  <2>3. /\ logoutReceiptId # 0 => left.verb = "logout"
        /\ joinReciepts[f.id] # None => left.verb = "join" /\ left.channel = joinReciepts[f.id]
        /\ exitReciepts[f.id] # None => left.verb = "exit"
    BY <1>4, <2>1
       DEF Fits, LeftInRecords, LogoutUnreset, EventsUnreset, JoinsUnreset, ExitsUnreset
  <2>4. CASE left.verb = "join" /\ f.answers = "SUBSCRIBE" /\ f.channel = left.channel
    BY <2>3, <2>4
  <2>5. CASE left.verb = "logout" /\ f.answers = "DISCONNECT" /\ f.channel = None
    BY <2>3, <2>5
  <2> QED
    BY <2>2, <2>4, <2>5 DEF AnswerTo
<1> QED
  BY <1>5, <1>6

\* A receipt is taken for what it is an answer to, whatever stores of resetProtocol, commands
\* and answers of the session before overlap: StompClient's ReceiptsUnderstood, for any
\* channels and bounds.
THEOREM ReceiptsAlwaysUnderstood == Spec => []ReceiptsUnderstood
<1>1. Init => TypeInv /\ Inv /\ ReceiptInv
  BY InitTyped, InitKept, InitExact
<1>2. TypeInv /\ Inv /\ ReceiptInv /\ [Next]_vars => TypeInv' /\ Inv' /\ ReceiptInv'
  BY TypesKept, InvKept, NextKeepsIds, StutterKeepsIds
<1>3. TypeInv /\ Inv /\ ReceiptInv => ReceiptsUnderstood
  BY ExactUnderstood
<1> QED
  BY <1>1, <1>2, <1>3, PTL DEF Spec
=============================================================================
