-------------------------- MODULE BrokerThreadsProofs --------------------------
(***************************************************************************)
(* Proofs about BrokerThreads, for any number of connections, names,       *)
(* channels and frames.                                                    *)
(***************************************************************************)
EXTENDS BrokerThreads, FiniteSetTheorems, WellFoundedInduction, TLAPS

-----------------------------------------------------------------------------
(* Types: what a handler has read, at each place it can be.                  *)

Account == [userName : Names, isLoggedIn : BOOLEAN]
Cell == Conns \cup {None}

Resting == [at : {"idle", "dead", "logout", "removeClient"}]
LoggingIn == [at : {"check", "connect"}, name : Names, user : Nat]
AtChannel == [at : {"containsKey", "put", "get", "unsubscribe", "subscribers"},
              dest : Destinations]
Adding == [at : {"add"}, queue : Nat]
Leaving == [at : {"removeFromChanels"}, left : SUBSET Destinations]
Counting == [at : {"increment"}, dest : Destinations, count : Nat]
Sending == [at : {"loop", "client", "subscriptionId", "send", "handler"},
            dest : Destinations, queue : Nat, subscriber : Cell,
            next : [cell : Nat, element : Cell], due : SUBSET Conns,
            seen : [Conns -> Nat], served : SUBSET Cell, over : SUBSET Conns]

Job == UNION {Resting, LoggingIn, AtChannel, Adding, Leaving, Counting, Sending}

DataOK ==
    /\ users \in Seq(Account)
    /\ activeUsers \in [Conns -> 0..Len(users)]
    /\ activeClients \subseteq Conns
    /\ chanelSubscription \in [Destinations -> 0..Len(queues)]
    /\ queues \in Seq(Seq(Cell))
    /\ counterMessageId \in Nat
    /\ destinationToSubId \in [Conns -> SUBSET Destinations]
    /\ frames \in [Conns -> 0..MaxFrames]

\* A place of a handler, and with it what it has read.
InSending(c) == job[c].at \in {"loop", "client", "subscriptionId", "send", "handler"}

\* What a handler has read stays the index of an object, and a destination that it holds
\* has a queue once its SUBSCRIBE has looked for one.
ReferencesOf(c) ==
    /\ job[c].at \in {"check", "connect"} =>
            job[c].user \in 0..Len(users)
    /\ job[c].at = "connect" => job[c].user # 0
    /\ job[c].at = "add" \/ InSending(c) => job[c].queue \in DOMAIN queues
    /\ job[c].at \in {"get", "unsubscribe", "increment", "subscribers"} =>
            chanelSubscription[job[c].dest] # 0
    /\ \A d \in destinationToSubId[c] :
            \/ chanelSubscription[d] # 0
            \/ job[c].at \in {"containsKey", "put"} /\ job[c].dest = d

ReferencesOK == \A c \in Conns : ReferencesOf(c)

Types == DataOK /\ job \in [Conns -> Job] /\ ReferencesOK

-----------------------------------------------------------------------------
(* Lemmas about the queues.                                                  *)

\* A nonempty set of natural numbers has a least one: of the intervals from 0 to one of
\* its numbers one is smallest.
LEMMA FirstIsLeast ==
    ASSUME NEW S \in SUBSET Nat, S # {}
    PROVE  FirstOf(S) \in S /\ \A k \in S : FirstOf(S) <= k
<1>1. PICK m \in S : TRUE
  OBVIOUS
<1> DEFINE T == {A \in FiniteSubsetsOf(0..m) : \E k \in S : A = 0..k}
<1>2. IsFiniteSet(0..m)
  BY FS_Interval
<1>3. 0..m \in T
  BY <1>2 DEF FiniteSubsetsOf
<1>4. PICK A \in T : \A B \in T : ~ (<<B, A>> \in StrictSubsetOrdering(0..m))
  <2>1. IsWellFoundedOn(StrictSubsetOrdering(0..m), FiniteSubsetsOf(0..m))
    BY <1>2, FS_StrictSubsetOrderingWellFounded
  <2> QED
    BY <2>1, <1>3, WFMin
<1>5. PICK k \in S : A = 0..k
  BY <1>4
<1>6. ASSUME NEW l \in S, l < k
      PROVE  FALSE
  <2>1. 0..l \subseteq A /\ 0..l # A
    BY <1>5, <1>6
  <2>2. A \subseteq 0..m
    BY <1>4 DEF FiniteSubsetsOf
  <2>3. IsFiniteSet(0..l)
    BY FS_Interval
  <2>4. 0..l \in T
    BY <2>1, <2>2, <2>3 DEF FiniteSubsetsOf
  <2> QED
    BY <2>1, <2>2, <2>4, <1>4 DEF StrictSubsetOrdering
<1>7. \E n \in S : \A l \in S : n <= l
  BY <1>5, <1>6
<1> QED
  BY <1>7 DEF FirstOf

\* An element is taken out of one queue of one cell, the others stay as they are.
LEMMA RemoveFacts ==
    ASSUME queues \in Seq(Seq(Cell)), NEW q \in DOMAIN queues, NEW c \in Conns
    PROVE  /\ Remove(q, c) \in Seq(Seq(Cell))
           /\ DOMAIN Remove(q, c) = DOMAIN queues
           /\ Len(Remove(q, c)) = Len(queues)
           /\ \A r \in DOMAIN queues :
                /\ DOMAIN Remove(q, c)[r] = DOMAIN queues[r]
                /\ Len(Remove(q, c)[r]) = Len(queues[r])
                /\ r # q => Remove(q, c)[r] = queues[r]
                /\ \A k \in DOMAIN queues[r] :
                      Remove(q, c)[r][k] =
                          IF r = q /\ Live(q, c) # {} /\ k = FirstOf(Live(q, c))
                          THEN None ELSE queues[r][k]
<1> DEFINE k == FirstOf(Live(q, c))
<1>1. queues[q] \in Seq(Cell)
  OBVIOUS
<1>2. CASE Live(q, c) = {}
  <2>1. Remove(q, c) = queues
    BY <1>2 DEF Remove, FirstOf
  <2> QED
    BY <1>2, <2>1
<1>3. CASE Live(q, c) # {}
  <2>1. Live(q, c) \in SUBSET Nat
    BY <1>1 DEF Live
  <2>2. k \in Live(q, c)
    BY <1>3, <2>1, FirstIsLeast
  <2>3. k \in DOMAIN queues[q] /\ k # 0
    BY <1>1, <2>2 DEF Live
  <2>4. Remove(q, c) = [queues EXCEPT ![q] = [queues[q] EXCEPT ![k] = None]]
    BY <2>3 DEF Remove
  <2>5. /\ [queues[q] EXCEPT ![k] = None] \in Seq(Cell)
        /\ Len([queues[q] EXCEPT ![k] = None]) = Len(queues[q])
    BY <1>1, <2>3 DEF Cell
  <2>6. Remove(q, c) \in Seq(Seq(Cell)) /\ Len(Remove(q, c)) = Len(queues)
    BY <2>4, <2>5
  <2> HIDE DEF k
  <2>7. ASSUME NEW r \in DOMAIN queues
        PROVE  Remove(q, c)[r] = IF r = q THEN [queues[q] EXCEPT ![k] = None] ELSE queues[r]
    BY <2>4
  <2>8. ASSUME NEW r \in DOMAIN queues, NEW j \in DOMAIN queues[r]
        PROVE  Remove(q, c)[r][j] = IF r = q /\ j = k THEN None ELSE queues[r][j]
    BY <2>7, <2>3
  <2>9. DOMAIN Remove(q, c) = DOMAIN queues
    BY <2>4
  <2>10. \A r \in DOMAIN queues : /\ DOMAIN Remove(q, c)[r] = DOMAIN queues[r]
                                  /\ Len(Remove(q, c)[r]) = Len(queues[r])
    BY <2>7, <2>5
  <2> QED
    BY <1>3, <2>6, <2>7, <2>8, <2>9, <2>10 DEF k
<1> QED
  BY <1>2, <1>3

LEMMA NextAfterFacts ==
    ASSUME queues \in Seq(Seq(Cell)), NEW q \in DOMAIN queues, NEW k \in Nat
    PROVE  /\ NextAfter(q, k) \in [cell : Nat, element : Cell]
           /\ NextAfter(q, k).cell # 0 =>
                /\ NextAfter(q, k).cell \in DOMAIN queues[q]
                /\ NextAfter(q, k).cell > k
                /\ NextAfter(q, k).element = queues[q][NextAfter(q, k).cell]
                /\ NextAfter(q, k).element \in Conns
           /\ NextAfter(q, k).cell = 0 => NextAfter(q, k).element = None
           /\ \A l \in DOMAIN queues[q] : l > k /\ queues[q][l] # None =>
                NextAfter(q, k).cell # 0 /\ NextAfter(q, k).cell <= l
<1> DEFINE cells == {l \in DOMAIN queues[q] : l > k /\ queues[q][l] # None}
<1>1. queues[q] \in Seq(Cell)
  OBVIOUS
<1>2. cells \in SUBSET Nat
  BY <1>1
<1>3. CASE cells = {}
  <2>1. NextAfter(q, k) = [cell |-> 0, element |-> None]
    BY <1>3 DEF NextAfter, FirstOf
  <2> QED
    BY <1>3, <2>1 DEF Cell
<1>4. CASE cells # {}
  <2>1. FirstOf(cells) \in cells /\ \A l \in cells : FirstOf(cells) <= l
    BY <1>2, <1>4, FirstIsLeast
  <2> DEFINE l == FirstOf(cells)
  <2>2. l \in DOMAIN queues[q] /\ l \in Nat /\ l > k /\ l # 0 /\ queues[q][l] # None
    BY <2>1, <1>1
  <2>3. NextAfter(q, k) = [cell |-> l, element |-> queues[q][l]]
    BY <2>2 DEF NextAfter
  <2>4. queues[q][l] \in Conns
    BY <1>1, <2>2 DEF Cell
  <2>5. \A m \in DOMAIN queues[q] : m > k /\ queues[q][m] # None => l <= m
    BY <2>1
  <2> HIDE DEF l
  <2>6. NextAfter(q, k).cell = l /\ NextAfter(q, k).element = queues[q][l]
    BY <2>3
  <2>7. NextAfter(q, k) \in [cell : Nat, element : Cell]
    BY <2>2, <2>3, <2>4 DEF Cell
  <2>8. \A m \in DOMAIN queues[q] : m > k /\ queues[q][m] # None =>
            NextAfter(q, k).cell # 0 /\ NextAfter(q, k).cell <= m
    BY <2>2, <2>5, <2>6
  <2>9. /\ NextAfter(q, k).cell # 0
        /\ NextAfter(q, k).cell \in DOMAIN queues[q] /\ NextAfter(q, k).cell > k
        /\ NextAfter(q, k).element = queues[q][NextAfter(q, k).cell]
        /\ NextAfter(q, k).element \in Conns
    BY <2>2, <2>4, <2>6
  <2> QED
    BY <2>7, <2>8, <2>9
<1> QED
  BY <1>3, <1>4

-----------------------------------------------------------------------------
(* Every step keeps the types.                                               *)

\* What a handler has read, by its place.
LEMMA JobAt ==
    ASSUME NEW c \in Conns, job \in [Conns -> Job]
    PROVE  /\ job[c].at \in {"check", "connect"} => job[c] \in LoggingIn
           /\ job[c].at \in {"containsKey", "put", "get", "unsubscribe", "subscribers"} =>
                job[c] \in AtChannel
           /\ job[c].at = "add" => job[c] \in Adding
           /\ job[c].at = "removeFromChanels" => job[c] \in Leaving
           /\ job[c].at = "increment" => job[c] \in Counting
           /\ InSending(c) => job[c] \in Sending
BY DEF Job, Resting, LoggingIn, AtChannel, Adding, Leaving, Counting, Sending, InSending

\* A step of the handler of c: it goes on to r, and takes nothing away that the
\* handlers of others have read.
Moves(c, r) ==
    /\ r \in Job
    /\ job' = [job EXCEPT ![c] = r]
    /\ Len(users) <= Len(users')
    /\ DOMAIN queues \subseteq DOMAIN queues'
    /\ \A d \in Destinations : chanelSubscription[d] # 0 => chanelSubscription'[d] # 0
    /\ \A i \in Conns \ {c} : /\ activeUsers'[i] = activeUsers[i]
                              /\ destinationToSubId'[i] = destinationToSubId[i]

LEMMA MovesKeepTypes ==
    ASSUME Types, NEW c \in Conns, NEW r, Moves(c, r), DataOK', ReferencesOf(c)'
    PROVE  Types'
<1>1. job' \in [Conns -> Job]
  BY DEF Types, Moves
<1>2. ASSUME NEW i \in Conns, i # c
      PROVE  ReferencesOf(i)'
  <2>1. /\ job'[i] = job[i] /\ ReferencesOf(i)
        /\ activeUsers'[i] = activeUsers[i] /\ destinationToSubId'[i] = destinationToSubId[i]
    BY <1>2 DEF Types, Moves, ReferencesOK
  <2>2. /\ Len(users) \in Nat /\ Len(users') \in Nat /\ Len(users) <= Len(users')
        /\ DOMAIN queues \subseteq DOMAIN queues'
        /\ destinationToSubId[i] \subseteq Destinations
    BY DEF Types, DataOK, Moves
  <2>3. job[i].at \in {"get", "unsubscribe", "increment", "subscribers"} =>
            job[i].dest \in Destinations
    BY JobAt DEF Types, AtChannel, Counting
  <2>4. job[i].at \in {"check", "connect"} => job[i].user \in 0..Len(users')
    BY <2>1, <2>2 DEF ReferencesOf
  <2> QED
    BY <2>1, <2>2, <2>3, <2>4 DEF ReferencesOf, InSending, Moves
<1> QED
  BY <1>1, <1>2 DEF Types, ReferencesOK

\* The record a handler starts or goes on with is one of its places.
LEMMA Places ==
    /\ Idle \in Job /\ Dead \in Job
    /\ [at |-> "logout"] \in Job /\ [at |-> "removeClient"] \in Job
    /\ \A at \in {"containsKey", "put", "get", "unsubscribe", "subscribers"},
          d \in Destinations : [at |-> at, dest |-> d] \in Job
    /\ \A q \in Nat : [at |-> "add", queue |-> q] \in Job
    /\ \A left \in SUBSET Destinations : [at |-> "removeFromChanels", left |-> left] \in Job
    /\ \A d \in Destinations, n \in Nat : [at |-> "increment", dest |-> d, count |-> n] \in Job
    /\ \A at \in {"check", "connect"}, name \in Names, u \in Nat :
          [at |-> at, name |-> name, user |-> u] \in Job
    /\ Sending \subseteq Job
BY DEF Idle, Dead, Job, Resting, LoggingIn, AtChannel, Adding, Leaving, Counting, Sending

LEMMA BeginFacts ==
    ASSUME Types, NEW c \in Conns, NEW r, Begin(c, r)
    PROVE  job[c].at = "idle" /\ frames' \in [Conns -> 0..MaxFrames]
           /\ job' = [job EXCEPT ![c] = r]
BY ThreadsAssumption DEF Begin, Goes, Idle, Types, DataOK

\* A step of the handler of c that leaves accounts and channels alone: what has to be
\* shown is that the place it goes to is one, with references that are good.
References(c, r) ==
    /\ r.at \in {"check", "connect"} => r.user \in 0..Len(users)
    /\ r.at = "connect" => r.user # 0
    /\ r.at \in {"add", "loop", "client", "subscriptionId", "send", "handler"} =>
            r.queue \in DOMAIN queues
    /\ r.at \in {"get", "unsubscribe", "increment", "subscribers"} =>
            chanelSubscription[r.dest] # 0
    /\ \A d \in destinationToSubId'[c] :
            \/ chanelSubscription[d] # 0
            \/ r.at \in {"containsKey", "put"} /\ r.dest = d

LEMMA JobStepTypes ==
    ASSUME Types, NEW c \in Conns, NEW r \in Job, Goes(c, r), References(c, r),
           UNCHANGED <<users, activeUsers, chanelSubscription, queues>>,
           activeClients' \subseteq Conns, counterMessageId' \in Nat,
           frames' \in [Conns -> 0..MaxFrames],
           destinationToSubId' \in [Conns -> SUBSET Destinations],
           \A i \in Conns \ {c} : destinationToSubId'[i] = destinationToSubId[i]
    PROVE  Types'
<1>1. DataOK'
  BY DEF Types, DataOK
<1>2. Moves(c, r)
  BY DEF Moves, Goes, Types, DataOK
<1>3. job'[c] = r
  BY DEF Goes, Types
<1>4. ReferencesOf(c)'
  BY <1>3 DEF ReferencesOf, References, InSending
<1> QED
  BY <1>1, <1>2, <1>4, MovesKeepTypes

LEMMA ConnectTypes ==
    ASSUME Types, NEW c \in Conns, Connect(c)
    PROVE  Types'
<1> USE DEF accounts, channels, protocols
<1>1. CASE UserIsExists(c)
  <2>1. PICK name \in Names :
            Begin(c, [at |-> "check", name |-> name, user |-> FirstOf(AccountsOf(name))])
    BY <1>1 DEF UserIsExists
  <2> DEFINE u == FirstOf(AccountsOf(name))
             r == [at |-> "check", name |-> name, user |-> u]
  <2>2. u \in 0..Len(users)
    <3>1. AccountsOf(name) \in SUBSET (1..Len(users)) /\ AccountsOf(name) \in SUBSET Nat
      BY DEF AccountsOf, Types, DataOK
    <3>2. CASE AccountsOf(name) = {}
      BY <3>2 DEF FirstOf, Types, DataOK
    <3>3. CASE AccountsOf(name) # {}
      <4>1. u \in AccountsOf(name)
        BY <3>1, <3>3, FirstIsLeast
      <4> QED
        BY <3>1, <4>1
    <3> QED
      BY <3>2, <3>3
  <2>3. r \in Job
    BY <2>2, Places
  <2>4. DataOK' /\ job' = [job EXCEPT ![c] = r]
    BY <1>1, <2>1, BeginFacts DEF UserIsExists, Types, DataOK
  <2>5. job'[c] = r
    BY <2>4 DEF Types
  <2>6. Moves(c, r)
    BY <1>1, <2>3, <2>4 DEF Moves, UserIsExists, Types, DataOK
  <2>7. job[c].at = "idle"
    BY <2>1, BeginFacts
  <2> HIDE DEF u
  <2>8. ReferencesOf(c)'
    BY <1>1, <2>2, <2>5, <2>7 DEF ReferencesOf, InSending, Types, ReferencesOK, UserIsExists
  <2> HIDE DEF r
  <2> QED
    BY <2>4, <2>6, <2>8, MovesKeepTypes
<1>2. CASE IsLoggedIn(c)
  <2>1. job[c] \in LoggingIn
    BY <1>2, JobAt DEF IsLoggedIn, Types
  <2>2. PICK r \in {[at |-> "logout"], [job[c] EXCEPT !.at = "connect"]} : Goes(c, r)
    BY <1>2 DEF IsLoggedIn
  <2>3. [job[c] EXCEPT !.at = "connect"] =
            [at |-> "connect", name |-> job[c].name, user |-> job[c].user]
    BY <2>1 DEF LoggingIn
  <2>4. r \in Job
    BY <2>1, <2>2, <2>3, Places DEF LoggingIn
  <2>5. UNCHANGED <<users, activeUsers, activeClients, chanelSubscription, queues,
                    counterMessageId, destinationToSubId, frames>>
    BY <1>2 DEF IsLoggedIn
  <2>6. /\ job[c].at = "check" /\ job[c].user # 0 /\ ReferencesOf(c)
        /\ r.at = "logout" \/ (r.at = "connect" /\ r.user = job[c].user)
    BY <1>2, <2>2, <2>3 DEF IsLoggedIn, Types, ReferencesOK
  <2>7. References(c, r)
    BY <2>5, <2>6 DEF References, ReferencesOf
  <2> QED
    BY <2>2, <2>4, <2>5, <2>7, JobStepTypes DEF Types, DataOK
<1>3. CASE ConnectKnown(c)
  <2> DEFINE u == job[c].user
  <2>1. u \in 0..Len(users) /\ u # 0
    BY <1>3 DEF ConnectKnown, Types, ReferencesOK, ReferencesOf
  <2>2. u \in DOMAIN users /\ users \in Seq(Account)
    BY <2>1 DEF Types, DataOK
  <2>3. users' = [users EXCEPT ![u] = [users[u] EXCEPT !.isLoggedIn = TRUE]]
    BY <1>3, <2>2 DEF ConnectKnown
  <2>4. users[u] \in Account /\ [users[u] EXCEPT !.isLoggedIn = TRUE] \in Account
    <3>1. users[u] \in Account
      BY <2>2
    <3> QED
      BY <3>1 DEF Account
  <2>5. users' \in Seq(Account) /\ Len(users') = Len(users)
    BY <2>2, <2>3, <2>4
  <2>6. DataOK' /\ Moves(c, Idle)
    BY <1>3, <2>1, <2>5, Places DEF Moves, ConnectKnown, EnterAccount, Goes, Types, DataOK
  <2>7. job'[c] = Idle
    BY <1>3 DEF ConnectKnown, Goes, Types
  <2>8. ReferencesOf(c)'
    BY <1>3, <2>7 DEF ReferencesOf, InSending, Idle, Types, ReferencesOK, ConnectKnown
  <2> QED
    BY <2>6, <2>8, MovesKeepTypes
<1>4. CASE ConnectNew(c)
  <2>1. [userName |-> job[c].name, isLoggedIn |-> TRUE] \in Account
    BY <1>4, JobAt DEF ConnectNew, LoggingIn, Account, Types
  <2>2. users' \in Seq(Account) /\ Len(users') = Len(users) + 1
    BY <1>4, <2>1 DEF ConnectNew, Types, DataOK
  <2>3. DataOK' /\ Moves(c, Idle)
    BY <1>4, <2>2, Places DEF Moves, ConnectNew, EnterAccount, Goes, Types, DataOK
  <2>4. job'[c] = Idle
    BY <1>4 DEF ConnectNew, Goes, Types
  <2>5. ReferencesOf(c)'
    BY <1>4, <2>4 DEF ReferencesOf, InSending, Idle, Types, ReferencesOK, ConnectNew
  <2> QED
    BY <2>3, <2>5, MovesKeepTypes
<1> QED
  BY <1>1, <1>2, <1>3, <1>4 DEF Connect

LEMMA SubscribeTypes ==
    ASSUME Types, NEW c \in Conns, Subscribe(c)
    PROVE  Types'
<1> USE DEF accounts, channels, protocols
<1>0. ReferencesOf(c) /\ DataOK
  BY DEF Types, ReferencesOK
<1>1. ASSUME NEW d \in Destinations, HoldDestination(c, d)
      PROVE  Types'
  <2> DEFINE r == [at |-> "containsKey", dest |-> d]
  <2>1. /\ job[c].at = "idle" /\ Goes(c, r)
        /\ frames' \in [Conns -> 0..MaxFrames]
    BY <1>1, BeginFacts DEF HoldDestination, Goes
  <2>2. r \in Job
    BY Places
  <2>3. /\ destinationToSubId' \in [Conns -> SUBSET Destinations]
        /\ destinationToSubId'[c] = destinationToSubId[c] \cup {d}
        /\ \A i \in Conns \ {c} : destinationToSubId'[i] = destinationToSubId[i]
    BY <1>1, <1>0 DEF HoldDestination, DataOK
  <2>4. References(c, r)
    BY <1>0, <2>1, <2>3 DEF References, ReferencesOf
  <2> HIDE DEF r
  <2> QED
    BY <1>0, <1>1, <2>1, <2>2, <2>3, <2>4, JobStepTypes DEF HoldDestination, DataOK
<1>2. CASE LookForQueue(c)
  <2>1. job[c] \in AtChannel
    BY <1>2, JobAt DEF LookForQueue, Types
  <2>2. PICK at \in {"get", "put"} :
            /\ Goes(c, [job[c] EXCEPT !.at = at])
            /\ at = "get" => chanelSubscription[job[c].dest] # 0
    BY <1>2 DEF LookForQueue, ContainsKey
  <2> DEFINE r == [at |-> at, dest |-> job[c].dest]
  <2>3. Goes(c, r) /\ r \in Job
    BY <2>1, <2>2, Places DEF AtChannel
  <2>4. References(c, r)
    BY <1>0, <1>2, <2>2 DEF References, ReferencesOf, LookForQueue
  <2> HIDE DEF r
  <2> QED
    BY <1>0, <1>2, <2>3, <2>4, JobStepTypes DEF LookForQueue, DataOK
<1>3. CASE PutQueue(c)
  <2> DEFINE d == job[c].dest
             r == [at |-> "get", dest |-> d]
  <2>1. job[c] \in AtChannel
    BY <1>3, JobAt DEF PutQueue, Types
  <2>2. r \in Job /\ job' = [job EXCEPT ![c] = r] /\ d \in Destinations
    <3>1. d \in Destinations /\ [job[c] EXCEPT !.at = "get"] = r
      BY <2>1 DEF AtChannel
    <3>2. job' = [job EXCEPT ![c] = r]
      BY <1>3, <3>1 DEF PutQueue, Goes
    <3>3. r \in Job
      BY <3>1, Places
    <3> QED
      BY <3>1, <3>2, <3>3
  <2>3. queues' \in Seq(Seq(Cell)) /\ Len(queues') = Len(queues) + 1
        /\ DOMAIN queues \subseteq DOMAIN queues'
    <3>1. <<>> \in Seq(Cell)
      OBVIOUS
    <3> QED
      BY <1>0, <1>3, <3>1 DEF PutQueue, DataOK
  <2>4. /\ chanelSubscription' \in [Destinations -> 0..Len(queues')]
        /\ chanelSubscription'[d] # 0
        /\ \A e \in Destinations : chanelSubscription[e] # 0 => chanelSubscription'[e] # 0
    BY <1>0, <1>3, <2>2, <2>3 DEF PutQueue, DataOK
  <2>5. DataOK'
    BY <1>0, <1>3, <2>3, <2>4 DEF PutQueue, DataOK
  <2>6. Moves(c, r)
    BY <1>0, <1>3, <2>2, <2>3, <2>4 DEF Moves, PutQueue, DataOK
  <2>7. job'[c] = r
    BY <2>2 DEF Types
  <2>8. destinationToSubId'[c] = destinationToSubId[c] /\ destinationToSubId[c] \subseteq Destinations
    BY <1>0, <1>3 DEF PutQueue, DataOK
  <2>9. ReferencesOf(c)'
    BY <1>0, <1>3, <2>4, <2>7, <2>8 DEF ReferencesOf, InSending, PutQueue
  <2> HIDE DEF r
  <2> QED
    BY <2>5, <2>6, <2>9, MovesKeepTypes
<1>4. CASE GetQueue(c)
  <2> DEFINE q == chanelSubscription[job[c].dest]
             r == [at |-> "add", queue |-> q]
  <2>1. job[c].dest \in Destinations
    BY <1>4, JobAt DEF GetQueue, AtChannel, Types
  <2>2. q \in DOMAIN queues /\ q \in Nat
    BY <1>0, <1>4, <2>1 DEF GetQueue, ReferencesOf, DataOK
  <2>3. r \in Job /\ Goes(c, r)
    BY <1>4, <2>2, Places DEF GetQueue
  <2>4. References(c, r)
    BY <1>0, <1>4, <2>2 DEF References, ReferencesOf, GetQueue
  <2> HIDE DEF r
  <2> QED
    BY <1>0, <1>4, <2>3, <2>4, JobStepTypes DEF GetQueue, DataOK
<1>5. CASE AddToQueue(c)
  <2> DEFINE q == job[c].queue
  <2>1. q \in DOMAIN queues
    BY <1>0, <1>5 DEF AddToQueue, ReferencesOf
  <2>2. queues[q] \in Seq(Cell) /\ Append(queues[q], c) \in Seq(Cell)
    BY <1>0, <2>1 DEF DataOK, Cell
  <2>3. queues' = [queues EXCEPT ![q] = Append(queues[q], c)]
    BY <1>5, <2>1 DEF AddToQueue
  <2>4. queues' \in Seq(Seq(Cell)) /\ Len(queues') = Len(queues)
        /\ DOMAIN queues' = DOMAIN queues
    <3>1. ASSUME NEW s \in Seq(Cell), queues' = [queues EXCEPT ![q] = s]
          PROVE  queues' \in Seq(Seq(Cell)) /\ Len(queues') = Len(queues)
                 /\ DOMAIN queues' = DOMAIN queues
      BY <1>0, <2>1, <3>1 DEF DataOK
    <3> QED
      BY <2>2, <2>3, <3>1
  <2>5. DataOK'
    BY <1>0, <1>5, <2>4 DEF AddToQueue, DataOK
  <2>6. Moves(c, Idle)
    BY <1>0, <1>5, <2>4, Places DEF AddToQueue, DataOK, Moves, Goes
  <2>7. job'[c] = Idle
    BY <1>5 DEF AddToQueue, Goes, Types
  <2>8. ReferencesOf(c)'
    BY <1>0, <1>5, <2>7 DEF ReferencesOf, InSending, Idle, AddToQueue
  <2> QED
    BY <2>5, <2>6, <2>8, MovesKeepTypes
<1> QED
  BY <1>1, <1>2, <1>3, <1>4, <1>5 DEF Subscribe

\* A step of the handler of c that takes it out of some queues, and only goes on.
LEMMA RemovalTypes ==
    ASSUME Types, NEW c \in Conns, NEW q \in DOMAIN queues, queues' = Remove(q, c),
           NEW r \in Job, Goes(c, r), r.at \in {"idle", "removeFromChanels"},
           job[c].at \in {"unsubscribe", "removeFromChanels"},
           UNCHANGED <<users, activeUsers, activeClients, chanelSubscription,
                       counterMessageId, destinationToSubId, frames>>
    PROVE  Types'
<1>0. ReferencesOf(c) /\ DataOK
  BY DEF Types, ReferencesOK
<1>1. queues' \in Seq(Seq(Cell)) /\ Len(queues') = Len(queues) /\ DOMAIN queues' = DOMAIN queues
  BY <1>0, RemoveFacts DEF DataOK
<1>2. DataOK'
  BY <1>0, <1>1 DEF DataOK
<1>3. Moves(c, r)
  BY <1>0, <1>1 DEF DataOK, Moves, Goes
<1>4. job'[c] = r
  BY DEF Goes, Types
<1>5. ReferencesOf(c)'
  BY <1>0, <1>4 DEF ReferencesOf, InSending
<1> QED
  BY <1>2, <1>3, <1>5, MovesKeepTypes

LEMMA UnsubscribeTypes ==
    ASSUME Types, NEW c \in Conns, Unsubscribe(c)
    PROVE  Types'
<1> USE DEF accounts, channels, protocols
<1>0. ReferencesOf(c) /\ DataOK
  BY DEF Types, ReferencesOK
<1>1. ASSUME NEW d \in Destinations, GiveUpDestination(c, d)
      PROVE  Types'
  <2> DEFINE r == [at |-> "unsubscribe", dest |-> d]
  <2>1. /\ job[c].at = "idle" /\ Goes(c, r)
        /\ frames' \in [Conns -> 0..MaxFrames]
    BY <1>1, BeginFacts DEF GiveUpDestination, Goes
  <2>2. r \in Job
    BY Places
  <2>3. /\ destinationToSubId' \in [Conns -> SUBSET Destinations]
        /\ destinationToSubId'[c] = destinationToSubId[c] \ {d}
        /\ \A i \in Conns \ {c} : destinationToSubId'[i] = destinationToSubId[i]
    BY <1>1, <1>0 DEF GiveUpDestination, DataOK
  <2>4. References(c, r)
    BY <1>0, <1>1, <2>1, <2>3 DEF References, ReferencesOf, GiveUpDestination
  <2> HIDE DEF r
  <2> QED
    BY <1>0, <1>1, <2>1, <2>2, <2>3, <2>4, JobStepTypes DEF GiveUpDestination, DataOK
<1>2. CASE UnSubscribeClient(c)
  <2>1. job[c].dest \in Destinations
    BY <1>2, JobAt DEF UnSubscribeClient, AtChannel, Types
  <2>2. chanelSubscription[job[c].dest] \in DOMAIN queues
    BY <1>0, <1>2, <2>1 DEF UnSubscribeClient, ReferencesOf, DataOK
  <2> QED
    BY <1>2, <2>2, Places, RemovalTypes DEF UnSubscribeClient, Idle
<1> QED
  BY <1>1, <1>2 DEF Unsubscribe

LEMMA DisconnectTypes ==
    ASSUME Types, NEW c \in Conns, Disconnect(c)
    PROVE  Types'
<1> USE DEF accounts, channels, protocols
<1>0. ReferencesOf(c) /\ DataOK
  BY DEF Types, ReferencesOK
<1>1. CASE HandleDisconnect(c) \/ SendError(c)
  <2> DEFINE r == [at |-> "logout"]
  <2>1. /\ job[c].at = "idle" /\ Goes(c, r)
        /\ frames' \in [Conns -> 0..MaxFrames]
    BY <1>1, BeginFacts DEF HandleDisconnect, SendError, Goes
  <2>2. r \in Job
    BY Places
  <2>3. /\ destinationToSubId' \in [Conns -> SUBSET Destinations]
        /\ destinationToSubId'[c] \subseteq destinationToSubId[c]
        /\ \A i \in Conns \ {c} : destinationToSubId'[i] = destinationToSubId[i]
    BY <1>1, <1>0 DEF HandleDisconnect, SendError, DataOK
  <2>4. References(c, r)
    BY <1>0, <2>1, <2>3 DEF References, ReferencesOf
  <2> HIDE DEF r
  <2> QED
    BY <1>0, <1>1, <2>1, <2>2, <2>3, <2>4, JobStepTypes DEF HandleDisconnect, SendError, DataOK
<1>2. CASE DisconnectUser(c)
  <2> DEFINE r == [at |-> "removeClient"]
  <2>1. users' \in Seq(Account) /\ Len(users') = Len(users)
    <3> DEFINE u == activeUsers[c]
    <3>1. CASE u = 0
      BY <1>0, <1>2, <3>1 DEF DisconnectUser, Logout, DataOK
    <3>2. CASE u # 0
      <4>1. u \in DOMAIN users /\ users[u] \in Account
        BY <1>0, <3>2 DEF DataOK
      <4>2. [users[u] EXCEPT !.isLoggedIn = FALSE] \in Account
        BY <4>1 DEF Account
      <4>3. users' = [users EXCEPT ![u] = [users[u] EXCEPT !.isLoggedIn = FALSE]]
        BY <1>2, <3>2, <4>1 DEF DisconnectUser, Logout
      <4> QED
        BY <1>0, <4>1, <4>2, <4>3 DEF DataOK
    <3> QED
      BY <3>1, <3>2
  <2>2. DataOK'
    BY <1>0, <1>2, <2>1 DEF DisconnectUser, Logout, DataOK
  <2>3. Moves(c, r)
    BY <1>0, <1>2, <2>1, Places DEF Moves, Goes, DisconnectUser, Logout, DataOK
  <2>4. job'[c] = r
    BY <1>2 DEF DisconnectUser, Goes, Types
  <2>5. ReferencesOf(c)'
    BY <1>0, <1>2, <2>4 DEF ReferencesOf, InSending, DisconnectUser
  <2> HIDE DEF r
  <2> QED
    BY <2>2, <2>3, <2>5, MovesKeepTypes
<1>3. CASE RemoveClient(c)
  <2> DEFINE r == [at |-> "removeFromChanels", left |-> Destinations]
  <2>1. r \in Job
    BY Places
  <2>2. References(c, r)
    BY <1>0, <1>3 DEF References, ReferencesOf, RemoveClient
  <2> QED
    BY <1>0, <1>3, <2>1, <2>2, JobStepTypes DEF RemoveClient, DataOK
<1>4. CASE RemoveFromChanels(c)
  <2>1. PICK d \in job[c].left :
            /\ queues' = RemoveFromChanel(c, d)
            /\ Goes(c, IF job[c].left = {d} THEN Idle
                       ELSE [job[c] EXCEPT !.left = job[c].left \ {d}])
    BY <1>4 DEF RemoveFromChanels
  <2>2. job[c] \in Leaving /\ d \in Destinations
    BY <1>4, JobAt DEF RemoveFromChanels, Leaving, Types
  <2>3. PICK r \in Job : Goes(c, r) /\ r.at \in {"idle", "removeFromChanels"}
    <3>1. [job[c] EXCEPT !.left = job[c].left \ {d}] =
                [at |-> "removeFromChanels", left |-> job[c].left \ {d}]
      BY <2>2 DEF Leaving
    <3>2. [at |-> "removeFromChanels", left |-> job[c].left \ {d}] \in Job
      BY <2>2, Places DEF Leaving
    <3> QED
      BY <2>1, <3>1, <3>2, Places DEF Idle
  <2>4. CASE chanelSubscription[d] = 0
    <3>1. References(c, r)
      BY <1>0, <1>4, <2>3 DEF References, ReferencesOf, RemoveFromChanels
    <3> QED
      BY <1>0, <1>4, <2>1, <2>3, <2>4, <3>1, JobStepTypes
         DEF RemoveFromChanels, RemoveFromChanel, DataOK
  <2>5. CASE chanelSubscription[d] # 0
    <3>1. chanelSubscription[d] \in DOMAIN queues
      BY <1>0, <2>2, <2>5 DEF DataOK
    <3> QED
      BY <1>4, <2>1, <2>3, <2>5, <3>1, RemovalTypes DEF RemoveFromChanels, RemoveFromChanel
  <2> QED
    BY <2>4, <2>5
<1> QED
  BY <1>1, <1>2, <1>3, <1>4 DEF Disconnect

\* A step in the loop of a SEND: the records it may go on with are places of it.
LEMMA SendingStep ==
    ASSUME Types, NEW c \in Conns, InSending(c), NEW r \in Sending, Goes(c, r),
           r.queue = job[c].queue,
           UNCHANGED <<users, activeUsers, activeClients, chanelSubscription, queues,
                       counterMessageId, destinationToSubId, frames>>
    PROVE  Types'
<1>0. ReferencesOf(c) /\ DataOK
  BY DEF Types, ReferencesOK
<1>1. r.at \in {"loop", "client", "subscriptionId", "send", "handler"} /\ r \in Job
  BY Places DEF Sending
<1>2. r.queue \in DOMAIN queues
  BY <1>0 DEF ReferencesOf
<1>3. job[c].at \in {"loop", "client", "subscriptionId", "send", "handler"}
  BY DEF InSending
<1>4. References(c, r)
  BY <1>0, <1>1, <1>2, <1>3 DEF References, ReferencesOf
<1> QED
  BY <1>0, <1>1, <1>4, JobStepTypes DEF DataOK

\* The end of the loop, by itself or by an exception.
LEMMA SendingEnds ==
    ASSUME Types, NEW c \in Conns, InSending(c), Dies(c),
           UNCHANGED <<users, activeUsers, activeClients, chanelSubscription, queues,
                       counterMessageId, destinationToSubId, frames>>
    PROVE  Types'
<1>0. ReferencesOf(c) /\ DataOK
  BY DEF Types, ReferencesOK
<1>1. PICK r \in {Idle, Dead} : Goes(c, r)
  BY DEF Dies
<1>2. r \in Job /\ r.at \in {"idle", "dead"}
  BY Places DEF Idle, Dead
<1>3. job[c].at \in {"loop", "client", "subscriptionId", "send", "handler"}
  BY DEF InSending
<1>4. References(c, r)
  BY <1>0, <1>2, <1>3 DEF References, ReferencesOf
<1> QED
  BY <1>0, <1>1, <1>2, <1>4, JobStepTypes DEF DataOK

\* Another place in the loop.
LEMMA SendingPlaces ==
    ASSUME NEW s \in Sending,
           NEW at \in {"loop", "client", "subscriptionId", "send", "handler"}
    PROVE  /\ [s EXCEPT !.at = at] \in Sending
           /\ [s EXCEPT !.at = at].queue = s.queue
BY DEF Sending

LEMMA SendFrameTypes ==
    ASSUME Types, NEW c \in Conns, SendFrame(c)
    PROVE  Types'
<1> USE DEF accounts, channels, protocols
<1>0. ReferencesOf(c) /\ DataOK
  BY DEF Types, ReferencesOK
<1>a. InSending(c) => job[c] \in Sending
  BY JobAt DEF Types
<1>1. ASSUME NEW d \in Destinations, HandleSend(c, d)
      PROVE  Types'
  <2> DEFINE r == [at |-> "increment", dest |-> d, count |-> counterMessageId]
  <2>1. /\ job[c].at = "idle" /\ Goes(c, r)
        /\ frames' \in [Conns -> 0..MaxFrames]
    BY <1>1, BeginFacts DEF HandleSend, Goes
  <2>2. r \in Job
    BY <1>0, Places DEF DataOK
  <2>3. References(c, r)
    BY <1>0, <1>1, <2>1 DEF References, ReferencesOf, HandleSend
  <2> HIDE DEF r
  <2> QED
    BY <1>0, <1>1, <2>1, <2>2, <2>3, JobStepTypes DEF HandleSend, DataOK
<1>2. CASE IncrementCounterMessageId(c)
  <2> DEFINE r == [at |-> "subscribers", dest |-> job[c].dest]
  <2>1. job[c].dest \in Destinations /\ job[c].count \in Nat
    BY <1>2, JobAt DEF IncrementCounterMessageId, Counting, Types
  <2>2. r \in Job
    BY <2>1, Places
  <2>3. References(c, r)
    BY <1>0, <1>2 DEF References, ReferencesOf, IncrementCounterMessageId
  <2>4. /\ Goes(c, r)
        /\ UNCHANGED <<users, activeUsers, activeClients, chanelSubscription, queues,
                       destinationToSubId, frames>>
        /\ counterMessageId' = job[c].count + 1
    BY <1>2 DEF IncrementCounterMessageId
  <2>5. counterMessageId' \in Nat
    BY <2>1, <2>4
  <2> HIDE DEF r
  <2> QED
    BY <1>0, <2>2, <2>3, <2>4, <2>5, JobStepTypes DEF DataOK
<1>3. CASE GetSubscribers(c)
  <2> DEFINE d == job[c].dest
             q == chanelSubscription[d]
             due == {i \in Conns : /\ Live(q, i) # {}
                                   /\ d \in destinationToSubId[i]
                                   /\ i = c \/ job[i] = Idle}
             over == {i \in Conns : shouldTerminate[i] /\ job[i] = Idle /\ d \notin late[i]}
             r == [at |-> "loop", dest |-> d, queue |-> q, subscriber |-> None,
                   next |-> NextAfter(q, 0), due |-> due, seen |-> frames,
                   served |-> {}, over |-> over]
  <2>1. d \in Destinations
    BY <1>3, JobAt DEF GetSubscribers, AtChannel, Types
  <2>2. q \in DOMAIN queues /\ q \in Nat
    BY <1>0, <1>3, <2>1 DEF GetSubscribers, ReferencesOf, DataOK
  <2>3. NextAfter(q, 0) \in [cell : Nat, element : Cell]
    BY <1>0, <2>2, NextAfterFacts DEF DataOK
  <2>4. frames \in [Conns -> Nat]
    BY <1>0, ThreadsAssumption DEF DataOK
  <2>5. Goes(c, r)
    BY <1>3 DEF GetSubscribers
  <2>6. due \in SUBSET Conns /\ over \in SUBSET Conns /\ None \in Cell
    BY DEF Cell
  <2> HIDE DEF due, over
  <2>7. r \in Sending
    BY <2>1, <2>2, <2>3, <2>4, <2>6 DEF Sending
  <2>8. r \in Job /\ r.at = "loop" /\ r.queue = q
    BY <2>7, Places
  <2> HIDE DEF r
  <2>9. References(c, r)
    BY <1>0, <1>3, <2>2, <2>8 DEF References, ReferencesOf, GetSubscribers
  <2> QED
    BY <1>0, <1>3, <2>5, <2>8, <2>9, JobStepTypes DEF GetSubscribers, DataOK
<1>4. CASE NextSubscriber(c)
  <2> DEFINE e == job[c].next.element
             n == NextAfter(job[c].queue, job[c].next.cell)
             r == [job[c] EXCEPT !.at = "client", !.subscriber = e, !.next = n]
  <2>1. InSending(c) /\ job[c] \in Sending
    BY <1>4, <1>a DEF NextSubscriber, InSending
  <2>2. e \in Cell /\ job[c].next.cell \in Nat
    BY <2>1 DEF Sending
  <2>3. n \in [cell : Nat, element : Cell]
    BY <1>0, <2>1, <2>2, NextAfterFacts DEF ReferencesOf, DataOK
  <2>4. Goes(c, r)
    BY <1>4 DEF NextSubscriber
  <2> HIDE DEF e, n
  <2>5. r \in Sending /\ r.queue = job[c].queue
    BY <2>1, <2>2, <2>3 DEF Sending
  <2> HIDE DEF r
  <2> QED
    BY <1>4, <2>1, <2>4, <2>5, SendingStep DEF NextSubscriber
<1>5. CASE EndSend(c)
  BY <1>5, SendingEnds DEF EndSend, InSending, Dies
<1>6. CASE GetActiveClient(c)
  <2>1. InSending(c) /\ job[c] \in Sending
    BY <1>6, <1>a DEF GetActiveClient, InSending
  <2>2. CASE job[c].subscriber \in activeClients
    <3> DEFINE r == [job[c] EXCEPT !.at = "subscriptionId"]
    <3>1. Goes(c, r)
      BY <1>6, <2>2 DEF GetActiveClient
    <3>2. r \in Sending /\ r.queue = job[c].queue
      BY <2>1, SendingPlaces
    <3> HIDE DEF r
    <3> QED
      BY <1>6, <2>1, <3>1, <3>2, SendingStep DEF GetActiveClient
  <2>3. CASE job[c].subscriber \notin activeClients
    BY <1>6, <2>1, <2>3, SendingEnds DEF GetActiveClient
  <2> QED
    BY <2>2, <2>3
<1>7. CASE GetSubscriptionId(c) \/ Send(c)
  <2>1. InSending(c) /\ job[c] \in Sending
    BY <1>7, <1>a DEF GetSubscriptionId, Send, InSending
  <2>2. PICK at \in {"send", "loop", "handler"} : Goes(c, [job[c] EXCEPT !.at = at])
    BY <1>7 DEF GetSubscriptionId, Send
  <2> DEFINE r == [job[c] EXCEPT !.at = at]
  <2>3. r \in Sending /\ r.queue = job[c].queue /\ Goes(c, r)
    BY <2>1, <2>2, SendingPlaces
  <2> HIDE DEF r
  <2> QED
    BY <1>7, <2>1, <2>3, SendingStep DEF GetSubscriptionId, Send
<1>8. CASE SendToHandler(c)
  <2>1. InSending(c) /\ job[c] \in Sending
    BY <1>8, <1>a DEF SendToHandler, InSending
  <2>2. CASE job[c].subscriber \in activeClients
    <3> DEFINE t == job[c].served \cup {job[c].subscriber}
    <3>1. PICK at \in {"send", "loop"} : Goes(c, [job[c] EXCEPT !.at = at, !.served = t])
      BY <1>8, <2>2 DEF SendToHandler
    <3>2. t \in SUBSET Cell
      BY <2>1 DEF Sending
    <3> HIDE DEF t
    <3> DEFINE r == [job[c] EXCEPT !.at = at, !.served = t]
    <3>3. r \in Sending /\ r.queue = job[c].queue /\ Goes(c, r)
      BY <2>1, <3>1, <3>2 DEF Sending
    <3> HIDE DEF r
    <3> QED
      BY <1>8, <2>1, <3>3, SendingStep DEF SendToHandler
  <2>3. CASE job[c].subscriber \notin activeClients
    BY <1>8, <2>1, <2>3, SendingEnds DEF SendToHandler
  <2> QED
    BY <2>2, <2>3
<1> QED
  BY <1>1, <1>2, <1>3, <1>4, <1>5, <1>6, <1>7, <1>8 DEF SendFrame

-----------------------------------------------------------------------------
(* Theorems                                                                  *)

LEMMA InitTypes == Init => Types
<1> SUFFICES ASSUME Init PROVE Types
  OBVIOUS
<1>1. users \in Seq(Account) /\ queues \in Seq(Seq(Cell))
  BY DEF Init
<1>2. Len(users) = 0 /\ Len(queues) = 0
  BY DEF Init
<1>3. DataOK
  BY <1>1, <1>2, ThreadsAssumption DEF Init, DataOK
<1>4. job \in [Conns -> Job]
  BY Places DEF Init
<1>5. ReferencesOK
  BY DEF Init, ReferencesOK, ReferencesOf, InSending, Idle
<1> QED
  BY <1>3, <1>4, <1>5 DEF Types

LEMMA StepTypes ==
    ASSUME Types, NEW c \in Conns, Handler(c)
    PROVE  Types'
BY ConnectTypes, SubscribeTypes, UnsubscribeTypes, DisconnectTypes, SendFrameTypes DEF Handler

LEMMA StutterTypes == Types /\ UNCHANGED vars => Types'
<1> SUFFICES ASSUME Types, UNCHANGED vars PROVE Types'
  OBVIOUS
<1>1. UNCHANGED <<users, activeUsers, activeClients, chanelSubscription, queues,
                  counterMessageId, destinationToSubId, job, frames>>
  BY DEF vars, accounts, channels, protocols
<1> QED
  BY <1>1 DEF Types, DataOK, ReferencesOK, ReferencesOf, InSending

LEMMA AlwaysTypes == Spec => []Types
<1>1. Types /\ [Next]_vars => Types'
  BY StepTypes, StutterTypes DEF Next
<1> QED
  BY <1>1, InitTypes, PTL DEF Spec

-----------------------------------------------------------------------------
(* Accounts and ends of sessions                                             *)

\* What is kept of the ends of sessions.
EndsOK ==
    /\ shouldTerminate \in [Conns -> BOOLEAN]
    /\ late \in [Conns -> SUBSET Destinations]
    /\ stranded \subseteq DOMAIN users

\* Three steps touch the accounts.
LEMMA AccountSteps ==
    ASSUME NEW c \in Conns, Handler(c)
    PROVE  \/ ConnectKnown(c) \/ ConnectNew(c) \/ DisconnectUser(c)
           \/ UNCHANGED <<users, activeUsers, stranded>>
BY DEF Handler, Connect, Subscribe, Unsubscribe, Disconnect, SendFrame, accounts,
       UserIsExists, IsLoggedIn, HoldDestination, LookForQueue, PutQueue, GetQueue,
       AddToQueue, GiveUpDestination, UnSubscribeClient, HandleDisconnect, SendError,
       RemoveClient, RemoveFromChanels, HandleSend, IncrementCounterMessageId,
       GetSubscribers, NextSubscriber, EndSend, GetActiveClient, GetSubscriptionId, Send,
       SendToHandler

\* Five steps touch shouldTerminate and late.
LEMMA EndSteps ==
    ASSUME NEW c \in Conns, Handler(c)
    PROVE  \/ IsLoggedIn(c) \/ HandleDisconnect(c) \/ SendError(c)
           \/ \E d \in Destinations : HoldDestination(c, d) \/ GiveUpDestination(c, d)
           \/ UNCHANGED <<shouldTerminate, late>>
BY DEF Handler, Connect, Subscribe, Unsubscribe, Disconnect, SendFrame, protocols,
       UserIsExists, ConnectKnown, ConnectNew, LookForQueue, PutQueue, GetQueue,
       AddToQueue, UnSubscribeClient, DisconnectUser, RemoveClient, RemoveFromChanels,
       HandleSend, IncrementCounterMessageId, GetSubscribers, NextSubscriber, EndSend,
       GetActiveClient, GetSubscriptionId, Send, SendToHandler

\* A step of c ends no session but its own, and with it goes on to log out.
LEMMA EndsKept ==
    ASSUME Types, EndsOK, NEW c \in Conns, Handler(c)
    PROVE  /\ shouldTerminate' \in [Conns -> BOOLEAN]
           /\ late' \in [Conns -> SUBSET Destinations]
           /\ \A i \in Conns \ {c} : /\ shouldTerminate'[i] = shouldTerminate[i]
                                     /\ late'[i] = late[i]
           /\ shouldTerminate'[c] = shouldTerminate[c] \/ job'[c].at = "logout"
<1>0. job \in [Conns -> Job]
  BY DEF Types
<1>1. CASE Terminates(c) /\ Goes(c, [at |-> "logout"])
  BY <1>0, <1>1 DEF Terminates, Goes, EndsOK
<1>2. CASE UNCHANGED <<shouldTerminate, late>>
  BY <1>2 DEF EndsOK
<1>3. ASSUME NEW d \in Destinations, HoldDestination(c, d) \/ GiveUpDestination(c, d)
      PROVE  /\ UNCHANGED shouldTerminate
             /\ \E D \in SUBSET Destinations : late' = [late EXCEPT ![c] = D]
  BY <1>3 DEF HoldDestination, GiveUpDestination, EndsOK
<1>4. ASSUME NEW D \in SUBSET Destinations, late' = [late EXCEPT ![c] = D],
             UNCHANGED shouldTerminate
      PROVE  /\ shouldTerminate' \in [Conns -> BOOLEAN]
             /\ late' \in [Conns -> SUBSET Destinations]
             /\ \A i \in Conns \ {c} : /\ shouldTerminate'[i] = shouldTerminate[i]
                                       /\ late'[i] = late[i]
             /\ shouldTerminate'[c] = shouldTerminate[c]
  BY <1>4 DEF EndsOK
<1>5. IsLoggedIn(c) => \/ Terminates(c) /\ Goes(c, [at |-> "logout"])
                       \/ UNCHANGED <<shouldTerminate, late>>
  BY DEF IsLoggedIn
<1>6. HandleDisconnect(c) \/ SendError(c) => Terminates(c) /\ Goes(c, [at |-> "logout"])
  BY DEF HandleDisconnect, SendError, Begin
<1> QED
  BY <1>1, <1>2, <1>3, <1>4, <1>5, <1>6, EndSteps

\* No account that is lost to its connection is one that does not exist.
LEMMA StepEnds ==
    ASSUME Types, EndsOK, NEW c \in Conns, Handler(c)
    PROVE  EndsOK'
<1>0. DataOK /\ ReferencesOf(c)
  BY DEF Types, ReferencesOK
<1>1. CASE ConnectKnown(c)
  <2>1. DOMAIN users' = DOMAIN users /\ job[c].user \in DOMAIN users /\ activeUsers[c] \in 0..Len(users)
    BY <1>0, <1>1 DEF ConnectKnown, ReferencesOf, DataOK
  <2>2. stranded' \subseteq stranded \cup {job[c].user} \cup ({activeUsers[c]} \ {0})
    BY <1>1 DEF ConnectKnown, EnterAccount
  <2>3. stranded' \subseteq DOMAIN users'
    BY <1>0, <2>1, <2>2 DEF EndsOK, DataOK
  <2> QED
    BY <2>3, EndsKept DEF EndsOK
<1>2. CASE ConnectNew(c)
  <2>1. /\ DOMAIN users' = 1..(Len(users) + 1) /\ DOMAIN users = 1..Len(users)
        /\ Len(users) \in Nat /\ activeUsers[c] \in 0..Len(users)
    BY <1>0, <1>2 DEF ConnectNew, DataOK
  <2>2. stranded' \subseteq stranded \cup {Len(users) + 1} \cup ({activeUsers[c]} \ {0})
    BY <1>2 DEF ConnectNew, EnterAccount
  <2>3. stranded' \subseteq DOMAIN users'
    BY <2>1, <2>2 DEF EndsOK
  <2> QED
    BY <2>3, EndsKept DEF EndsOK
<1>3. CASE DisconnectUser(c)
  <2>1. DOMAIN users' = DOMAIN users /\ stranded' \subseteq stranded
    BY <1>0, <1>3 DEF DisconnectUser, Logout, DataOK
  <2> QED
    BY <2>1, EndsKept DEF EndsOK
<1>4. CASE UNCHANGED <<users, activeUsers, stranded>>
  BY <1>4, EndsKept DEF EndsOK
<1> QED
  BY <1>1, <1>2, <1>3, <1>4, AccountSteps

LEMMA AlwaysEnds == Spec => [](Types /\ EndsOK)
<1>1. Init => EndsOK
  BY DEF Init, EndsOK
<1>2. Types /\ EndsOK /\ [Next]_vars => EndsOK'
  <2>1. EndsOK /\ UNCHANGED vars => EndsOK'
    BY DEF EndsOK, vars, accounts, protocols
  <2> QED
    BY <2>1, StepEnds DEF Next
<1> QED
  BY <1>1, <1>2, AlwaysTypes, PTL DEF Spec

LEMMA TypesImplyTypeOK == Types /\ EndsOK => TypeOK
<1> SUFFICES ASSUME Types, EndsOK PROVE TypeOK
  OBVIOUS
<1>1. ASSUME NEW c \in Conns
      PROVE  /\ job[c].at \in {"check", "connect"} => job[c].user \in 0..Len(users)
             /\ job[c].at \in {"add", "loop"} => job[c].queue \in DOMAIN queues
  BY DEF Types, ReferencesOK, ReferencesOf, InSending
<1> QED
  BY <1>1 DEF Types, DataOK, EndsOK, TypeOK, Account, Cell

\* Whatever the handlers of several connections do at the same time, each shared map
\* keeps values of its type, and every index that a handler has read before it goes on
\* is still that of a User or of a queue.
THEOREM ThreadsTypeCorrect == Spec => []TypeOK
BY AlwaysEnds, TypesImplyTypeOK, PTL

\* A step of c is one of its handler alone.
LEMMA OtherRests ==
    ASSUME NEW c \in Conns, Handler(c), job \in [Conns -> Job], NEW i \in Conns \ {c}
    PROVE  job'[i] = job[i]
<1>1. \E r : Goes(c, r)
  BY DEF Handler, Connect, Subscribe, Unsubscribe, Disconnect, SendFrame, Begin, Dies,
       UserIsExists, IsLoggedIn, ConnectKnown, ConnectNew, HoldDestination, LookForQueue,
       PutQueue, GetQueue, AddToQueue, GiveUpDestination, UnSubscribeClient,
       HandleDisconnect, SendError, DisconnectUser, RemoveClient, RemoveFromChanels,
       HandleSend, IncrementCounterMessageId, GetSubscribers, NextSubscriber, EndSend,
       GetActiveClient, GetSubscriptionId, Send, SendToHandler
<1> QED
  BY <1>1 DEF Goes

\* A handler that is to log out does that next.
LEMMA LogoutStep ==
    ASSUME NEW c \in Conns, Handler(c), ~ DisconnectUser(c)
    PROVE  job[c].at # "logout"
<1>1. CASE \E r : Begin(c, r)
  BY <1>1 DEF Begin, Idle
<1>2. CASE Connect(c)
  BY <1>1, <1>2 DEF Connect, UserIsExists, IsLoggedIn, ConnectKnown, ConnectNew
<1>3. CASE Subscribe(c) \/ Unsubscribe(c)
  BY <1>1, <1>3 DEF Subscribe, Unsubscribe, HoldDestination, LookForQueue, PutQueue, GetQueue,
                    AddToQueue, GiveUpDestination, UnSubscribeClient
<1>4. CASE Disconnect(c)
  BY <1>1, <1>4 DEF Disconnect, HandleDisconnect, SendError, RemoveClient, RemoveFromChanels
<1>5. CASE SendFrame(c)
  BY <1>1, <1>5 DEF SendFrame, HandleSend, IncrementCounterMessageId, GetSubscribers,
                    NextSubscriber, EndSend, GetActiveClient, GetSubscriptionId, Send,
                    SendToHandler
<1> QED
  BY <1>2, <1>3, <1>4, <1>5 DEF Handler

\* A connection that has an account and has not given up logging it out.
Holds(c, u) == activeUsers[c] = u /\ (~shouldTerminate[c] \/ job[c].at = "logout")

\* The step of another leaves what a connection holds.
LEMMA HoldsOn ==
    ASSUME Types, EndsOK, NEW c \in Conns, Handler(c), NEW i \in Conns \ {c}, NEW u, Holds(i, u)
    PROVE  Holds(i, u)'
<1>0. DataOK /\ job \in [Conns -> Job]
  BY DEF Types
<1>1. job'[i] = job[i]
  BY <1>0, OtherRests
<1>2. shouldTerminate'[i] = shouldTerminate[i]
  BY EndsKept
<1>3. activeUsers'[i] = activeUsers[i]
  <2>1. CASE ConnectKnown(c) \/ ConnectNew(c) \/ DisconnectUser(c)
    BY <1>0, <2>1 DEF ConnectKnown, ConnectNew, EnterAccount, DisconnectUser, Logout, DataOK
  <2> QED
    BY <2>1, AccountSteps
<1> QED
  BY <1>1, <1>2, <1>3 DEF Holds

LEMMA StepSession ==
    ASSUME Types, EndsOK, LoggedInHasSession, NEW c \in Conns, Handler(c)
    PROVE  LoggedInHasSession'
<1>0. DataOK /\ ReferencesOf(c) /\ job \in [Conns -> Job]
  BY DEF Types, ReferencesOK
<1>a. SUFFICES ASSUME NEW u \in DOMAIN users', users'[u].isLoggedIn, u \notin stranded'
               PROVE  \E i \in Conns : Holds(i, u)'
  BY <1>a DEF LoggedInHasSession, Holds
<1>b. ASSUME u \in DOMAIN users, users[u].isLoggedIn, u \notin stranded, ~ Holds(c, u)
      PROVE  \E i \in Conns : Holds(i, u)'
  <2>1. PICK i \in Conns : Holds(i, u)
    BY <1>b DEF LoggedInHasSession, Holds
  <2> QED
    BY <1>b, <2>1, HoldsOn
<1>c. ASSUME NEW w, EnterAccount(c, w), UNCHANGED shouldTerminate, job[c].at # "logout"
      PROVE  /\ u = w => Holds(c, u)'
             /\ u # w => u \notin stranded
             /\ u # w /\ u \in DOMAIN users /\ users[u].isLoggedIn => ~ Holds(c, u)
  <2>1. activeUsers'[c] = w
    BY <1>0, <1>c DEF EnterAccount, DataOK
  <2>2. u = w => ~shouldTerminate[c]
    BY <1>a, <1>c DEF EnterAccount
  <2>3. u # w => u \notin stranded
    BY <1>a, <1>c DEF EnterAccount
  <2>4. u # w /\ u \in DOMAIN users /\ users[u].isLoggedIn => activeUsers[c] # u
    <3>1. u \in DOMAIN users => u # 0
      BY <1>0 DEF DataOK
    <3> QED
      BY <1>a, <1>c, <3>1 DEF EnterAccount
  <2> QED
    BY <1>c, <2>1, <2>2, <2>3, <2>4 DEF Holds
<1>1. CASE ConnectKnown(c)
  <2> DEFINE w == job[c].user
  <2>1. /\ w \in DOMAIN users /\ EnterAccount(c, w) /\ job[c].at # "logout"
        /\ UNCHANGED shouldTerminate
    BY <1>0, <1>1 DEF ConnectKnown, ReferencesOf, DataOK, protocols
  <2>2. users' = [users EXCEPT ![w] = [users[w] EXCEPT !.isLoggedIn = TRUE]]
    BY <1>1, <2>1 DEF ConnectKnown
  <2>3. u # w => u \in DOMAIN users /\ users[u].isLoggedIn
    BY <1>a, <2>2
  <2> HIDE DEF w
  <2> QED
    BY <1>b, <1>c, <2>1, <2>3
<1>2. CASE ConnectNew(c)
  <2> DEFINE w == Len(users) + 1
  <2>1. EnterAccount(c, w) /\ job[c].at # "logout" /\ UNCHANGED shouldTerminate
    BY <1>2 DEF ConnectNew, protocols
  <2>2. u # w => u \in DOMAIN users /\ users[u].isLoggedIn
    BY <1>0, <1>2, <1>a DEF ConnectNew, DataOK
  <2> HIDE DEF w
  <2> QED
    BY <1>b, <1>c, <2>1, <2>2
<1>3. CASE DisconnectUser(c)
  <2> DEFINE w == activeUsers[c]
  <2>1. /\ DOMAIN users' = DOMAIN users
        /\ u # w => users'[u] = users[u]
        /\ u = w => ~ users'[u].isLoggedIn
    <3>1. CASE w = 0
      BY <1>0, <1>3, <1>a, <3>1 DEF DisconnectUser, Logout, DataOK
    <3>2. CASE w # 0
      <4>1. w \in DOMAIN users /\ users[w] \in Account
        BY <1>0, <3>2 DEF DataOK
      <4>2. users' = [users EXCEPT ![w] = [users[w] EXCEPT !.isLoggedIn = FALSE]]
        BY <1>3, <3>2, <4>1 DEF DisconnectUser, Logout
      <4>3. [users[w] EXCEPT !.isLoggedIn = FALSE].isLoggedIn = FALSE
        BY <4>1 DEF Account
      <4> QED
        BY <1>a, <4>1, <4>2, <4>3
    <3> QED
      BY <3>1, <3>2
  <2>2. u # w /\ users[u].isLoggedIn /\ u \in DOMAIN users
    BY <1>a, <2>1
  <2>3. u \notin stranded
    BY <1>3, <1>a, <2>2 DEF DisconnectUser, Logout
  <2> QED
    BY <1>b, <2>2, <2>3 DEF Holds
<1>4. CASE UNCHANGED <<users, activeUsers, stranded>>
           /\ ~ (ConnectKnown(c) \/ ConnectNew(c) \/ DisconnectUser(c))
  <2>1. Holds(c, u) => Holds(c, u)'
    <3>1. job[c].at # "logout"
      BY <1>4, LogoutStep
    <3> QED
      BY <1>4, <3>1, EndsKept DEF Holds
  <2> QED
    BY <1>4, <1>a, <1>b, <2>1
<1> QED
  BY <1>1, <1>2, <1>3, <1>4, AccountSteps

\* No account is locked for good by handlers that log in and out at the same time: as
\* long as it is logged in some connection has it, whose end (DISCONNECT, or any ERROR)
\* sets it free, but for accounts that a connection left by a second CONNECT or entered
\* after its end.
THEOREM NoAccountLocked == Spec => []LoggedInHasSession
<1>1. Init => LoggedInHasSession
  BY DEF Init, LoggedInHasSession
<1>2. Types /\ EndsOK /\ LoggedInHasSession /\ [Next]_vars => LoggedInHasSession'
  <2>1. LoggedInHasSession /\ UNCHANGED vars => LoggedInHasSession'
    BY DEF vars, accounts, protocols, LoggedInHasSession
  <2> QED
    BY <2>1, StepSession DEF Next
<1> QED
  BY <1>1, <1>2, AlwaysEnds, PTL DEF Spec

-----------------------------------------------------------------------------
(* Channels                                                                  *)

\* Only PutQueue gives a channel a queue.
LEMMA ChannelSteps ==
    ASSUME NEW c \in Conns, Handler(c), ~ PutQueue(c)
    PROVE  UNCHANGED chanelSubscription
BY DEF Handler, Connect, Subscribe, Unsubscribe, Disconnect, SendFrame, channels,
       UserIsExists, IsLoggedIn, ConnectKnown, ConnectNew, HoldDestination, LookForQueue,
       GetQueue, AddToQueue, GiveUpDestination, UnSubscribeClient, HandleDisconnect,
       SendError, DisconnectUser, RemoveClient, RemoveFromChanels, HandleSend,
       IncrementCounterMessageId, GetSubscribers, NextSubscriber, EndSend,
       GetActiveClient, GetSubscriptionId, Send, SendToHandler

\* The handler of c goes to a place that is not "put".
Elsewhere(c) == job'[c].at # "put" /\ \A i \in Conns \ {c} : job'[i] = job[i]

LEMMA GoesElsewhere ==
    ASSUME job \in [Conns -> Job], NEW c \in Conns, NEW r, Goes(c, r), r.at # "put"
    PROVE  Elsewhere(c)
BY DEF Goes, Elsewhere

\* A record that is given another place has that place.
LEMMA NewPlace ==
    ASSUME NEW j \in Job, NEW at
    PROVE  [j EXCEPT !.at = at].at = at
BY DEF Job, Resting, LoggingIn, AtChannel, Adding, Leaving, Counting, Sending

\* A handler comes to "put" only by finding that its channel has no queue.
LEMMA PutSteps ==
    ASSUME Types, NEW c \in Conns, Handler(c), ~ LookForQueue(c)
    PROVE  Elsewhere(c)
<1> USE DEF Idle, Dead
<1>0. job \in [Conns -> Job] /\ job[c] \in Job
  BY DEF Types
<1>1. CASE \/ ConnectKnown(c) \/ ConnectNew(c) \/ AddToQueue(c) \/ UnSubscribeClient(c)
           \/ DisconnectUser(c) \/ GetQueue(c) \/ RemoveClient(c)
           \/ IncrementCounterMessageId(c) \/ EndSend(c)
  BY <1>0, <1>1, GoesElsewhere
     DEF ConnectKnown, ConnectNew, AddToQueue, UnSubscribeClient, DisconnectUser, GetQueue,
         RemoveClient, IncrementCounterMessageId, EndSend
<1>2. CASE \/ UserIsExists(c) \/ HandleDisconnect(c) \/ SendError(c)
           \/ \E d \in Destinations : HoldDestination(c, d) \/ GiveUpDestination(c, d)
                                        \/ HandleSend(c, d)
  BY <1>0, <1>2, GoesElsewhere
     DEF UserIsExists, HandleDisconnect, SendError, HoldDestination, GiveUpDestination,
         HandleSend, Begin
<1>3. CASE \/ IsLoggedIn(c) \/ PutQueue(c) \/ GetSubscriptionId(c) \/ Send(c)
           \/ GetActiveClient(c)
  <2>1. PICK at \in {"connect", "get", "send", "loop", "handler", "subscriptionId"} :
            \/ Goes(c, [job[c] EXCEPT !.at = at])
            \/ Goes(c, [at |-> "logout"]) \/ Goes(c, Idle) \/ Goes(c, Dead)
    BY <1>3 DEF IsLoggedIn, PutQueue, GetSubscriptionId, Send, GetActiveClient, Dies
  <2>2. [job[c] EXCEPT !.at = at].at # "put"
    BY <1>0, NewPlace
  <2> QED
    BY <1>0, <2>1, <2>2, GoesElsewhere
<1>4. CASE GetSubscribers(c)
  <2>1. PICK r : Goes(c, r) /\ r.at = "loop"
    BY <1>4 DEF GetSubscribers
  <2> QED
    BY <1>0, <2>1, GoesElsewhere
<1>5. CASE NextSubscriber(c)
  <2>1. job[c] \in Sending
    BY <1>0, <1>5, JobAt DEF NextSubscriber, InSending
  <2>2. PICK e, n : Goes(c, [job[c] EXCEPT !.at = "client", !.subscriber = e, !.next = n])
    BY <1>5 DEF NextSubscriber
  <2>3. [job[c] EXCEPT !.at = "client", !.subscriber = e, !.next = n].at = "client"
    BY <2>1 DEF Sending
  <2> QED
    BY <1>0, <2>2, <2>3, GoesElsewhere
<1>6. CASE SendToHandler(c)
  <2>1. job[c] \in Sending
    BY <1>0, <1>6, JobAt DEF SendToHandler, InSending
  <2> DEFINE t == job[c].served \cup {job[c].subscriber}
  <2>2. PICK at \in {"send", "loop"} :
            \/ Goes(c, [job[c] EXCEPT !.at = at, !.served = t])
            \/ Goes(c, Idle) \/ Goes(c, Dead)
    BY <1>6 DEF SendToHandler, Dies
  <2> HIDE DEF t
  <2>3. [job[c] EXCEPT !.at = at, !.served = t].at # "put"
    BY <2>1 DEF Sending
  <2> QED
    BY <1>0, <2>2, <2>3, GoesElsewhere
<1>7. CASE RemoveFromChanels(c)
  <2>1. job[c] \in Leaving /\ job[c].at = "removeFromChanels"
    BY <1>0, <1>7, JobAt DEF RemoveFromChanels
  <2>2. PICK t : Goes(c, Idle) \/ Goes(c, [job[c] EXCEPT !.left = t])
    BY <1>7 DEF RemoveFromChanels
  <2>3. [job[c] EXCEPT !.left = t].at # "put"
    BY <2>1 DEF Leaving
  <2> QED
    BY <1>0, <2>2, <2>3, GoesElsewhere
<1> QED
  BY <1>1, <1>2, <1>3, <1>4, <1>5, <1>6, <1>7
     DEF Handler, Connect, Subscribe, Unsubscribe, Disconnect, SendFrame

LEMMA StepSettled ==
    ASSUME Types, NEW c \in Conns, Handler(c), NEW d \in Destinations, Settled(d)
    PROVE  Settled(d)' /\ chanelSubscription'[d] = chanelSubscription[d]
<1>0. DataOK /\ job \in [Conns -> Job]
  BY DEF Types
<1>1. CASE PutQueue(c)
  <2>1. job[c].dest # d
    BY <1>1 DEF PutQueue, Settled
  <2>2. chanelSubscription'[d] = chanelSubscription[d]
    BY <1>0, <1>1, <2>1 DEF PutQueue, DataOK
  <2>3. ~ LookForQueue(c)
    BY <1>1 DEF PutQueue, LookForQueue
  <2> QED
    BY <2>2, <2>3, PutSteps DEF Settled, Elsewhere
<1>2. CASE LookForQueue(c)
  <2>1. job[c] \in AtChannel
    BY <1>0, <1>2, JobAt DEF LookForQueue
  <2>2. PICK at \in {"get", "put"} :
            /\ job' = [job EXCEPT ![c] = [job[c] EXCEPT !.at = at]]
            /\ at = "put" => chanelSubscription[job[c].dest] = 0
    BY <1>2 DEF LookForQueue, ContainsKey, Goes
  <2>3. job'[c].at = at /\ job'[c].dest = job[c].dest
    BY <1>0, <2>1, <2>2, NewPlace
  <2>4. chanelSubscription' = chanelSubscription
    BY <1>2 DEF LookForQueue, channels
  <2>5. \A i \in Conns \ {c} : job'[i] = job[i]
    BY <1>0, <2>2
  <2> QED
    BY <2>2, <2>3, <2>4, <2>5 DEF Settled
<1>3. CASE ~ PutQueue(c) /\ ~ LookForQueue(c)
  BY <1>3, ChannelSteps, PutSteps DEF Settled, Elsewhere
<1> QED
  BY <1>1, <1>2, <1>3

\* After its first subscribers a channel never changes its queue: a handler replaces the
\* queue only if it had found none, before another one put the first.
THEOREM QueueKept == Spec => ChannelStaysSettled
<1> DEFINE Kept == \A d \in Destinations : Settled(d) =>
                       Settled(d)' /\ chanelSubscription'[d] = chanelSubscription[d]
<1>1. Types /\ [Next]_vars => [Kept]_vars
  BY StepSettled DEF Next
<1> QED
  BY <1>1, AlwaysTypes, PTL DEF Spec, ChannelStaysSettled
=============================================================================
