------------------------- MODULE StompReportsProofs -------------------------
(***************************************************************************)
(* Proofs about StompReports, for any users, files and texts: the two ends *)
(* of the way of a report agree on the layout of every event that has the  *)
(* two keys, so that such a report arrives as it was sent and ends nobody, *)
(* and the summary tells of the reports what their files said.             *)
(***************************************************************************)
EXTENDS StompReports, FiniteSetTheorems, FunctionTheorems, SequenceTheorems,
        WellFoundedInduction, TLAPS

-----------------------------------------------------------------------------
(* The invariant.                                                           *)

\* The reports that users may make, and the frame, message and fields of one.
Reports ==
    UNION {UNION {UNION {{Reported(u, file, undefined)[i] : i \in DOMAIN file.events} :
        undefined \in Undefined} : file \in {f \in Files : Parses(f)}} : u \in Users}

FrameOf(r) == SendFrame(r)
MessageOf(r) == Message(FrameOf(r))
FieldsOf(r) == {Fields(MessageOf(r), undefined) : undefined \in {Garbled, Throws}}
KeptOf(r) == {[fields EXCEPT !.dateTime = Stoi(@)] : fields \in FieldsOf(r)}

Lines == UNION {{FrameOf(r)[i] : i \in DOMAIN FrameOf(r)} : r \in Reports}

Types ==
    /\ outbox \in [Users -> Seq(Seq(Lines))]
    /\ decoder \in [Users -> Seq(Lines)]
    /\ sent \in [Users -> Seq(Reports)]
    /\ decoded \in [Users -> Nat]
    /\ inbox \in Seq({MessageOf(r) : r \in Reports})
    /\ kept \in Seq(UNION {KeptOf(r) : r \in Reports})
    /\ due \in Seq(Reports)

\* The server has of each user the frames of its reports up to one, and a part of that.
Served(u) ==
    /\ Len(sent[u]) = decoded[u] + Len(outbox[u])
    /\ outbox[u] = <<>> => decoder[u] = <<>>
    /\ outbox[u] # <<>> =>
            decoder[u] \o outbox[u][1] = FrameOf(sent[u][decoded[u] + 1])
    /\ \A i \in DOMAIN outbox[u] : i > 1 => outbox[u][i] = FrameOf(sent[u][decoded[u] + i])

\* The reader keeps the reports that are due, in order, until one of them ends it.
Delivered ==
    /\ Reader \notin ended =>
        /\ Len(kept) + Len(inbox) = Len(due)
        /\ \A i \in DOMAIN kept : kept[i] \in KeptOf(due[i])
        /\ \A i \in DOMAIN inbox : inbox[i] = MessageOf(due[Len(kept) + i])
    /\ Reader \in ended => Len(kept) < Len(due) /\ ~Regular(due[Len(kept) + 1].event)

ReportInv == Types /\ (\A u \in Users : Served(u)) /\ Delivered

-----------------------------------------------------------------------------
(* Lines and their places.                                                  *)

\* A line with a label is not empty.
LEMMA LabelledNotEmpty ==
    ASSUME NEW label, NEW text, label # ""
    PROVE  Line(label, text) # Empty
<1>1. Line(label, text).label = label
  BY DEF Line
<1>2. Empty.label = ""
  BY Zenon DEF Empty, Line
<1> QED
  BY <1>1, <1>2, Zenon

\* What is cut off behind a label is the text.
LEMMA SubstrOfText ==
    ASSUME NEW label, NEW text, NEW n \in Nat \ {0}, Len(label) = n
    PROVE  Substr(Line(label, text), n) = text
BY DEF Substr, Line

\* The least element of a nonempty set of natural numbers: of the intervals from 0 to one
\* of its numbers one is smallest.
LEMMA LeastExists ==
    ASSUME NEW S \in SUBSET Nat, S # {}
    PROVE  \E k \in S : \A l \in S : k <= l
<1>1. PICK m \in S : TRUE
  OBVIOUS
<1> DEFINE T == {A \in FiniteSubsetsOf(0..m) : \E k \in S : A = 0..k}
<1>2. IsFiniteSet(0..m)
  BY FS_Interval
<1>3. 0..m \in T
  BY <1>2 DEF FiniteSubsetsOf
<1>4. PICK A \in T : \A B \in T : ~ (<<B, A>> \in StrictSubsetOrdering(0..m))
  <2>1. IsWellFoundedOn(StrictSubsetOrdering(0..m), FiniteSubsetsOf(0..m))
    BY <1>2, FS_StrictSubsetOrderingWellFounded
  <2> QED
    BY <2>1, <1>3, WFMin
<1>5. PICK k \in S : A = 0..k
  BY <1>4
<1>6. ASSUME NEW l \in S, l < k
      PROVE  FALSE
  <2>1. 0..l \subseteq A /\ 0..l # A
    BY <1>5, <1>6
  <2>2. A \subseteq 0..m
    BY <1>4 DEF FiniteSubsetsOf
  <2>3. IsFiniteSet(0..l)
    BY FS_Interval
  <2>4. 0..l \in T
    BY <2>1, <2>2, <2>3 DEF FiniteSubsetsOf
  <2> QED
    BY <2>1, <2>2, <2>4, <1>4 DEF StrictSubsetOrdering
<1> QED
  BY <1>5, <1>6

\* FirstEmpty gives the first empty line from a line on, or the end.
LEMMA FirstEmptyFound ==
    ASSUME NEW lines, Len(lines) \in Nat, NEW from \in 1..Len(lines)
    PROVE  /\ FirstEmpty(lines, from) \in from..(Len(lines) + 1)
           /\ \A i \in from..Len(lines) : i < FirstEmpty(lines, from) => lines[i] # Empty
           /\ FirstEmpty(lines, from) <= Len(lines) => lines[FirstEmpty(lines, from)] = Empty
<1> DEFINE empties == {i \in from..Len(lines) : lines[i] = Empty}
           first == CHOOSE i \in empties : \A j \in empties : i <= j
<1>1. CASE empties = {}
  BY <1>1 DEF FirstEmpty
<1>2. CASE empties # {}
  <2>1. \E i \in empties : \A j \in empties : i <= j
    <3>1. empties \in SUBSET Nat
      OBVIOUS
    <3> HIDE DEF empties
    <3> QED
      BY <1>2, <3>1, LeastExists
  <2>2. first \in empties /\ \A j \in empties : first <= j
    BY <2>1
  <2>3. FirstEmpty(lines, from) = first
    BY <1>2 DEF FirstEmpty
  <2> HIDE DEF first
  <2>4. first \in from..Len(lines) /\ lines[first] = Empty
    BY <2>2
  <2>5. ASSUME NEW i \in from..Len(lines), i < first
        PROVE  lines[i] # Empty
    BY <2>2, <2>4, <2>5
  <2> QED
    BY <2>3, <2>4, <2>5
<1> QED
  BY <1>1, <1>2

\* The keys that process expects come in the order in which it expects them.
LEMMA TwoKeysAscending ==
    ASSUME NEW keys, keys = {"active", "forces_arrival_at_scene"}
    PROVE  /\ Cardinality(keys) = 2
           /\ Ascending(keys)[1] = "active"
           /\ Ascending(keys)[2] = "forces_arrival_at_scene"
<1> DEFINE a == "active"
           f == "forces_arrival_at_scene"
           Rises(s) == \A i, j \in DOMAIN s : i < j => Place(s[i]) < Place(s[j])
<1>1. a # f
  OBVIOUS
<1>2. Cardinality(keys) = 2
  <2>1. IsFiniteSet({a}) /\ Cardinality({a}) = 1
    BY FS_Singleton
  <2>2. Cardinality({a} \cup {f}) = 2
    BY <1>1, <2>1, FS_AddElement
  <2> QED
    BY <2>2
<1>3. PICK i, j \in DOMAIN InfoKeys : i < j /\ InfoKeys[i] = a /\ InfoKeys[j] = f
  BY KeysAssumption DEF KeysAssumption
<1>4. Place(a) = i /\ Place(f) = j
  BY <1>3, KeysAssumption DEF KeysAssumption, Place
<1>5. i \in Nat /\ j \in Nat /\ Place(a) < Place(f)
  BY <1>3, <1>4, KeysAssumption DEF KeysAssumption
<1>6. Rises(<<a, f>>) /\ <<a, f>> \in [1..2 -> keys]
  BY <1>5
<1>7. ASSUME NEW s \in [1..2 -> keys], Rises(s)
      PROVE  s[1] = a /\ s[2] = f
  <2>1. Place(s[1]) < Place(s[2])
    BY <1>7
  <2>2. s[1] \in keys /\ s[2] \in keys
    BY <1>7
  <2> QED
    BY <2>1, <2>2, <1>4, <1>5
<1>8. Ascending(keys) = CHOOSE s \in [1..2 -> keys] : Rises(s)
  BY <1>2 DEF Ascending
<1>9. Ascending(keys) \in [1..2 -> keys] /\ Rises(Ascending(keys))
  BY <1>6, <1>8
<1> QED
  BY <1>2, <1>7, <1>9

-----------------------------------------------------------------------------
(* What the summary sorts.                                                  *)

\* Along s no element is before an earlier one, by the one number and then the other.
Rises(s, first, second) ==
    \A i, j \in DOMAIN s : i < j =>
        /\ ~ (first[s[j]] < first[s[i]])
        /\ ~ (first[s[j]] = first[s[i]] /\ second[s[j]] < second[s[i]])

\* The elements of a set that are before no other.
Firsts(S, first, second) ==
    {m \in S : \A x \in S : /\ ~ (first[x] < first[m])
                            /\ ~ (first[x] = first[m] /\ second[x] < second[m])}

\* Of any elements with two numbers one is before all others.
LEMMA FirstExists ==
    ASSUME NEW S, S # {}, NEW first, NEW second,
           \A x \in S : first[x] \in Nat /\ second[x] \in Nat
    PROVE  Firsts(S, first, second) # {}
<1> DEFINE firsts == {first[x] : x \in S}
<1>1. PICK a \in firsts : \A b \in firsts : a <= b
  <2>1. firsts \in SUBSET Nat /\ firsts # {}
    OBVIOUS
  <2> HIDE DEF firsts
  <2> QED
    BY <2>1, LeastExists
<1> DEFINE seconds == {second[x] : x \in {y \in S : first[y] = a}}
<1>2. PICK c \in seconds : \A b \in seconds : c <= b
  <2>1. seconds \in SUBSET Nat /\ seconds # {}
    BY <1>1
  <2> HIDE DEF seconds
  <2> QED
    BY <2>1, LeastExists
<1>3. PICK m \in S : first[m] = a /\ second[m] = c
  BY <1>2
<1>4. ASSUME NEW x \in S
      PROVE  /\ ~ (first[x] < first[m])
             /\ ~ (first[x] = first[m] /\ second[x] < second[m])
  <2>1. first[x] \in Nat /\ second[x] \in Nat /\ a \in Nat /\ c \in Nat /\ a <= first[x]
    BY <1>1, <1>2
  <2>2. first[x] = a => c <= second[x]
    BY <1>2
  <2> QED
    BY <1>3, <2>1, <2>2
<1> QED
  BY <1>4 DEF Firsts

\* One more element, before all others.
LEMMA RisesOnward ==
    ASSUME NEW K, NEW first \in [K -> Nat], NEW second \in [K -> Nat],
           NEW S \in SUBSET K, NEW m \in Firsts(S, first, second), NEW n \in Nat \ {0},
           NEW t \in Bijection(1..(n - 1), S \ {m}), Rises(t, first, second)
    PROVE  \E s \in Bijection(1..n, S) : Rises(s, first, second)
<1>0. m \in S
  BY DEF Firsts
<1> DEFINE s == [i \in 1..n |-> IF i = 1 THEN m ELSE t[i - 1]]
<1>1. /\ t \in [1..(n - 1) -> S \ {m}]
      /\ \A i, j \in 1..(n - 1) : t[i] = t[j] => i = j
      /\ \A x \in S \ {m} : \E i \in 1..(n - 1) : t[i] = x
  BY DEF Bijection, Injection, Surjection, IsInjective
<1>2. /\ DOMAIN s = 1..n /\ s[1] = m
      /\ \A i \in 1..n : i # 1 => i - 1 \in 1..(n - 1) /\ s[i] = t[i - 1]
  OBVIOUS
<1>3. s \in [1..n -> S]
  BY <1>0, <1>1
<1> HIDE DEF s
<1>4. ASSUME NEW i \in 1..n, NEW j \in 1..n, s[i] = s[j]
      PROVE  i = j
  <2>1. i # 1 => s[i] # m
    BY <1>1, <1>2
  <2>2. j # 1 => s[j] # m
    BY <1>1, <1>2
  <2>3. CASE i # 1 /\ j # 1
    <3>1. i - 1 = j - 1
      BY <1>1, <1>2, <1>4, <2>3
    <3> QED
      BY <3>1
  <2> QED
    BY <1>2, <1>4, <2>1, <2>2, <2>3
<1>5. ASSUME NEW x \in S
      PROVE  \E i \in 1..n : s[i] = x
  <2>1. CASE x = m
    BY <1>2, <2>1
  <2>2. CASE x # m
    <3>1. PICK i \in 1..(n - 1) : t[i] = x
      BY <1>1, <2>2
    <3>2. i + 1 \in 1..n /\ i + 1 # 1 /\ (i + 1) - 1 = i
      OBVIOUS
    <3> QED
      BY <1>2, <3>1, <3>2
  <2> QED
    BY <2>1, <2>2
<1>6. s \in Bijection(1..n, S)
  BY <1>3, <1>4, <1>5, Fun_IsBij
<1>7. ASSUME NEW i \in 1..n, NEW j \in 1..n, i < j
      PROVE  /\ ~ (first[s[j]] < first[s[i]])
             /\ ~ (first[s[j]] = first[s[i]] /\ second[s[j]] < second[s[i]])
  <2>1. CASE i = 1
    BY <1>2, <1>3, <2>1 DEF Firsts
  <2>2. CASE i # 1
    <3>1. j # 1 /\ i - 1 < j - 1
      BY <1>7, <2>2
    <3>2. /\ i - 1 \in DOMAIN t /\ j - 1 \in DOMAIN t
          /\ s[i] = t[i - 1] /\ s[j] = t[j - 1]
      BY <1>1, <1>2, <2>2, <3>1
    <3> QED
      BY <3>1, <3>2 DEF Rises
  <2> QED
    BY <2>1, <2>2
<1>8. Rises(s, first, second)
  BY <1>2, <1>7 DEF Rises
<1> QED
  BY <1>6, <1>8

\* Any finite set of elements with two numbers can be sorted: of the sizes of sets that
\* cannot there is no least one.
LEMMA SortExists ==
    ASSUME NEW K, NEW first \in [K -> Nat], NEW second \in [K -> Nat],
           NEW S \in SUBSET K, IsFiniteSet(S)
    PROVE  \E s \in Bijection(1..Cardinality(S), S) : Rises(s, first, second)
<1> DEFINE Sortable(T) == \E s \in Bijection(1..Cardinality(T), T) : Rises(s, first, second)
           sizes == {n \in Nat : \E T \in SUBSET K :
                        IsFiniteSet(T) /\ Cardinality(T) = n /\ ~Sortable(T)}
<1>1. SUFFICES ASSUME sizes # {}
               PROVE  FALSE
  <2>1. Cardinality(S) \in Nat
    BY FS_CardinalityType
  <2> QED
    BY <1>1, <2>1
<1>2. PICK n \in sizes : \A l \in sizes : n <= l
  <2>1. sizes \in SUBSET Nat
    OBVIOUS
  <2> HIDE DEF sizes
  <2> QED
    BY <1>1, <2>1, LeastExists
<1>3. PICK T \in SUBSET K : IsFiniteSet(T) /\ Cardinality(T) = n /\ ~Sortable(T)
  BY <1>2
<1>4. n \in Nat
  BY <1>2
<1>5. T # {}
  <2>1. ASSUME T = {}
        PROVE  FALSE
    <3> DEFINE none == [i \in 1..0 |-> i]
    <3>1. Cardinality(T) = 0
      BY <2>1, FS_EmptySet
    <3>2. none \in Bijection(1..0, {})
      <4>1. none \in [1..0 -> {}]
        OBVIOUS
      <4>2. \A i, j \in 1..0 : none[i] = none[j] => i = j
        OBVIOUS
      <4> HIDE DEF none
      <4> QED
        BY <4>1, <4>2, Fun_IsBij
    <3>3. Rises(none, first, second)
      BY DEF Rises
    <3> HIDE DEF none
    <3> QED
      BY <1>3, <2>1, <3>1, <3>2, <3>3
  <2> QED
    BY <2>1
<1>6. PICK m \in Firsts(T, first, second) : m \in T
  <2>1. \A x \in T : first[x] \in Nat /\ second[x] \in Nat
    OBVIOUS
  <2>2. Firsts(T, first, second) # {}
    BY <1>5, <2>1, FirstExists
  <2> QED
    BY <2>2 DEF Firsts
<1>7. /\ IsFiniteSet(T \ {m}) /\ Cardinality(T \ {m}) = n - 1
  <2>1. IsFiniteSet(T) /\ m \in T /\ Cardinality(T) = n
    BY <1>3, <1>6, Zenon
  <2>2. /\ IsFiniteSet(T \ {m})
        /\ Cardinality(T \ {m}) = IF m \in T THEN Cardinality(T) - 1 ELSE Cardinality(T)
    BY ONLY <2>1, FS_RemoveElement
  <2> QED
    BY ONLY <2>1, <2>2
<1>8. n - 1 \in Nat /\ n \in Nat \ {0}
  BY <1>4, <1>7, FS_CardinalityType
<1>9. Sortable(T \ {m})
  <2>1. n - 1 \notin sizes
    BY <1>2, <1>4
  <2>2. T \ {m} \in SUBSET K
    OBVIOUS
  <2> QED
    BY <1>7, <1>8, <2>1, <2>2
<1> HIDE DEF sizes
<1>10. PICK t \in Bijection(1..(n - 1), T \ {m}) : Rises(t, first, second)
  BY <1>7, <1>9
<1>11. \E s \in Bijection(1..n, T) : Rises(s, first, second)
  BY <1>6, <1>8, <1>10, RisesOnward
<1> QED
  BY <1>3, <1>11

-----------------------------------------------------------------------------
(* The layout of frames and messages.                                       *)

InfoCount(r) == Cardinality(DOMAIN r.event.info)

\* What a conversion makes is an int, and an int stays what it is.
LEMMA Narrowed == \A n \in Int : Narrow(n) \in Ints /\ (n \in Ints => Narrow(n) = n)
BY IntsAssumption DEF IntsAssumption, Narrow, Ints

LEMMA Converted ==
    ASSUME NEW d \in Number, NEW undefined \in Undefined
    PROVE  ToInt(d, undefined) \in Ints /\ (Fits(d) => ToInt(d, undefined) = d.whole)
<1>1. d.whole \in Int
  BY DEF Number
<1>2. undefined \in Ints
  BY IntsAssumption DEF IntsAssumption, Undefined, Ints
<1> QED
  BY <1>1, <1>2, Narrowed, Zenon DEF ToInt, Fits

\* What the assumptions say of a report.
LEMMA ReportTyped ==
    ASSUME NEW r \in Reports
    PROVE  /\ r.user \in Text /\ r.channel \in Text
           /\ r.event.city \in Text /\ r.event.name \in Text
           /\ r.date \in Ints /\ (Fits(r.event.dateTime) => r.date = r.event.dateTime.whole)
           /\ InfoCount(r) \in Nat
           /\ r.event.info \in [DOMAIN r.event.info -> Value]
           /\ \E n \in DOMAIN EventNames : EventNames[n] = r.event.name
<1>1. PICK u \in Users, file \in Files, undefined \in Undefined : \E i \in DOMAIN file.events :
          r = Reported(u, file, undefined)[i]
  BY DEF Reports
<1>2. PICK i \in DOMAIN file.events : r = Reported(u, file, undefined)[i]
  BY <1>1
<1> DEFINE e == file.events[i]
<1>3. r = [user |-> u, channel |-> file.channel, event |-> e,
           date |-> ToInt(e.dateTime, undefined)]
  BY <1>2 DEF Reported
<1>4. u \in Text /\ file.channel \in Text
  BY <1>1, FilesAssumption, UsersAssumption DEF FilesAssumption, UsersAssumption
<1>5. /\ {e.city, e.name, e.description} \subseteq Text
      /\ e.dateTime \in Number
      /\ e.info \in [DOMAIN e.info -> Value]
      /\ IsFiniteSet(DOMAIN e.info)
  BY <1>1, FilesAssumption DEF FilesAssumption
<1>6. Cardinality(DOMAIN e.info) \in Nat
  BY <1>5, FS_CardinalityType
<1>7. \E n \in DOMAIN EventNames : EventNames[n] = e.name
  BY <1>1, NamesAssumption DEF NamesAssumption
<1>8. /\ ToInt(e.dateTime, undefined) \in Ints
      /\ Fits(e.dateTime) => ToInt(e.dateTime, undefined) = e.dateTime.whole
  BY <1>1, <1>5, Converted
<1> HIDE DEF e
<1> QED
  BY <1>3, <1>4, <1>5, <1>6, <1>7, <1>8 DEF InfoCount

\* The parts of a body that are always there.
LEMMA BodyStartLaidOut ==
    ASSUME NEW user, NEW e, NEW date
    PROVE  \E l1, l2, l3, l4, last :
            /\ BodyStart(user, e, date) =
                    <<Line(l1, user), Line(l2, e.city), Line(l3, e.name),
                      Line(l4, Decimal[date]), last>>
            /\ Len(l1) = 6 /\ Len(l2) = 6 /\ Len(l3) = 12 /\ Len(l4) = 11
            /\ \A line \in {Line(l1, user), Line(l2, e.city), Line(l3, e.name),
                            Line(l4, Decimal[date]), last} : line # Empty
<1>1. /\ "user: " # "" /\ "city: " # "" /\ "event name: " # "" /\ "date time: " # ""
      /\ "general information:" # ""
  BY Zenon
<1> WITNESS "user: ", "city: ", "event name: ", "date time: ",
            Line("general information:", "")
<1>2. /\ Line("user: ", user) # Empty /\ Line("city: ", e.city) # Empty
      /\ Line("event name: ", e.name) # Empty /\ Line("date time: ", Decimal[date]) # Empty
      /\ Line("general information:", "") # Empty
  BY <1>1, LabelledNotEmpty, Zenon
<1>3. BodyStart(user, e, date) =
          <<Line("user: ", user), Line("city: ", e.city), Line("event name: ", e.name),
            Line("date time: ", Decimal[date]), Line("general information:", "")>>
  BY Zenon DEF BodyStart
<1> QED
  BY <1>2, <1>3, LabelLengths, Zenon

\* The head of a frame, and the end of its body.
LEMMA FrameParts ==
    ASSUME NEW r
    PROVE  \E first, label, description, text, receipt :
            /\ FrameOf(r) = <<first, Line(label, r.channel), Empty>>
                            \o (BodyStart(r.user, r.event, r.date) \o InfoLines(r.event.info)
                                \o <<description, text, receipt>>)
            /\ Len(label) = 13 /\ Line(label, r.channel) # Empty
            /\ description # Empty /\ Substr(description, 0) # Throws
<1> WITNESS Line("SEND", ""), "destination:/", Line("description: ", ""),
            Line("", r.event.description), Line("receipt: ", "n")
<1>1. "destination:/" # "" /\ "description: " # "" /\ "description: " # "out_of_range"
  BY Zenon
<1>2. Line("destination:/", r.channel) # Empty /\ Line("description: ", "") # Empty
  BY <1>1, LabelledNotEmpty, Zenon
<1>3. ASSUME NEW label, NEW text
      PROVE  Substr(Line(label, text), 0) = label \o text
  BY DEF Substr, Line
<1>4. Substr(Line("description: ", ""), 0) # Throws
  BY <1>1, <1>3, LabelLengths, Zenon DEF Throws
<1>5. FrameOf(r) = <<Line("SEND", ""), Line("destination:/", r.channel), Empty>>
                   \o (BodyStart(r.user, r.event, r.date) \o InfoLines(r.event.info)
                       \o <<Line("description: ", ""), Line("", r.event.description),
                            Line("receipt: ", "n")>>)
  BY Zenon DEF FrameOf, SendFrame, SendBody
<1> QED
  BY <1>2, <1>4, <1>5, LabelLengths, Zenon

\* The lines of general information of an event with the two keys.
LEMMA InfoLaidOut ==
    ASSUME NEW info, DOMAIN info = {"active", "forces_arrival_at_scene"}
    PROVE  \E l1, l2 :
            /\ InfoLines(info)[1] = Line(l1, info["active"].text)
            /\ InfoLines(info)[2] = Line(l2, info["forces_arrival_at_scene"].text)
            /\ Len(l1) = 8 /\ Len(l2) = 25
            /\ InfoLines(info)[1] # Empty /\ InfoLines(info)[2] # Empty
<1> WITNESS "active" \o ": ", "forces_arrival_at_scene" \o ": "
<1>1. \A a, b, n, m : Len(a) = n /\ Len(b) = m /\ n # m => a # b
  OBVIOUS
<1>2. 8 # 0 /\ 25 # 0
  OBVIOUS
<1>3. "active" \o ": " # "" /\ "forces_arrival_at_scene" \o ": " # ""
  BY <1>1, <1>2, LabelLengths, Zenon
<1>4. \A i \in 1..2 : InfoLines(info)[i] =
          Line(Ascending(DOMAIN info)[i] \o ": ", JsonText(info[Ascending(DOMAIN info)[i]]))
  <2>1. Cardinality(DOMAIN info) = 2
    BY TwoKeysAscending
  <2> QED
    BY <2>1, Zenon DEF InfoLines
<1>5. 1 \in 1..2 /\ 2 \in 1..2
  OBVIOUS
<1>6. /\ InfoLines(info)[1] = Line("active" \o ": ", info["active"].text)
      /\ InfoLines(info)[2] = Line("forces_arrival_at_scene" \o ": ",
                                   info["forces_arrival_at_scene"].text)
  BY <1>4, <1>5, TwoKeysAscending, Zenon DEF JsonText
<1>7. Line("active" \o ": ", info["active"].text) # Empty
  BY <1>3, LabelledNotEmpty, Zenon
<1>8. Line("forces_arrival_at_scene" \o ": ", info["forces_arrival_at_scene"].text) # Empty
  BY <1>3, LabelledNotEmpty, Zenon
<1>9. Len("active" \o ": ") = 8 /\ Len("forces_arrival_at_scene" \o ": ") = 25
  BY LabelLengths, Zenon
<1> QED
  BY <1>6, <1>7, <1>8, <1>9, Zenon

\* Where the two parts of a concatenation come to lie.
LEMMA ConcatParts ==
    ASSUME NEW S, NEW s \in Seq(S), NEW t \in Seq(S)
    PROVE  /\ s \o t \in Seq(S) /\ Len(s \o t) = Len(s) + Len(t)
           /\ \A i \in 1..Len(s) : (s \o t)[i] = s[i]
           /\ \A i, j : i \in 1..Len(t) /\ j = Len(s) + i => (s \o t)[j] = t[i]
<1>1. /\ s \o t \in Seq(S) /\ Len(s \o t) = Len(s) + Len(t)
      /\ \A i \in 1..(Len(s) + Len(t)) : (s \o t)[i] =
              IF i <= Len(s) THEN s[i] ELSE t[i - Len(s)]
  BY ConcatProperties
<1>2. Len(s) \in Nat /\ Len(t) \in Nat
  BY LenProperties
<1>3. ASSUME NEW i \in 1..Len(t), NEW j, j = Len(s) + i
      PROVE  (s \o t)[j] = t[i]
  BY <1>1, <1>2, <1>3
<1> QED
  BY <1>1, <1>2, <1>3

\* Where the parts of a frame come to lie.
PartsLie(frame, a, b, c, d) ==
    /\ Len(frame) = 11 + Len(c)
    /\ frame[2] = a[2] /\ frame[3] = a[3]
    /\ \A i \in 1..5 : frame[3 + i] = b[i]
    /\ \A i \in 1..Len(c) : frame[8 + i] = c[i]
    /\ frame[9 + Len(c)] = d[1]

LEMMA PartsConcatenated ==
    ASSUME NEW S, NEW a \in Seq(S), NEW b \in Seq(S), NEW c \in Seq(S), NEW d \in Seq(S)
    PROVE  Len(a) = 3 /\ Len(b) = 5 /\ Len(d) = 3 =>
            /\ a \o (b \o c \o d) \in Seq(S)
            /\ PartsLie(a \o (b \o c \o d), a, b, c, d)
<1> DEFINE n == Len(c)
           frame == a \o (b \o c \o d)
<1>1. SUFFICES ASSUME Len(a) = 3, Len(b) = 5, Len(d) = 3
               PROVE  frame \in Seq(S) /\ PartsLie(frame, a, b, c, d)
  OBVIOUS
<1>2. n \in Nat /\ Len(c) = n
  BY LenProperties
<1> HIDE DEF n
<1>3. /\ b \o c \in Seq(S) /\ Len(b \o c) = 5 + n
      /\ \A i \in 1..5 : (b \o c)[i] = b[i]
      /\ \A i \in 1..n : (b \o c)[5 + i] = c[i]
  <2>0. b \in Seq(S) /\ c \in Seq(S)
    BY <1>2
  <2>1. /\ b \o c \in Seq(S) /\ Len(b \o c) = Len(b) + Len(c)
        /\ \A i \in 1..Len(b) : (b \o c)[i] = b[i]
        /\ \A i, j : i \in 1..Len(c) /\ j = Len(b) + i => (b \o c)[j] = c[i]
    BY <2>0, ConcatParts
  <2> QED
    BY <1>1, <1>2, <2>1
<1> DEFINE bc == b \o c
<1> HIDE DEF bc
<1>4. /\ bc \in Seq(S) /\ Len(bc) = 5 + n
      /\ \A i \in 1..5 : bc[i] = b[i]
      /\ \A i \in 1..n : bc[5 + i] = c[i]
  BY <1>1, <1>2, <1>3 DEF bc
<1>5. /\ bc \o d \in Seq(S) /\ Len(bc \o d) = (5 + n) + 3
      /\ \A i \in 1..(5 + n) : (bc \o d)[i] = bc[i]
      /\ \A i \in 1..3 : (bc \o d)[(5 + n) + i] = d[i]
  <2>0. bc \in Seq(S) /\ d \in Seq(S)
    BY <1>4
  <2>1. /\ bc \o d \in Seq(S) /\ Len(bc \o d) = Len(bc) + Len(d)
        /\ \A i \in 1..Len(bc) : (bc \o d)[i] = bc[i]
        /\ \A i, j : i \in 1..Len(d) /\ j = Len(bc) + i => (bc \o d)[j] = d[i]
    BY <2>0, ConcatParts
  <2> QED
    BY <1>1, <1>2, <1>4, <2>1
<1> DEFINE e == bc \o d
<1> HIDE DEF e
<1>6. /\ e \in Seq(S) /\ Len(e) = 8 + n
      /\ \A i \in 1..5 : e[i] = b[i]
      /\ \A i \in 1..n : e[5 + i] = c[i]
      /\ e[6 + n] = d[1]
  <2>1. /\ \A i \in 1..(5 + n) : e[i] = bc[i]
        /\ e[(5 + n) + 1] = d[1]
    <3>1. \A i \in 1..3 : e[(5 + n) + i] = d[i]
      BY <1>5, Zenon DEF e
    <3>2. 1 \in 1..3
      OBVIOUS
    <3>3. e[(5 + n) + 1] = d[1]
      BY <3>1, <3>2, Zenon
    <3> QED
      BY <1>5, <3>3, Zenon DEF e
  <2>2. (5 + n) + 1 = 6 + n /\ (5 + n) + 3 = 8 + n
    BY <1>2
  <2>3. (\A i \in 1..n : 5 + i \in 1..(5 + n)) /\ 1..5 \subseteq 1..(5 + n)
    BY <1>2
  <2> QED
    BY <1>4, <1>5, <2>1, <2>2, <2>3 DEF e
<1>7. /\ a \o e \in Seq(S) /\ Len(a \o e) = 3 + (8 + n)
      /\ \A i \in 1..3 : (a \o e)[i] = a[i]
      /\ \A i \in 1..(8 + n) : (a \o e)[3 + i] = e[i]
  <2>0. a \in Seq(S) /\ e \in Seq(S)
    BY <1>6
  <2>1. /\ a \o e \in Seq(S) /\ Len(a \o e) = Len(a) + Len(e)
        /\ \A i \in 1..Len(a) : (a \o e)[i] = a[i]
        /\ \A i, j : i \in 1..Len(e) /\ j = Len(a) + i => (a \o e)[j] = e[i]
    BY <2>0, ConcatParts
  <2> QED
    BY <1>1, <1>2, <1>6, <2>1
<1> DEFINE f == a \o e
<1> HIDE DEF f
<1>8. /\ f \in Seq(S) /\ Len(f) = 3 + (8 + n)
      /\ \A i \in 1..3 : f[i] = a[i]
      /\ \A i \in 1..(8 + n) : f[3 + i] = e[i]
  BY <1>7 DEF f
<1>9. /\ f \in Seq(S) /\ Len(f) = 11 + n
      /\ f[2] = a[2] /\ f[3] = a[3]
      /\ \A i \in 1..5 : f[3 + i] = b[i]
      /\ \A i \in 1..n : f[8 + i] = c[i]
      /\ f[9 + n] = d[1]
  <2>1. 1..5 \subseteq 1..(8 + n) /\ 6 + n \in 1..(8 + n)
    BY <1>2
  <2>2. (\A i \in 1..5 : f[3 + i] = b[i]) /\ f[3 + (6 + n)] = d[1]
    BY <1>6, <1>8, <2>1
  <2>3. \A i \in 1..n : f[8 + i] = c[i]
    <3>1. \A i \in 1..n : 5 + i \in 1..(8 + n) /\ 3 + (5 + i) = 8 + i
      BY <1>2
    <3>2. ASSUME NEW i \in 1..n
          PROVE  f[8 + i] = c[i]
      <4>1. f[3 + (5 + i)] = e[5 + i]
        BY <1>8, <3>1
      <4>2. e[5 + i] = c[i]
        BY <1>6
      <4> QED
        BY <3>1, <4>1, <4>2, Zenon
    <3> QED
      BY <3>2, Zenon
  <2>4. 3 + (6 + n) = 9 + n /\ 3 + (8 + n) = 11 + n
    BY <1>2
  <2> QED
    BY <1>2, <1>8, <2>2, <2>3, <2>4
<1>10. f = frame
  BY DEF bc, e, f, frame
<1> QED
  BY <1>2, <1>9, <1>10 DEF PartsLie

\* The fields of a report that every frame has, each behind its label.
Labelled(line, text, n) == \E label : line = Line(label, text) /\ Len(label) = n

LEMMA FrameLaidOut ==
    ASSUME NEW r \in Reports
    PROVE  LET f == FrameOf(r)
           IN  /\ f \in Seq({f[i] : i \in DOMAIN f}) /\ Len(f) = 11 + InfoCount(r)
               /\ Labelled(f[2], r.channel, 13) /\ f[2] # Empty /\ f[3] = Empty
               /\ Labelled(f[4], r.user, 6) /\ Labelled(f[5], r.event.city, 6)
               /\ Labelled(f[6], r.event.name, 12)
               /\ Labelled(f[7], Decimal[r.date], 11)
               /\ \A i \in 4..8 : f[i] # Empty
               /\ \A i \in 1..InfoCount(r) : f[8 + i] = InfoLines(r.event.info)[i]
               /\ f[9 + InfoCount(r)] # Empty
               /\ Substr(f[9 + InfoCount(r)], 0) # Throws
<1> DEFINE n == InfoCount(r)
           f == FrameOf(r)
           c == InfoLines(r.event.info)
<1>1. PICK first, label, description, text, receipt :
            /\ f = <<first, Line(label, r.channel), Empty>>
                   \o (BodyStart(r.user, r.event, r.date) \o c \o <<description, text, receipt>>)
            /\ Len(label) = 13 /\ Line(label, r.channel) # Empty
            /\ description # Empty /\ Substr(description, 0) # Throws
  BY FrameParts
<1>2. PICK l1, l2, l3, l4, last :
            /\ BodyStart(r.user, r.event, r.date) =
                    <<Line(l1, r.user), Line(l2, r.event.city), Line(l3, r.event.name),
                      Line(l4, Decimal[r.date]), last>>
            /\ Len(l1) = 6 /\ Len(l2) = 6 /\ Len(l3) = 12 /\ Len(l4) = 11
            /\ \A line \in {Line(l1, r.user), Line(l2, r.event.city), Line(l3, r.event.name),
                            Line(l4, Decimal[r.date]), last} : line # Empty
  BY BodyStartLaidOut
<1>3. n \in Nat
  BY ReportTyped
<1>4. c \in [1..n -> {c[i] : i \in 1..n}]
  BY Zenon DEF InfoLines, InfoCount
<1> DEFINE S == {c[i] : i \in 1..n} \cup {first, Line(label, r.channel), Empty, Line(l1, r.user),
                    Line(l2, r.event.city), Line(l3, r.event.name),
                    Line(l4, Decimal[r.date]), last, description, text, receipt}
<1>5. c \in [1..n -> S]
  BY <1>4
<1> HIDE DEF n, f, c
<1>6. /\ f \in Seq(S) /\ Len(f) = 11 + n
      /\ f[2] = Line(label, r.channel) /\ f[3] = Empty
      /\ f[4] = Line(l1, r.user) /\ f[5] = Line(l2, r.event.city) /\ f[6] = Line(l3, r.event.name)
      /\ f[7] = Line(l4, Decimal[r.date]) /\ f[8] = last
      /\ \A i \in 1..n : f[8 + i] = c[i]
      /\ f[9 + n] = description
  <2> DEFINE head == <<first, Line(label, r.channel), Empty>>
             start == <<Line(l1, r.user), Line(l2, r.event.city), Line(l3, r.event.name),
                        Line(l4, Decimal[r.date]), last>>
             end == <<description, text, receipt>>
  <2>1. f = head \o (start \o c \o end)
    BY <1>1, <1>2
  <2>2. /\ head \in Seq(S) /\ Len(head) = 3
        /\ head[2] = Line(label, r.channel) /\ head[3] = Empty
    OBVIOUS
  <2>3. /\ start \in Seq(S) /\ Len(start) = 5
        /\ start[1] = Line(l1, r.user) /\ start[2] = Line(l2, r.event.city)
        /\ start[3] = Line(l3, r.event.name) /\ start[4] = Line(l4, Decimal[r.date])
        /\ start[5] = last
    OBVIOUS
  <2>4. end \in Seq(S) /\ Len(end) = 3 /\ end[1] = description
    OBVIOUS
  <2> HIDE DEF S, head, start, end
  <2>5. c \in Seq(S) /\ Len(c) = n
    BY <1>3, <1>5, SeqDef
  <2>6. /\ f \in Seq(S) /\ Len(f) = 11 + n
        /\ f[2] = head[2] /\ f[3] = head[3]
        /\ \A i \in 1..5 : f[3 + i] = start[i]
        /\ \A i \in 1..n : f[8 + i] = c[i]
        /\ f[9 + n] = end[1]
    <3>1. f \in Seq(S) /\ PartsLie(f, head, start, c, end)
      BY <2>1, <2>2, <2>3, <2>4, <2>5, PartsConcatenated
    <3> QED
      BY <2>5, <3>1 DEF PartsLie
  <2>7. /\ f[3 + 1] = start[1] /\ f[3 + 2] = start[2] /\ f[3 + 3] = start[3]
        /\ f[3 + 4] = start[4] /\ f[3 + 5] = start[5]
    BY <2>6
  <2> QED
    BY <2>2, <2>3, <2>4, <2>6, <2>7
<1>7. f \in Seq({f[i] : i \in DOMAIN f})
  <2>1. DOMAIN f = 1..(11 + n)
    BY <1>3, <1>6, LenProperties
  <2>2. f \in [1..(11 + n) -> {f[i] : i \in 1..(11 + n)}]
    BY <1>6, <2>1, LenProperties
  <2> QED
    BY <1>3, <2>1, <2>2, SeqDef
<1>8. \A i \in 4..8 : f[i] # Empty
  <2>1. f[4] # Empty /\ f[5] # Empty /\ f[6] # Empty /\ f[7] # Empty /\ f[8] # Empty
    BY <1>2, <1>6
  <2>2. \A i \in 4..8 : i = 4 \/ i = 5 \/ i = 6 \/ i = 7 \/ i = 8
    OBVIOUS
  <2> QED
    BY <2>1, <2>2
<1> QED
  BY <1>1, <1>2, <1>6, <1>7, <1>8 DEF Labelled, n, f, c

\* A frame in the server: its body begins behind the first empty line, and has all lines up
\* to the general information, and those of two keys.
LEMMA BodyLaidOut ==
    ASSUME NEW r \in Reports
    PROVE  LET f == FrameOf(r)
               b == Body(f)
           IN  /\ b \in Seq({f[i] : i \in DOMAIN f}) /\ Len(b) >= 5
               /\ \A i \in 1..Len(b) : b[i] = f[3 + i]
               /\ Regular(r.event) => Len(b) >= 8
<1> DEFINE f == FrameOf(r)
           k == FirstEmpty(f, 4)
           n == InfoCount(r)
<1>1. /\ f \in Seq({f[i] : i \in DOMAIN f}) /\ Len(f) = 11 + n
      /\ f[2] # Empty /\ f[3] = Empty
      /\ \A i \in 4..8 : f[i] # Empty
      /\ \A i \in 1..n : f[8 + i] = InfoLines(r.event.info)[i]
      /\ f[9 + n] # Empty
  BY FrameLaidOut
<1>2. n \in Nat
  BY ReportTyped
<1> HIDE DEF f, k, n
<1>3. FirstEmpty(f, 2) = 3
  <2>1. Len(f) \in Nat /\ 2 \in 1..Len(f) /\ 3 <= Len(f) /\ 3 \in 2..Len(f)
    BY <1>1, <1>2
  <2>2. /\ FirstEmpty(f, 2) \in 2..(Len(f) + 1)
        /\ \A i \in 2..Len(f) : i < FirstEmpty(f, 2) => f[i] # Empty
        /\ FirstEmpty(f, 2) <= Len(f) => f[FirstEmpty(f, 2)] = Empty
    BY <2>1, FirstEmptyFound
  <2>3. FirstEmpty(f, 2) # 2 /\ ~(3 < FirstEmpty(f, 2))
    BY <1>1, <2>1, <2>2
  <2> QED
    BY <2>2, <2>3
<1>4. Len(f) \in Nat /\ 4 \in 1..Len(f)
  BY <1>1, <1>2
<1>5. /\ k \in 4..(Len(f) + 1)
      /\ k <= Len(f) => f[k] = Empty
  BY <1>4, FirstEmptyFound DEF k
<1>6. k \in 9..(Len(f) + 1)
  <2>1. 8 < Len(f) /\ k \in Nat /\ k >= 4
    BY <1>1, <1>2, <1>4, <1>5
  <2>2. k <= 8 => k \in 4..8 /\ k <= Len(f)
    BY <2>1, <1>4
  <2>3. ~(k <= 8)
    BY <2>2, <1>1, <1>5
  <2> QED
    BY <2>1, <2>3, <1>4, <1>5
<1>7. ASSUME Regular(r.event)
      PROVE  k >= 12
  <2>1. DOMAIN r.event.info = {"active", "forces_arrival_at_scene"}
    BY <1>7 DEF Regular
  <2>2. n = 2
    BY <2>1, TwoKeysAscending DEF n, InfoCount
  <2>3. /\ InfoLines(r.event.info)[1] # Empty /\ InfoLines(r.event.info)[2] # Empty
    BY <2>1, InfoLaidOut
  <2>4. f[9] # Empty /\ f[10] # Empty /\ f[11] # Empty /\ Len(f) = 13
    <3>1. 1 \in 1..n /\ 2 \in 1..n /\ 8 + 1 = 9 /\ 8 + 2 = 10 /\ 9 + n = 11 /\ 11 + n = 13
      BY <2>2
    <3> QED
      BY <1>1, <2>3, <3>1
  <2>5. k # 9 /\ k # 10 /\ k # 11
    BY <1>5, <2>4
  <2> QED
    BY <1>6, <2>5
<1>8. Body(f) = SubSeq(f, 4, k - 1)
  <2>1. FirstEmpty(f, 2) + 1 = 4
    BY <1>3
  <2> QED
    BY <2>1 DEF Body, k
<1>9. /\ Body(f) \in Seq({f[i] : i \in DOMAIN f})
      /\ Len(Body(f)) = k - 4
      /\ \A i \in 1..(k - 4) : Body(f)[i] = f[3 + i]
  <2>1. k - 1 \in Int /\ 4 \in Int /\ 4 <= k - 1 /\ (k - 1) - 4 + 1 = k - 4
    BY <1>6, <1>4
  <2>2. DOMAIN f = 1..Len(f)
    BY <1>1, LenProperties
  <2>3. \A i \in 4..(k - 1) : f[i] \in {f[j] : j \in DOMAIN f}
    BY <1>4, <1>6, <2>2
  <2>4. /\ SubSeq(f, 4, k - 1) \in Seq({f[i] : i \in DOMAIN f})
        /\ Len(SubSeq(f, 4, k - 1)) = (k - 1) - 4 + 1
        /\ \A i \in 1..((k - 1) - 4 + 1) : SubSeq(f, 4, k - 1)[i] = f[4 + i - 1]
    BY <2>1, <2>3, SubSeqProperties
  <2>5. \A i \in 1..(k - 4) : 4 + i - 1 = 3 + i
    BY <2>1
  <2> QED
    BY <1>8, <2>1, <2>4, <2>5
<1>10. k - 4 >= 5 /\ (Regular(r.event) => k - 4 >= 8)
  BY <1>6, <1>7, <1>4
<1> QED
  BY <1>9, <1>10 DEF f

\* A MESSAGE has the destination and the body at the lines where process looks for them.
LEMMA MessageLaidOut ==
    ASSUME NEW r \in Reports
    PROVE  LET f == FrameOf(r)
               m == MessageOf(r)
           IN  /\ DOMAIN m = 1..Len(m) /\ Len(m) \in Nat /\ Len(m) >= 10
               /\ m[4] = f[2] /\ m[6] = f[4] /\ m[7] = f[5] /\ m[8] = f[6] /\ m[9] = f[7]
               /\ Regular(r.event) =>
                    Len(m) >= 13 /\ m[11] = f[9] /\ m[12] = f[10] /\ m[13] = f[11]
<1> DEFINE f == FrameOf(r)
           b == Body(f)
<1>1. \E h1, h2, h3 : MessageOf(r) = <<h1, h2, h3, f[2], Empty>> \o b
  <2> WITNESS Line("MESSAGE", ""), Line("subscription:", "s"), Line("message-id:", "m")
  <2> QED
    BY Zenon DEF MessageOf, Message
<1> PICK h1, h2, h3 : MessageOf(r) = <<h1, h2, h3, f[2], Empty>> \o b
  BY <1>1
<1>2. /\ b \in Seq({f[i] : i \in DOMAIN f}) /\ Len(b) >= 5
      /\ \A i \in 1..Len(b) : b[i] = f[3 + i]
      /\ Regular(r.event) => Len(b) >= 8
  BY BodyLaidOut
<1> DEFINE S == {f[i] : i \in DOMAIN f} \cup {h1, h2, h3, f[2], Empty}
           a == <<h1, h2, h3, f[2], Empty>>
           m == a \o b
<1>3. a \in Seq(S) /\ Len(a) = 5 /\ a[4] = f[2]
  OBVIOUS
<1>4. b \in Seq(S) /\ Len(b) \in Nat
  BY <1>2, SeqMonotonic, LenProperties
<1>5. m = MessageOf(r)
  OBVIOUS
<1> HIDE DEF f, b, S, a
<1>6. /\ m \in Seq(S) /\ Len(m) = Len(a) + Len(b)
      /\ \A i \in 1..Len(a) : m[i] = a[i]
      /\ \A i \in 1..Len(b) : m[Len(a) + i] = b[i]
  <2>1. /\ a \o b \in Seq(S) /\ Len(a \o b) = Len(a) + Len(b)
        /\ \A i \in 1..Len(a) : (a \o b)[i] = a[i]
        /\ \A i \in 1..Len(b) : (a \o b)[Len(a) + i] = b[i]
    <3>1. a \in Seq(S) /\ b \in Seq(S)
      BY <1>3, <1>4
    <3> QED
      BY <3>1, ConcatParts
  <2> QED
    BY <2>1
<1> HIDE DEF m
<1>7. /\ Len(m) = 5 + Len(b) /\ m[4] = f[2]
      /\ \A i \in 1..Len(b) : m[5 + i] = f[3 + i]
  BY <1>2, <1>3, <1>6
<1>8. DOMAIN m = 1..Len(m) /\ Len(m) \in Nat
  BY <1>6, LenProperties
<1>9. m[6] = f[4] /\ m[7] = f[5] /\ m[8] = f[6] /\ m[9] = f[7]
  <2>1. 1 \in 1..Len(b) /\ 2 \in 1..Len(b) /\ 3 \in 1..Len(b) /\ 4 \in 1..Len(b)
    BY <1>2, <1>4
  <2>2. m[5 + 1] = f[3 + 1] /\ m[5 + 2] = f[3 + 2] /\ m[5 + 3] = f[3 + 3] /\ m[5 + 4] = f[3 + 4]
    BY <1>7, <2>1
  <2> QED
    BY <2>2
<1>10. ASSUME Regular(r.event)
       PROVE  Len(m) >= 13 /\ m[11] = f[9] /\ m[12] = f[10] /\ m[13] = f[11]
  <2>1. Len(b) >= 8 /\ 6 \in 1..Len(b) /\ 7 \in 1..Len(b) /\ 8 \in 1..Len(b)
    BY <1>2, <1>4, <1>10
  <2>2. m[5 + 6] = f[3 + 6] /\ m[5 + 7] = f[3 + 7] /\ m[5 + 8] = f[3 + 8]
    BY <1>7, <2>1
  <2> QED
    BY <2>1, <2>2, <1>4, <1>7
<1> QED
  BY <1>2, <1>4, <1>5, <1>7, <1>8, <1>9, <1>10 DEF f

-----------------------------------------------------------------------------
(* What process reads.                                                      *)

\* What process cuts off a labelled line is its text.
LEMMA CutOfText ==
    ASSUME NEW m, NEW n, n + 1 \in DOMAIN m, NEW k \in Nat \ {0}, NEW text, NEW undefined,
           Labelled(m[n + 1], text, k)
    PROVE  Cut(m, n, k, undefined) = text
<1>1. PICK label : m[n + 1] = Line(label, text) /\ Len(label) = k
  BY DEF Labelled
<1> QED
  BY <1>1, SubstrOfText DEF Cut

\* What process reads of a report: always all up to the date, and of an event with the two
\* keys everything.
LEMMA FieldsRead ==
    ASSUME NEW r \in Reports, NEW fields \in FieldsOf(r)
    PROVE  /\ fields.channel = r.channel /\ fields.user = r.user
           /\ fields.city = r.event.city /\ fields.name = r.event.name
           /\ fields.dateTime = Decimal[r.date]
           /\ Regular(r.event) =>
                /\ fields.active = r.event.info["active"].text
                /\ fields.forces = r.event.info["forces_arrival_at_scene"].text
                /\ fields.description # Throws
<1> DEFINE f == FrameOf(r)
           m == MessageOf(r)
           n == InfoCount(r)
<1>0. \A k \in {6, 8, 11, 12, 13, 25} : k \in Nat \ {0}
  OBVIOUS
<1>1. PICK undefined : fields = Fields(m, undefined)
  BY DEF FieldsOf
<1>2. /\ Labelled(f[2], r.channel, 13)
      /\ Labelled(f[4], r.user, 6) /\ Labelled(f[5], r.event.city, 6)
      /\ Labelled(f[6], r.event.name, 12)
      /\ Labelled(f[7], Decimal[r.date], 11)
      /\ \A i \in 1..n : f[8 + i] = InfoLines(r.event.info)[i]
      /\ Substr(f[9 + n], 0) # Throws
  BY FrameLaidOut
<1>3. /\ DOMAIN m = 1..Len(m) /\ Len(m) \in Nat /\ Len(m) >= 10
      /\ m[4] = f[2] /\ m[6] = f[4] /\ m[7] = f[5] /\ m[8] = f[6] /\ m[9] = f[7]
      /\ Regular(r.event) =>
            Len(m) >= 13 /\ m[11] = f[9] /\ m[12] = f[10] /\ m[13] = f[11]
  BY MessageLaidOut
<1> HIDE DEF f, m, n
<1>4. /\ 3 + 1 \in DOMAIN m /\ 5 + 1 \in DOMAIN m /\ 6 + 1 \in DOMAIN m
      /\ 7 + 1 \in DOMAIN m /\ 8 + 1 \in DOMAIN m
  BY <1>3
<1>5. /\ fields.channel = Cut(m, 3, 13, undefined) /\ fields.user = Cut(m, 5, 6, undefined)
      /\ fields.city = Cut(m, 6, 6, undefined) /\ fields.name = Cut(m, 7, 12, undefined)
      /\ fields.dateTime = Cut(m, 8, 11, undefined)
      /\ fields.active = Cut(m, 10, 8, undefined)
      /\ fields.forces = Cut(m, 11, 25, undefined)
      /\ fields.description = Cut(m, 12, 0, undefined)
  BY <1>1 DEF Fields
<1>6. /\ Labelled(m[3 + 1], r.channel, 13) /\ Labelled(m[5 + 1], r.user, 6)
      /\ Labelled(m[6 + 1], r.event.city, 6) /\ Labelled(m[7 + 1], r.event.name, 12)
      /\ Labelled(m[8 + 1], Decimal[r.date], 11)
  <2>1. 3 + 1 = 4 /\ 5 + 1 = 6 /\ 6 + 1 = 7 /\ 7 + 1 = 8 /\ 8 + 1 = 9
    OBVIOUS
  <2> QED
    BY <1>2, <1>3, <2>1
<1>7. /\ fields.channel = r.channel /\ fields.user = r.user
      /\ fields.city = r.event.city /\ fields.name = r.event.name
      /\ fields.dateTime = Decimal[r.date]
  <2>1. Cut(m, 3, 13, undefined) = r.channel
    BY <1>0, <1>4, <1>6, CutOfText, Zenon
  <2>2. Cut(m, 5, 6, undefined) = r.user
    BY <1>0, <1>4, <1>6, CutOfText, Zenon
  <2>3. Cut(m, 6, 6, undefined) = r.event.city
    BY <1>0, <1>4, <1>6, CutOfText, Zenon
  <2>4. Cut(m, 7, 12, undefined) = r.event.name
    BY <1>0, <1>4, <1>6, CutOfText, Zenon
  <2>5. Cut(m, 8, 11, undefined) = Decimal[r.date]
    BY <1>0, <1>4, <1>6, CutOfText, Zenon
  <2> QED
    BY <1>5, <2>1, <2>2, <2>3, <2>4, <2>5
<1>8. ASSUME Regular(r.event)
      PROVE  /\ fields.active = r.event.info["active"].text
             /\ fields.forces = r.event.info["forces_arrival_at_scene"].text
             /\ fields.description # Throws
  <2>1. DOMAIN r.event.info = {"active", "forces_arrival_at_scene"}
    BY <1>8 DEF Regular
  <2>2. n = 2
    BY <2>1, TwoKeysAscending DEF n, InfoCount
  <2>3. /\ Labelled(InfoLines(r.event.info)[1], r.event.info["active"].text, 8)
        /\ Labelled(InfoLines(r.event.info)[2], r.event.info["forces_arrival_at_scene"].text, 25)
    BY <2>1, InfoLaidOut DEF Labelled
  <2>4. /\ 10 + 1 = 11 /\ 11 + 1 = 12 /\ 12 + 1 = 13
        /\ 10 + 1 \in DOMAIN m /\ 11 + 1 \in DOMAIN m /\ 12 + 1 \in DOMAIN m
    BY <1>3, <1>8
  <2>5. /\ m[10 + 1] = InfoLines(r.event.info)[1] /\ m[11 + 1] = InfoLines(r.event.info)[2]
        /\ m[12 + 1] = f[9 + n]
    <3>1. 1 \in 1..n /\ 2 \in 1..n /\ 8 + 1 = 9 /\ 8 + 2 = 10 /\ 9 + n = 11
      BY <2>2
    <3> QED
      BY <1>2, <1>3, <1>8, <2>4, <3>1
  <2>6. Cut(m, 10, 8, undefined) = r.event.info["active"].text
    BY <1>0, <2>3, <2>4, <2>5, CutOfText, Zenon
  <2>7. Cut(m, 11, 25, undefined) = r.event.info["forces_arrival_at_scene"].text
    BY <1>0, <2>3, <2>4, <2>5, CutOfText, Zenon
  <2>8. Cut(m, 12, 0, undefined) # Throws
    BY <1>2, <2>4, <2>5 DEF Cut
  <2> QED
    BY <1>5, <2>6, <2>7, <2>8
<1> QED
  BY <1>7, <1>8

\* The report of an event with the two keys ends nobody.
LEMMA RegularAccepted ==
    ASSUME NEW r \in Reports, NEW fields \in FieldsOf(r), Regular(r.event)
    PROVE  ~ProcessThrows(fields)
<1>1. PICK undefined : fields = Fields(MessageOf(r), undefined)
  BY DEF FieldsOf
<1>2. DOMAIN fields = {"channel", "user", "city", "name", "dateTime", "active", "forces",
                       "description"}
  BY <1>1 DEF Fields
<1>3. /\ fields["channel"] = fields.channel /\ fields["user"] = fields.user
      /\ fields["city"] = fields.city /\ fields["name"] = fields.name
      /\ fields["dateTime"] = fields.dateTime /\ fields["active"] = fields.active
      /\ fields["forces"] = fields.forces /\ fields["description"] = fields.description
  OBVIOUS
<1>4. /\ r.event.info["active"].text \in Text
      /\ r.event.info["forces_arrival_at_scene"].text \in Text
  BY ReportTyped DEF Regular, Value
<1>5. Decimal[r.date] \in Text
  BY ReportTyped, IntsAssumption DEF IntsAssumption
<1>6. /\ fields.channel \in Text /\ fields.user \in Text /\ fields.city \in Text
      /\ fields.name \in Text /\ fields.dateTime \in Text
      /\ fields.active \in Text /\ fields.forces \in Text /\ fields.description # Throws
  BY <1>4, <1>5, FieldsRead, ReportTyped
<1>7. \A text \in Text : text # Throws /\ text # Garbled
  BY DEF Text
<1>8. \A field \in DOMAIN fields : fields[field] # Throws
  BY <1>2, <1>3, <1>6, <1>7
<1>9. \E n \in Ints : Decimal[n] = fields.dateTime
  BY FieldsRead, ReportTyped
<1> QED
  BY <1>8, <1>9, Zenon DEF ProcessThrows

\* What is kept of a report is what process reads of it, the date as the int it was.
LEMMA KeptRead ==
    ASSUME NEW r \in Reports, NEW k \in KeptOf(r)
    PROVE  /\ k.channel = r.channel /\ k.user = r.user
           /\ k.city = r.event.city /\ k.name = r.event.name
           /\ k.dateTime = r.date /\ k.dateTime \in Ints
           /\ Fits(r.event.dateTime) => k.dateTime = r.event.dateTime.whole
           /\ Regular(r.event) =>
                /\ k.active = r.event.info["active"].text
                /\ k.forces = r.event.info["forces_arrival_at_scene"].text
<1>1. PICK fields \in FieldsOf(r) : k = [fields EXCEPT !.dateTime = Stoi(@)]
  BY DEF KeptOf
<1>2. PICK undefined : fields = Fields(MessageOf(r), undefined)
  BY DEF FieldsOf
<1>3. /\ k.channel = fields.channel /\ k.user = fields.user /\ k.city = fields.city
      /\ k.name = fields.name /\ k.active = fields.active /\ k.forces = fields.forces
      /\ k.dateTime = Stoi(fields.dateTime)
  BY <1>1, <1>2 DEF Fields
<1>4. fields.dateTime = Decimal[r.date] /\ r.date \in Ints
  BY FieldsRead, ReportTyped
<1>5. Stoi(Decimal[r.date]) = r.date
  BY <1>4, IntsAssumption DEF IntsAssumption, Stoi
<1>6. Fits(r.event.dateTime) => r.date = r.event.dateTime.whole
  BY ReportTyped
<1> QED
  BY <1>3, <1>4, <1>5, <1>6, FieldsRead

-----------------------------------------------------------------------------
(* The steps.                                                               *)

\* A frame consists of lines.
LEMMA FrameTyped ==
    ASSUME NEW r \in Reports
    PROVE  FrameOf(r) \in Seq(Lines)
<1>1. FrameOf(r) \in Seq({FrameOf(r)[i] : i \in DOMAIN FrameOf(r)})
  BY FrameLaidOut
<1>2. {FrameOf(r)[i] : i \in DOMAIN FrameOf(r)} \subseteq Lines
  BY DEF Lines
<1> QED
  BY <1>1, <1>2, SeqMonotonic

\* The head of a sequence moves to the end of the one before it.
LEMMA HeadMovesOn ==
    ASSUME NEW S, NEW a \in Seq(S), NEW b \in Seq(S), b # <<>>
    PROVE  /\ Append(a, Head(b)) \in Seq(S) /\ Tail(b) \in Seq(S)
           /\ Append(a, Head(b)) \o Tail(b) = a \o b
<1>1. Head(b) \in S /\ Tail(b) \in Seq(S) /\ b = <<Head(b)>> \o Tail(b)
  OBVIOUS
<1>2. Append(a, Head(b)) = a \o <<Head(b)>> /\ Append(a, Head(b)) \in Seq(S)
  BY <1>1, AppendIsConcat, AppendProperties
<1>3. <<Head(b)>> \in Seq(S)
  BY <1>1
<1>4. (a \o <<Head(b)>>) \o Tail(b) = a \o (<<Head(b)>> \o Tail(b))
  BY <1>1, <1>3, ConcatAssociative
<1> QED
  BY <1>1, <1>2, <1>4

\* Initially nothing is on its way.
LEMMA InitReports ==
    ASSUME Init
    PROVE  ReportInv
<1>1. Types
  BY EmptySeq DEF Init, Types
<1>2. ASSUME NEW u \in Users
      PROVE  Served(u)
  BY EmptySeq DEF Init, Served
<1>3. Delivered
  BY EmptySeq DEF Init, Delivered
<1> QED
  BY <1>1, <1>2, <1>3 DEF ReportInv

\* A user has made the frames of its reports before the first is sent.
LEMMA HandleReportServes ==
    ASSUME ReportInv, NEW u \in Users, NEW file \in Files, HandleReport(u, file)
    PROVE  ReportInv'
<1>0. PICK undefined \in Undefined :
        LET made == Reported(u, file, undefined)
        IN  /\ outbox' = [outbox EXCEPT ![u] = @ \o [i \in DOMAIN made |-> SendFrame(made[i])]]
            /\ sent' = [sent EXCEPT ![u] = @ \o made]
  BY DEF HandleReport
<1> DEFINE reports == Reported(u, file, undefined)
           frames == [i \in DOMAIN reports |-> SendFrame(reports[i])]
           n == Len(file.events)
           o == outbox[u]
           s == sent[u]
<1>1. DOMAIN file.events = 1..n /\ n \in Nat /\ DOMAIN reports = 1..n
  BY FilesAssumption DEF FilesAssumption, Reported
<1>2. \A i \in 1..n : reports[i] \in Reports /\ frames[i] = FrameOf(reports[i])
  <2>1. Parses(file)
    BY DEF HandleReport
  <2> HIDE DEF reports
  <2>2. ASSUME NEW i \in 1..n
        PROVE  reports[i] \in Reports
    <3> DEFINE files == {f \in Files : Parses(f)}
               Made(v, f, d) == {Reported(v, f, d)[j] : j \in DOMAIN f.events}
    <3>1. reports[i] \in Made(u, file, undefined)
      BY <1>1 DEF reports
    <3>2. file \in files
      BY <2>1
    <3> HIDE DEF files, Made
    <3>3. reports[i] \in UNION {Made(u, file, d) : d \in Undefined}
      BY <3>1
    <3>4. reports[i] \in UNION {UNION {Made(u, f, d) : d \in Undefined} : f \in files}
      BY <3>2, <3>3
    <3>5. reports[i] \in UNION {UNION {UNION {Made(v, f, d) : d \in Undefined} : f \in files} :
                              v \in Users}
      BY <3>4
    <3> QED
      BY <3>5 DEF Reports, files, Made
  <2> QED
    BY <1>1, <2>2 DEF FrameOf
<1>3. \A i \in 1..n : frames[i] \in Seq(Lines)
  BY <1>2, FrameTyped
<1>4. /\ reports \in Seq(Reports) /\ Len(reports) = n
      /\ frames \in Seq(Seq(Lines)) /\ Len(frames) = n
  <2>1. reports \in [1..n -> Reports] /\ frames \in [1..n -> Seq(Lines)]
    <3>1. reports = [i \in 1..n |-> reports[i]] /\ frames = [i \in 1..n |-> frames[i]]
      BY <1>1 DEF Reported
    <3> HIDE DEF reports, frames, n
    <3> QED
      BY <1>2, <1>3, <3>1
  <2> HIDE DEF reports, frames, n
  <2> QED
    BY <1>1, <2>1, SeqDef
<1>5. /\ outbox' = [outbox EXCEPT ![u] = o \o frames]
      /\ sent' = [sent EXCEPT ![u] = s \o reports]
      /\ UNCHANGED <<decoder, decoded, inbox, kept, ended, due>>
  BY <1>0 DEF HandleReport
<1> HIDE DEF reports, frames, n, o, s
<1>6. o \in Seq(Seq(Lines)) /\ s \in Seq(Reports) /\ decoder[u] \in Seq(Lines) /\ decoded[u] \in Nat
  BY DEF ReportInv, Types, o, s
<1>7. /\ o \o frames \in Seq(Seq(Lines)) /\ Len(o \o frames) = Len(o) + n
      /\ \A i \in 1..Len(o) : (o \o frames)[i] = o[i]
      /\ \A i \in 1..n : (o \o frames)[Len(o) + i] = frames[i]
  <2> DEFINE S == Seq(Lines)
  <2>1. o \in Seq(S) /\ frames \in Seq(S)
    BY <1>4, <1>6
  <2> HIDE DEF S
  <2>2. /\ o \o frames \in Seq(S) /\ Len(o \o frames) = Len(o) + Len(frames)
        /\ \A i \in 1..Len(o) : (o \o frames)[i] = o[i]
        /\ \A i \in 1..Len(frames) : (o \o frames)[Len(o) + i] = frames[i]
    BY <2>1, ConcatParts
  <2> QED
    BY <1>4, <2>2 DEF S
<1>8. /\ s \o reports \in Seq(Reports) /\ Len(s \o reports) = Len(s) + n
      /\ \A i \in 1..Len(s) : (s \o reports)[i] = s[i]
      /\ \A i \in 1..n : (s \o reports)[Len(s) + i] = reports[i]
  <2>1. s \in Seq(Reports) /\ reports \in Seq(Reports)
    BY <1>4, <1>6
  <2>2. /\ s \o reports \in Seq(Reports) /\ Len(s \o reports) = Len(s) + Len(reports)
        /\ \A i \in 1..Len(s) : (s \o reports)[i] = s[i]
        /\ \A i \in 1..Len(reports) : (s \o reports)[Len(s) + i] = reports[i]
    BY ONLY <2>1, ConcatParts
  <2> QED
    BY <1>4, <2>2
<1>9. Types'
  BY <1>5, <1>7, <1>8 DEF ReportInv, Types
<1>10. outbox'[u] = o \o frames /\ sent'[u] = s \o reports
  BY <1>5 DEF ReportInv, Types
<1>11. /\ Len(s) = decoded[u] + Len(o)
       /\ o = <<>> => decoder[u] = <<>>
       /\ o # <<>> => decoder[u] \o o[1] = FrameOf(s[decoded[u] + 1])
       /\ \A i \in DOMAIN o : i > 1 => o[i] = FrameOf(s[decoded[u] + i])
  BY DEF ReportInv, Served, o, s
<1>12. Len(o) \in Nat /\ Len(s) \in Nat /\ DOMAIN o = 1..Len(o) /\ (o = <<>> <=> Len(o) = 0)
  BY <1>6, LenProperties, EmptySeq
<1> DEFINE q == o \o frames
           t == s \o reports
<1>13. DOMAIN q = 1..(Len(o) + n) /\ (q = <<>> <=> Len(o) + n = 0)
  BY <1>7, LenProperties, EmptySeq
<1> HIDE DEF q, t
<1>14. \A i \in 1..n : q[Len(o) + i] = FrameOf(t[decoded[u] + (Len(o) + i)])
  <2> SUFFICES ASSUME NEW i \in 1..n
               PROVE  q[Len(o) + i] = FrameOf(t[decoded[u] + (Len(o) + i)])
    OBVIOUS
  <2>1. decoded[u] + (Len(o) + i) = Len(s) + i
    BY <1>1, <1>6, <1>11, <1>12
  <2> QED
    BY <1>2, <1>7, <1>8, <2>1 DEF q, t
<1>15. \A i \in 1..Len(o) : t[decoded[u] + i] = s[decoded[u] + i] /\ q[i] = o[i]
  <2>1. \A i \in 1..Len(o) : decoded[u] + i \in 1..Len(s)
    BY <1>6, <1>11, <1>12
  <2> QED
    BY <1>7, <1>8, <2>1 DEF q, t
<1>16. Len(t) = decoded[u] + Len(q)
  BY <1>1, <1>6, <1>7, <1>8, <1>11, <1>12 DEF q, t
<1>17. q = <<>> => decoder[u] = <<>>
  BY <1>1, <1>11, <1>12, <1>13
<1>18. ASSUME q # <<>>
       PROVE  decoder[u] \o q[1] = FrameOf(t[decoded[u] + 1])
  <2>1. CASE o = <<>>
    <3>1. Len(o) = 0 /\ 1 \in 1..n /\ Len(o) + 1 = 1
      BY <1>1, <1>12, <1>13, <1>18, <2>1
    <3>2. q[1] = FrameOf(t[decoded[u] + 1])
      BY <1>14, <3>1
    <3>3. q[1] \in Seq(Lines)
      BY <1>3, <1>7, <3>1 DEF q
    <3>4. decoder[u] = <<>>
      BY <1>11, <2>1
    <3> QED
      BY <3>2, <3>3, <3>4, ConcatEmptySeq
  <2>2. CASE o # <<>>
    <3>1. 1 \in 1..Len(o)
      BY <1>12, <2>2
    <3> QED
      BY <1>11, <1>15, <2>2, <3>1
  <2> QED
    BY <2>1, <2>2
<1>19. ASSUME NEW i \in DOMAIN q, i > 1
       PROVE  q[i] = FrameOf(t[decoded[u] + i])
  <2>1. CASE i \in 1..Len(o)
    BY <1>11, <1>12, <1>15, <1>19, <2>1
  <2>2. CASE i \notin 1..Len(o)
    <3>1. i - Len(o) \in 1..n /\ Len(o) + (i - Len(o)) = i
      BY <1>1, <1>12, <1>13, <2>2
    <3> QED
      BY <1>14, <3>1
  <2> QED
    BY <2>1, <2>2
<1>20. Served(u)'
  BY <1>5, <1>10, <1>16, <1>17, <1>18, <1>19 DEF Served, q, t
<1>21. ASSUME NEW v \in Users, v # u
       PROVE  Served(v)'
  BY <1>5, <1>21 DEF ReportInv, Types, Served
<1>22. Delivered'
  BY <1>5 DEF ReportInv, Delivered
<1> QED
  BY <1>9, <1>20, <1>21, <1>22 DEF ReportInv

\* A line that the server has taken is one less that is to be sent.
LEMMA DecodeLineServes ==
    ASSUME ReportInv, NEW u \in Users, DecodeLine(u)
    PROVE  ReportInv'
<1> DEFINE o == outbox[u]
           q == <<Tail(Head(o))>> \o Tail(o)
           d == decoder[u]
           e == Append(d, Head(Head(o)))
<1>1. /\ o # <<>> /\ Head(o) # <<>>
      /\ decoder' = [decoder EXCEPT ![u] = e] /\ outbox' = [outbox EXCEPT ![u] = q]
      /\ UNCHANGED <<inbox, kept, ended, sent, decoded, due>>
  BY DEF DecodeLine, DecoderOf
<1>2. o \in Seq(Seq(Lines)) /\ d \in Seq(Lines)
  BY DEF ReportInv, Types
<1> HIDE DEF o, d
<1>3. Head(o) = o[1] /\ Head(o) \in Seq(Lines) /\ Tail(o) \in Seq(Seq(Lines))
  BY <1>1, <1>2
<1>4. e \in Seq(Lines) /\ Tail(Head(o)) \in Seq(Lines) /\ e \o Tail(Head(o)) = d \o Head(o)
  BY <1>1, <1>2, <1>3, HeadMovesOn
<1>5. /\ q \in Seq(Seq(Lines)) /\ Len(q) = Len(o) /\ q[1] = Tail(Head(o))
      /\ \A i \in 1..Len(o) : i > 1 => q[i] = o[i]
      /\ Len(o) \in Nat /\ Len(o) > 0
  <2>1. /\ Len(Tail(o)) = Len(o) - 1 /\ Len(o) \in Nat /\ Len(o) > 0
        /\ \A i \in 1..(Len(o) - 1) : Tail(o)[i] = o[i + 1]
    BY <1>1, <1>2
  <2>2. <<Tail(Head(o))>> \in Seq(Seq(Lines)) /\ Len(<<Tail(Head(o))>>) = 1
    BY <1>4
  <2> DEFINE a == <<Tail(Head(o))>>
             b == Tail(o)
             S == Seq(Lines)
  <2>3. a[1] = Tail(Head(o)) /\ a \in Seq(S) /\ Len(a) = 1 /\ b \in Seq(S)
        /\ Len(b) = Len(o) - 1 /\ \A i \in 1..(Len(o) - 1) : b[i] = o[i + 1]
    BY <2>1, <2>2, <1>3
  <2>4. q = a \o b
    OBVIOUS
  <2> HIDE DEF a, b, q, S
  <2>5. /\ a \o b \in Seq(S) /\ Len(a \o b) = Len(a) + Len(b)
        /\ \A i \in 1..Len(a) : (a \o b)[i] = a[i]
        /\ \A i \in 1..Len(b) : (a \o b)[Len(a) + i] = b[i]
    <3>1. a \in Seq(S) /\ b \in Seq(S)
      BY <2>3
    <3> QED
      BY <3>1, ConcatParts
  <2>6. \A i \in 1..Len(o) : i > 1 => q[i] = o[i]
    <3> SUFFICES ASSUME NEW i \in 1..Len(o), i > 1
                 PROVE  q[i] = o[i]
      OBVIOUS
    <3>1. i - 1 \in 1..Len(b) /\ 1 + (i - 1) = i /\ (i - 1) + 1 = i
      BY <2>1, <2>3
    <3>2. q[1 + (i - 1)] = b[i - 1] /\ b[i - 1] = o[(i - 1) + 1]
      BY <2>1, <2>3, <2>4, <2>5, <3>1
    <3> QED
      BY <3>1, <3>2
  <2>7. 1 \in 1..Len(a) /\ Len(a) + Len(b) = Len(o)
    BY <2>1, <2>3
  <2>8. q[1] = Tail(Head(o)) /\ Len(q) = Len(o) /\ q \in Seq(S)
    BY <2>3, <2>4, <2>5, <2>7
  <2> QED
    BY <2>1, <2>6, <2>8 DEF S
<1> HIDE DEF q, e
<1>6. Types'
  BY <1>1, <1>4, <1>5 DEF ReportInv, Types
<1>7. outbox'[u] = q /\ decoder'[u] = e /\ sent'[u] = sent[u] /\ decoded'[u] = decoded[u]
  BY <1>1 DEF ReportInv, Types
<1>8. DOMAIN o = 1..Len(o) /\ DOMAIN q = 1..Len(o) /\ q # <<>>
  BY <1>2, <1>5, LenProperties, EmptySeq
<1>9. /\ Len(sent[u]) = decoded[u] + Len(o)
      /\ d \o o[1] = FrameOf(sent[u][decoded[u] + 1])
      /\ \A i \in DOMAIN o : i > 1 => o[i] = FrameOf(sent[u][decoded[u] + i])
  BY <1>1 DEF ReportInv, Served, o, d
<1>10. e \o q[1] = FrameOf(sent[u][decoded[u] + 1])
  BY <1>3, <1>4, <1>5, <1>9
<1>11. Served(u)'
  BY <1>5, <1>7, <1>8, <1>9, <1>10 DEF Served
<1>12. ASSUME NEW v \in Users, v # u
       PROVE  Served(v)'
  BY <1>1, <1>12 DEF ReportInv, Types, Served
<1>13. Delivered'
  BY <1>1 DEF ReportInv, Delivered
<1> QED
  BY <1>6, <1>11, <1>12, <1>13 DEF ReportInv

\* A frame that is complete is the one of the report that is due next.
LEMMA DecodeEndServes ==
    ASSUME ReportInv, NEW u \in Users, DecodeEnd(u)
    PROVE  ReportInv'
<1> DEFINE o == outbox[u]
           r == sent[u][decoded[u] + 1]
<1>1. /\ o # <<>> /\ Head(o) = <<>>
      /\ inbox' = Append(inbox, Message(decoder[u]))
      /\ decoder' = [decoder EXCEPT ![u] = <<>>]
      /\ outbox' = [outbox EXCEPT ![u] = Tail(o)]
      /\ decoded' = [decoded EXCEPT ![u] = decoded[u] + 1]
      /\ due' = Append(due, sent[u][decoded'[u]])
      /\ UNCHANGED <<kept, ended, sent>>
  BY DEF DecodeEnd, DecoderOf
<1>2. /\ o \in Seq(Seq(Lines)) /\ decoder[u] \in Seq(Lines) /\ sent[u] \in Seq(Reports)
      /\ decoded[u] \in Nat /\ decoded'[u] = decoded[u] + 1
  BY <1>1 DEF ReportInv, Types
<1>3. /\ Len(sent[u]) = decoded[u] + Len(o)
      /\ decoder[u] \o o[1] = FrameOf(r)
      /\ \A i \in DOMAIN o : i > 1 => o[i] = FrameOf(sent[u][decoded[u] + i])
  BY <1>1 DEF ReportInv, Served
<1> HIDE DEF o
<1>4. /\ Tail(o) \in Seq(Seq(Lines)) /\ Len(Tail(o)) = Len(o) - 1
      /\ Len(o) \in Nat /\ Len(o) > 0 /\ Head(o) = o[1] /\ DOMAIN o = 1..Len(o)
      /\ \A i \in 1..(Len(o) - 1) : Tail(o)[i] = o[i + 1]
  <2>1. o \in Seq(Seq(Lines)) /\ o # <<>>
    BY <1>1, <1>2, Zenon
  <2>2. Tail(o) \in Seq(Seq(Lines)) /\ Len(Tail(o)) = Len(o) - 1
    BY <2>1, HeadTailProperties
  <2>3. Len(o) \in Nat /\ Len(o) > 0 /\ Head(o) = o[1] /\ DOMAIN o = 1..Len(o)
    BY <2>1
  <2>4. \A i \in 1..(Len(o) - 1) : Tail(o)[i] = o[i + 1]
    BY <2>1
  <2> QED
    BY <2>2, <2>3, <2>4, Zenon
<1>5. r \in Reports
  <2>1. decoded[u] + 1 \in 1..Len(sent[u])
    BY <1>2, <1>3, <1>4
  <2> QED
    BY <1>2, <2>1, ElementOfSeq
<1>6. decoder[u] = FrameOf(r)
  <2>1. o[1] = <<>>
    BY <1>1, <1>4, Zenon
  <2>2. decoder[u] \o <<>> = decoder[u]
    BY <1>2, ConcatEmptySeq, Zenon
  <2> QED
    BY <1>3, <2>1, <2>2, Zenon
<1>7. inbox' = Append(inbox, MessageOf(r)) /\ due' = Append(due, r)
  BY <1>1, <1>2, <1>6 DEF MessageOf
<1> HIDE DEF r
<1>8. Types'
  <2>1. /\ inbox' \in Seq({MessageOf(x) : x \in Reports}) /\ due' \in Seq(Reports)
    BY <1>5, <1>7, AppendProperties DEF ReportInv, Types
  <2>2. decoder' \in [Users -> Seq(Lines)]
    BY <1>1, EmptySeq DEF ReportInv, Types
  <2>3. outbox' \in [Users -> Seq(Seq(Lines))]
    BY <1>1, <1>4 DEF ReportInv, Types
  <2>4. decoded' \in [Users -> Nat]
    <3>1. decoded \in [Users -> Nat] /\ decoded[u] + 1 \in Nat
      BY <1>2 DEF ReportInv, Types
    <3>2. decoded' = [decoded EXCEPT ![u] = decoded[u] + 1]
      BY <1>1
    <3> QED
      BY <3>1, <3>2
  <2> QED
    BY <1>1, <2>1, <2>2, <2>3, <2>4 DEF ReportInv, Types
<1>9. Served(u)'
  <2> DEFINE q == Tail(o)
  <2>1. outbox'[u] = q /\ decoder'[u] = <<>> /\ sent'[u] = sent[u]
    BY <1>1 DEF ReportInv, Types
  <2>2. q \in Seq(Seq(Lines)) /\ Len(q) \in Nat /\ Len(q) = Len(o) - 1 /\ DOMAIN q = 1..Len(q)
        /\ (q = <<>> <=> Len(q) = 0)
    BY <1>4, LenProperties, EmptySeq
  <2>3. \A i \in 1..Len(q) : q[i] = FrameOf(sent[u][(decoded[u] + 1) + i])
    <3> SUFFICES ASSUME NEW i \in 1..Len(q)
                 PROVE  q[i] = FrameOf(sent[u][(decoded[u] + 1) + i])
      OBVIOUS
    <3>1. i \in 1..(Len(o) - 1) /\ i + 1 \in DOMAIN o /\ i + 1 > 1
      BY <1>4, <2>2
    <3>2. decoded[u] + (i + 1) = (decoded[u] + 1) + i
      <4>1. \A m, j \in Nat : m + (j + 1) = (m + 1) + j
        OBVIOUS
      <4> QED
        BY <1>2, <4>1
    <3> QED
      BY <1>3, <1>4, <3>1, <3>2
  <2> HIDE DEF q
  <2>4. Len(sent[u]) = (decoded[u] + 1) + Len(q)
    BY <1>2, <1>3, <1>4, <2>2
  <2>5. ASSUME q # <<>>
        PROVE  <<>> \o q[1] = FrameOf(sent[u][(decoded[u] + 1) + 1])
    <3>1. 1 \in 1..Len(q)
      BY <2>2, <2>5
    <3>2. q[1] \in Seq(Lines)
      BY <2>2, <3>1, ElementOfSeq
    <3> QED
      BY <2>3, <3>1, <3>2, ConcatEmptySeq
  <2> QED
    BY <1>2, <2>1, <2>2, <2>3, <2>4, <2>5 DEF Served
<1>10. ASSUME NEW v \in Users, v # u
       PROVE  Served(v)'
  BY <1>1, <1>10 DEF ReportInv, Types, Served
<1>11. Delivered'
  <2>1. /\ Len(due) \in Nat /\ Len(due') = Len(due) + 1 /\ due'[Len(due) + 1] = r
        /\ \A i \in 1..Len(due) : due'[i] = due[i]
    BY <1>5, <1>7, AppendProperties DEF ReportInv, Types
  <2>2. /\ Len(inbox) \in Nat /\ Len(inbox') = Len(inbox) + 1
        /\ inbox'[Len(inbox) + 1] = MessageOf(r)
        /\ \A i \in 1..Len(inbox) : inbox'[i] = inbox[i]
        /\ DOMAIN inbox = 1..Len(inbox) /\ DOMAIN inbox' = 1..(Len(inbox) + 1)
    <3>1. MessageOf(r) \in {MessageOf(x) : x \in Reports}
      BY <1>5
    <3>2. inbox \in Seq({MessageOf(x) : x \in Reports})
      BY DEF ReportInv, Types
    <3> QED
      BY <1>7, <3>1, <3>2, AppendProperties, LenProperties
  <2>3. Len(kept) \in Nat /\ DOMAIN kept = 1..Len(kept)
    BY LenProperties DEF ReportInv, Types
  <2>4. kept' = kept /\ ended' = ended
    BY <1>1
  <2>5. CASE Reader \notin ended
    <3>1. /\ Len(kept) + Len(inbox) = Len(due)
          /\ \A i \in DOMAIN kept : kept[i] \in KeptOf(due[i])
          /\ \A i \in DOMAIN inbox : inbox[i] = MessageOf(due[Len(kept) + i])
      BY <2>5 DEF ReportInv, Delivered
    <3>2. \A i \in DOMAIN kept : kept[i] \in KeptOf(due'[i])
      BY <2>1, <2>2, <2>3, <3>1
    <3>3. ASSUME NEW i \in DOMAIN inbox'
          PROVE  inbox'[i] = MessageOf(due'[Len(kept) + i])
      <4>1. CASE i \in 1..Len(inbox)
        <5>1. Len(kept) + i \in 1..Len(due)
          BY <2>2, <2>3, <3>1, <4>1
        <5> QED
          BY <2>1, <2>2, <3>1, <4>1, <5>1
      <4>2. CASE i = Len(inbox) + 1
        <5>1. Len(kept) + i = Len(due) + 1
          BY <2>2, <2>3, <3>1, <4>2
        <5> QED
          BY <2>1, <2>2, <4>2, <5>1
      <4> QED
        BY <2>2, <4>1, <4>2
    <3> QED
      BY <2>1, <2>2, <2>3, <2>4, <2>5, <3>1, <3>2, <3>3 DEF Delivered
  <2>6. CASE Reader \in ended
    <3>1. Len(kept) < Len(due) /\ ~Regular(due[Len(kept) + 1].event)
      BY <2>6 DEF ReportInv, Delivered
    <3>2. Len(kept) + 1 \in 1..Len(due)
      BY <2>1, <2>3, <3>1
    <3> QED
      BY <2>1, <2>3, <2>4, <2>6, <3>1, <3>2 DEF Delivered
  <2> QED
    BY <2>5, <2>6
<1> QED
  BY <1>8, <1>9, <1>10, <1>11 DEF ReportInv

\* The reader takes the report that is due next, and is ended by it only if it must be.
LEMMA ProcessDelivers ==
    ASSUME ReportInv, Process
    PROVE  ReportInv'
<1> DEFINE n == Len(kept) + 1
           r == due[n]
<1>1. Reader \notin ended /\ inbox # <<>> /\ inbox' = Tail(inbox)
      /\ UNCHANGED <<outbox, decoder, sent, decoded, due>>
  BY DEF Process, reporters
<1>2. /\ inbox \in Seq({MessageOf(x) : x \in Reports})
      /\ kept \in Seq(UNION {KeptOf(x) : x \in Reports})
      /\ due \in Seq(Reports)
  BY DEF ReportInv, Types
<1>3. /\ Len(kept) + Len(inbox) = Len(due)
      /\ \A i \in DOMAIN kept : kept[i] \in KeptOf(due[i])
      /\ \A i \in DOMAIN inbox : inbox[i] = MessageOf(due[Len(kept) + i])
  BY <1>1 DEF ReportInv, Delivered
<1>4. /\ Tail(inbox) \in Seq({MessageOf(x) : x \in Reports})
      /\ Len(inbox) \in Nat /\ Len(inbox) > 0 /\ Len(Tail(inbox)) = Len(inbox) - 1
      /\ DOMAIN inbox = 1..Len(inbox) /\ Head(inbox) = inbox[1]
      /\ DOMAIN Tail(inbox) = 1..(Len(inbox) - 1)
      /\ \A i \in 1..(Len(inbox) - 1) : Tail(inbox)[i] = inbox[i + 1]
  <2> DEFINE M == {MessageOf(x) : x \in Reports}
  <2>1. inbox \in Seq(M)
    BY <1>2
  <2> HIDE DEF M
  <2>2. /\ Tail(inbox) \in Seq(M)
        /\ Len(inbox) \in Nat /\ Len(inbox) > 0 /\ Len(Tail(inbox)) = Len(inbox) - 1
        /\ DOMAIN inbox = 1..Len(inbox) /\ Head(inbox) = inbox[1]
        /\ DOMAIN Tail(inbox) = 1..(Len(inbox) - 1)
        /\ \A i \in 1..(Len(inbox) - 1) : Tail(inbox)[i] = inbox[i + 1]
    BY <1>1, <2>1
  <2> QED
    BY <2>2 DEF M
<1>5. /\ Len(kept) \in Nat /\ DOMAIN kept = 1..Len(kept) /\ Len(due) \in Nat
      /\ n \in 1..Len(due) /\ r \in Reports
  <2>1. Len(kept) \in Nat /\ DOMAIN kept = 1..Len(kept) /\ Len(due) \in Nat
    BY <1>2, LenProperties
  <2>2. n \in 1..Len(due)
    BY <2>1, <1>3, <1>4
  <2> QED
    BY <2>1, <2>2, <1>2, ElementOfSeq
<1>6. Head(inbox) = MessageOf(r)
  BY <1>3, <1>4
<1>7. PICK fields \in FieldsOf(r) :
          IF ProcessThrows(fields)
          THEN ended' = ended \cup {Reader} /\ UNCHANGED kept
          ELSE /\ kept' = Append(kept, [fields EXCEPT !.dateTime = Stoi(@)])
               /\ UNCHANGED ended
  BY <1>6 DEF Process, FieldsOf
<1> HIDE DEF r, n
<1>8. ASSUME NEW u \in Users
      PROVE  Served(u)'
  BY <1>1 DEF ReportInv, Served
<1>9. CASE ProcessThrows(fields)
  <2>1. ended' = ended \cup {Reader} /\ kept' = kept
    BY <1>7, <1>9
  <2>2. ~Regular(r.event)
    BY <1>5, <1>9, RegularAccepted
  <2>3. Types'
    BY <1>1, <1>4, <2>1 DEF ReportInv, Types
  <2>4. Delivered'
    BY <1>1, <1>3, <1>4, <1>5, <2>1, <2>2 DEF Delivered, r, n
  <2> QED
    BY <1>8, <2>3, <2>4 DEF ReportInv
<1>10. CASE ~ProcessThrows(fields)
  <2> DEFINE k == [fields EXCEPT !.dateTime = Stoi(@)]
  <2>1. kept' = Append(kept, k) /\ ended' = ended
    BY <1>7, <1>10
  <2>2. k \in KeptOf(r) /\ k \in UNION {KeptOf(x) : x \in Reports}
    BY <1>5, <1>7 DEF KeptOf
  <2> HIDE DEF k
  <2>3. /\ kept' \in Seq(UNION {KeptOf(x) : x \in Reports})
        /\ Len(kept') = n /\ kept'[n] = k
        /\ \A i \in 1..Len(kept) : kept'[i] = kept[i]
    BY <1>2, <2>1, <2>2, AppendProperties DEF n
  <2>4. DOMAIN kept' = 1..n
    BY <2>3, LenProperties
  <2>5. Types'
    BY <1>1, <1>4, <2>3 DEF ReportInv, Types
  <2>6. ASSUME NEW i \in DOMAIN kept'
        PROVE  kept'[i] \in KeptOf(due[i])
    <3>1. CASE i \in DOMAIN kept
      BY <1>3, <1>5, <2>3, <3>1
    <3>2. CASE i = n
      BY <2>2, <2>3, <3>2 DEF r
    <3> QED
      BY <1>5, <2>4, <3>1, <3>2 DEF n
  <2>7. ASSUME NEW i \in DOMAIN inbox'
        PROVE  inbox'[i] = MessageOf(due[n + i])
    <3>1. i \in 1..(Len(inbox) - 1) /\ i + 1 \in DOMAIN inbox /\ inbox'[i] = inbox[i + 1]
      BY <1>1, <1>4
    <3>2. Len(kept) + (i + 1) = n + i
      BY <1>5, <3>1 DEF n
    <3> QED
      BY <1>3, <3>1, <3>2
  <2>8. n + Len(inbox') = Len(due)
    BY <1>1, <1>3, <1>4, <1>5 DEF n
  <2>9. Delivered'
    BY <1>1, <2>1, <2>3, <2>6, <2>7, <2>8 DEF Delivered
  <2> QED
    BY <1>8, <2>5, <2>9 DEF ReportInv
<1> QED
  BY <1>9, <1>10

\* Every step keeps the invariant.
LEMMA NextKeepsReports ==
    ASSUME ReportInv, [Next]_vars
    PROVE  ReportInv'
<1>1. CASE UNCHANGED vars
  <2>1. UNCHANGED <<outbox, decoder, sent, decoded, inbox, kept, ended, due>>
    BY <1>1 DEF vars, reporters
  <2> QED
    BY <2>1 DEF ReportInv, Types, Served, Delivered
<1>2. ASSUME NEW u \in Users, Report(u)
      PROVE  ReportInv'
  <2>1. PICK file \in Files : HandleReport(u, file) \/ HandleReportThrows(u, file)
    BY <1>2 DEF Report
  <2>2. CASE HandleReport(u, file)
    BY <2>2, HandleReportServes
  <2>3. CASE HandleReportThrows(u, file)
    <3>1. u # Reader
      BY UsersAssumption DEF UsersAssumption
    <3>2. /\ UNCHANGED <<outbox, decoder, sent, decoded, inbox, kept, due>>
          /\ Reader \in ended' <=> Reader \in ended
      BY <2>3, <3>1 DEF HandleReportThrows, reporters
    <3> QED
      BY <3>2 DEF ReportInv, Types, Served, Delivered
  <2> QED
    BY <2>1, <2>2, <2>3
<1>3. ASSUME NEW u \in Users, DecodeLine(u)
      PROVE  ReportInv'
  BY <1>3, DecodeLineServes
<1>4. ASSUME NEW u \in Users, DecodeEnd(u)
      PROVE  ReportInv'
  BY <1>4, DecodeEndServes
<1>5. CASE Process
  BY <1>5, ProcessDelivers
<1>6. CASE ResetProtocol
  <2>1. /\ UNCHANGED <<outbox, decoder, sent, decoded, ended>> /\ Reader \notin ended
        /\ kept' = <<>> /\ inbox' = <<>> /\ due' = <<>>
    BY <1>6 DEF ResetProtocol, reporters
  <2>2. Types'
    BY <2>1, EmptySeq DEF ReportInv, Types
  <2>3. \A u \in Users : Served(u)'
    BY <2>1 DEF ReportInv, Served
  <2>4. Delivered'
    BY <2>1, EmptySeq DEF Delivered
  <2> QED
    BY <2>2, <2>3, <2>4 DEF ReportInv
<1> QED
  BY <1>1, <1>2, <1>3, <1>4, <1>5, <1>6 DEF Next

-----------------------------------------------------------------------------
(* What is kept, and what the summary tells of it.                          *)

\* What is kept is of a report that was due.
LEMMA DueTyped ==
    ASSUME ReportInv, Reader \notin ended, NEW i \in DOMAIN kept
    PROVE  due[i] \in Reports
<1>1. Len(kept) + Len(inbox) = Len(due)
  BY DEF ReportInv, Delivered
<1>2. /\ DOMAIN kept = 1..Len(kept) /\ Len(kept) \in Nat /\ Len(inbox) \in Nat
      /\ due \in Seq(Reports)
  BY LenProperties DEF ReportInv, Types
<1>3. i \in 1..Len(due)
  BY <1>1, <1>2
<1> QED
  BY <1>2, <1>3, ElementOfSeq

\* What the invariant says of the reports that are kept.
LEMMA KeptFaithful == ReportInv => ReportsFaithful
<1> SUFFICES ASSUME ReportInv, Reader \notin ended
             PROVE  ReportsFaithful
  BY DEF ReportsFaithful
<1>1. /\ Len(kept) + Len(inbox) = Len(due)
      /\ \A i \in DOMAIN kept : kept[i] \in KeptOf(due[i])
  BY DEF ReportInv, Delivered
<1>2. /\ DOMAIN kept = 1..Len(kept) /\ Len(kept) \in Nat /\ Len(inbox) \in Nat
      /\ due \in Seq(Reports)
  BY LenProperties DEF ReportInv, Types
<1>3. ASSUME NEW i \in DOMAIN kept
      PROVE  /\ kept[i].channel = due[i].channel /\ kept[i].user = due[i].user
             /\ kept[i].city = due[i].event.city /\ kept[i].name = due[i].event.name
             /\ Fits(due[i].event.dateTime) =>
                  kept[i].dateTime = due[i].event.dateTime.whole
             /\ Regular(due[i].event) =>
                  /\ kept[i].active = due[i].event.info["active"].text
                  /\ kept[i].forces = due[i].event.info["forces_arrival_at_scene"].text
  <2>1. i \in 1..Len(due)
    BY <1>1, <1>2
  <2>2. due[i] \in Reports
    BY <1>2, <2>1, ElementOfSeq
  <2> QED
    BY <1>1, <2>2, KeptRead
<1> QED
  BY <1>1, <1>3 DEF ReportsFaithful

\* What is kept has its place in the order of the summary: a date of at least -Half, and
\* a name that has a rank.
LEMMA KeptOrdered ==
    ASSUME ReportInv, Reader \notin ended, NEW i \in DOMAIN kept
    PROVE  /\ kept[i].dateTime \in Int /\ kept[i].dateTime + Half \in Nat
           /\ Rank(kept[i].name) \in Nat
<1>1. due[i] \in Reports /\ kept[i] \in KeptOf(due[i])
  BY DueTyped DEF ReportInv, Delivered
<1>2. kept[i].name = due[i].event.name /\ kept[i].dateTime \in Ints
  BY <1>1, KeptRead
<1>3. \E n \in DOMAIN EventNames : EventNames[n] = kept[i].name
  BY <1>1, <1>2, ReportTyped
<1>4. DOMAIN EventNames \subseteq Nat
  BY NamesAssumption DEF NamesAssumption
<1>5. Rank(kept[i].name) \in DOMAIN EventNames
  BY <1>3 DEF Rank
<1> QED
  BY <1>2, <1>4, <1>5, IntsAssumption DEF IntsAssumption, Ints

\* What is listed of some of the reports is each of them once, in order.
LEMMA SortedLists ==
    ASSUME ReportInv, Reader \notin ended, NEW places \in SUBSET DOMAIN kept
    PROVE  /\ IsFiniteSet(places) /\ Cardinality(places) \in Nat
           /\ \E s \in Bijection(1..Cardinality(places), places) :
                /\ Sorted(places) = [i \in 1..Cardinality(places) |-> kept[s[i]]]
                /\ \A i, j \in 1..Cardinality(places) :
                      i < j => ~Before(kept[s[j]], kept[s[i]])
<1> DEFINE n == Cardinality(places)
           Good(s) == \A i, j \in DOMAIN s : i < j => ~Before(kept[s[j]], kept[s[i]])
           order == CHOOSE s \in Bijection(1..n, places) : Good(s)
<1>1. IsFiniteSet(places) /\ n \in Nat
  <2>1. DOMAIN kept = 1..Len(kept) /\ Len(kept) \in Nat
    BY LenProperties DEF ReportInv, Types
  <2>2. IsFiniteSet(DOMAIN kept)
    BY <2>1, FS_Interval
  <2> QED
    BY <2>2, FS_Subset, FS_CardinalityType
<1>2. \E s \in Bijection(1..n, places) : Good(s)
  <2> DEFINE first == [i \in DOMAIN kept |-> kept[i].dateTime + Half]
             second == [i \in DOMAIN kept |-> Rank(kept[i].name)]
  <2>1. first \in [DOMAIN kept -> Nat] /\ second \in [DOMAIN kept -> Nat]
    BY KeptOrdered
  <2>2. \A i \in places : /\ first[i] = kept[i].dateTime + Half /\ kept[i].dateTime \in Int
                          /\ second[i] = Rank(kept[i].name)
    BY KeptOrdered
  <2> HIDE DEF first, second
  <2>3. PICK s \in Bijection(1..n, places) : Rises(s, first, second)
    BY <1>1, <2>1, SortExists
  <2>4. DOMAIN s = 1..n /\ \A i \in 1..n : s[i] \in places
    BY DEF Bijection, Injection
  <2>5. ASSUME NEW i \in places, NEW j \in places
        PROVE  /\ kept[j].dateTime < kept[i].dateTime => first[j] < first[i]
               /\ kept[j].dateTime = kept[i].dateTime => first[j] = first[i]
    BY <2>2, IntsAssumption DEF IntsAssumption
  <2>6. Good(s)
    BY <2>2, <2>3, <2>4, <2>5 DEF Rises, Before
  <2> QED
    BY <2>6
<1>3. order \in Bijection(1..n, places) /\ Good(order)
  BY <1>2
<1>4. Sorted(places) = [i \in DOMAIN order |-> kept[order[i]]]
  BY DEF Sorted
<1> HIDE DEF order
<1>5. DOMAIN order = 1..n
  BY <1>3 DEF Bijection, Injection
<1> QED
  BY <1>1, <1>3, <1>4, <1>5

\* What the invariant says of a summary.
LEMMA SummaryTold == ReportInv => SummaryTells
<1> SUFFICES ASSUME ReportInv, Reader \notin ended, NEW user \in Users, NEW channel \in Channels
             PROVE  LET summary == Summary(user, channel)
                        listed == summary.listed
                        arrived == {i \in DOMAIN kept :
                                      due[i].user = user /\ due[i].channel = channel}
                        Saying(key) == {i \in arrived : due[i].event.info[key].text = "true"}
                    IN  /\ summary.total = Cardinality(arrived)
                        /\ (\A i \in arrived : Regular(due[i].event)) =>
                            /\ summary.active = Cardinality(Saying("active"))
                            /\ summary.forces = Cardinality(Saying("forces_arrival_at_scene"))
                        /\ \E place \in Bijection(DOMAIN listed, arrived) :
                              \A k \in DOMAIN listed :
                                  LET e == due[place[k]].event
                                  IN  /\ listed[k].city = e.city /\ listed[k].name = e.name
                                      /\ Fits(e.dateTime) =>
                                            listed[k].dateTime = e.dateTime.whole
                        /\ \A k, l \in DOMAIN listed : k < l =>
                              \/ listed[k].dateTime < listed[l].dateTime
                              \/ /\ listed[k].dateTime = listed[l].dateTime
                                 /\ Rank(listed[k].name) <= Rank(listed[l].name)
  BY Zenon DEF SummaryTells
<1> DEFINE arrived == {i \in DOMAIN kept : due[i].user = user /\ due[i].channel = channel}
           Saying(key) == {i \in arrived : due[i].event.info[key].text = "true"}
           reports == UserChannelReports(user, channel)
           listed == Sorted(reports)
           n == Cardinality(reports)
<1>1. \A i \in DOMAIN kept :
        LET e == due[i].event
        IN  /\ kept[i].channel = due[i].channel /\ kept[i].user = due[i].user
            /\ kept[i].city = e.city /\ kept[i].name = e.name
            /\ Fits(e.dateTime) => kept[i].dateTime = e.dateTime.whole
            /\ Regular(e) => /\ kept[i].active = e.info["active"].text
                             /\ kept[i].forces = e.info["forces_arrival_at_scene"].text
  BY KeptFaithful DEF ReportsFaithful
<1>2. reports = arrived
  BY <1>1 DEF UserChannelReports
<1>3. /\ Summary(user, channel).total = n
      /\ Summary(user, channel).active = Cardinality({i \in reports : kept[i].active = "true"})
      /\ Summary(user, channel).forces = Cardinality({i \in reports : kept[i].forces = "true"})
      /\ Summary(user, channel).listed = listed
  BY DEF Summary
<1>4. ASSUME \A i \in arrived : Regular(due[i].event)
      PROVE  /\ {i \in reports : kept[i].active = "true"} = Saying("active")
             /\ {i \in reports : kept[i].forces = "true"} = Saying("forces_arrival_at_scene")
  BY <1>1, <1>2, <1>4
<1>5. PICK s \in Bijection(1..n, reports) :
        /\ listed = [i \in 1..n |-> kept[s[i]]]
        /\ \A i, j \in 1..n : i < j => ~Before(kept[s[j]], kept[s[i]])
  <2>1. reports \in SUBSET DOMAIN kept
    BY <1>2
  <2> HIDE DEF reports
  <2> QED
    BY <2>1, SortedLists
<1>6. s \in [1..n -> reports]
  BY DEF Bijection, Injection
<1> HIDE DEF listed, reports
<1>7. DOMAIN listed = 1..n /\ \A k \in 1..n : listed[k] = kept[s[k]] /\ s[k] \in DOMAIN kept
  BY <1>2, <1>5, <1>6
<1>8. \A k \in 1..n : LET e == due[s[k]].event
                      IN  /\ listed[k].city = e.city /\ listed[k].name = e.name
                          /\ Fits(e.dateTime) => listed[k].dateTime = e.dateTime.whole
  BY <1>1, <1>7
<1>9. ASSUME NEW k \in 1..n, NEW l \in 1..n, k < l
      PROVE  \/ listed[k].dateTime < listed[l].dateTime
             \/ /\ listed[k].dateTime = listed[l].dateTime
                /\ Rank(listed[k].name) <= Rank(listed[l].name)
  <2>1. /\ listed[k].dateTime \in Int /\ Rank(listed[k].name) \in Nat
        /\ listed[l].dateTime \in Int /\ Rank(listed[l].name) \in Nat
    BY <1>7, KeptOrdered
  <2>2. ~Before(listed[l], listed[k])
    BY <1>5, <1>7, <1>9
  <2> QED
    BY <2>1, <2>2 DEF Before
<1>10. \E place \in Bijection(DOMAIN listed, arrived) : \A k \in DOMAIN listed :
          LET e == due[place[k]].event
          IN  /\ listed[k].city = e.city /\ listed[k].name = e.name
              /\ Fits(e.dateTime) => listed[k].dateTime = e.dateTime.whole
  BY <1>2, <1>5, <1>7, <1>8
<1> DEFINE summary == Summary(user, channel)
<1>11. summary.total = Cardinality(arrived)
  BY <1>2, <1>3
<1>12. ASSUME \A i \in arrived : Regular(due[i].event)
       PROVE  /\ summary.active = Cardinality(Saying("active"))
              /\ summary.forces = Cardinality(Saying("forces_arrival_at_scene"))
  BY <1>3, <1>4, <1>12
<1>13. summary.listed = listed
  BY <1>3
<1>14. \A k, l \in DOMAIN listed : k < l =>
          \/ listed[k].dateTime < listed[l].dateTime
          \/ /\ listed[k].dateTime = listed[l].dateTime
             /\ Rank(listed[k].name) <= Rank(listed[l].name)
  BY <1>7, <1>9
<1> HIDE DEF summary
<1> QED
  BY <1>10, <1>11, <1>12, <1>13, <1>14, Zenon DEF summary

-----------------------------------------------------------------------------
(* The theorems.                                                            *)

\* A report arrives as it was sent, in its order, whatever the files and their texts, however
\* users, server and reader take turns (handleReport, StompMessageEncoderDecoder, process).
THEOREM ReportsAlwaysFaithful == Spec => []ReportsFaithful
<1>1. Init => ReportInv
  BY InitReports
<1>2. ReportInv /\ [Next]_vars => ReportInv'
  BY NextKeepsReports
<1> QED
  BY <1>1, <1>2, KeptFaithful, PTL DEF Spec

\* Only the report of an event without exactly the two keys can end a reader (process).
THEOREM OnlyIrregularEnds == Spec => []EndedByIrregularOnly
<1>1. Init => ReportInv
  BY InitReports
<1>2. ReportInv /\ [Next]_vars => ReportInv'
  BY NextKeepsReports
<1>3. ReportInv => EndedByIrregularOnly
  BY DEF ReportInv, Delivered, EndedByIrregularOnly
<1> QED
  BY <1>1, <1>2, <1>3, PTL DEF Spec

\* A summary counts and lists what has arrived, each report once and in order, whatever
\* the files, and however reports of several users have come (summary, std::sort).
THEOREM SummaryAlwaysTells == Spec => []SummaryTells
<1>1. Init => ReportInv
  BY InitReports
<1>2. ReportInv /\ [Next]_vars => ReportInv'
  BY NextKeepsReports
<1> QED
  BY <1>1, <1>2, SummaryTold, PTL DEF Spec
=============================================================================
