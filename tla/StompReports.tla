----------------------------- MODULE StompReports -----------------------------
(***************************************************************************)
(* The way of a report: a client reads events from a file and makes a SEND *)
(* frame of each (parseEventsFile, handleReport), the server decodes it    *)
(* and makes a MESSAGE of its body (StompMessageEncoderDecoder,            *)
(* StompFrame, handleSend), another client takes the MESSAGE apart by line *)
(* numbers and columns (process), and keeps what "summary" counts, sorts   *)
(* and lists.                                                              *)
(*                                                                         *)
(* A frame is the sequence of its lines, a line a fixed label and a text.  *)
(* One client, the reader, is subscribed to every channel; who is          *)
(* subscribed and how frames are queued is in StompBroker and StompClient. *)
(***************************************************************************)
EXTENDS Integers, Sequences, FiniteSets, Functions

CONSTANTS
    Users,         \* the users who report
    Files,         \* the files they report from: [channel, events]
    InfoKeys,      \* keys of general_information, in the order of std::map
    EventNames,    \* event names, in the order of std::string
    Half,          \* an int is a number from -Half to Half - 1
    Decimal,       \* std::to_string of an int
    MaxEvents      \* bound: a user reports no further file after so many events

VARIABLES
    outbox,    \* per user, the frames that are still to be sent
    decoder,   \* per user, the lines the server has of the frame it is being sent
    inbox,     \* the MESSAGE frames on their way to the reader
    kept,      \* StompProtocol.userChannelReports of the reader, in order of arrival
    ended,     \* the clients that an uncaught exception has ended
    sent,      \* history: per user, the events reported so far, and the dates they got
    decoded,   \* history: per user, how many frames the server has taken
    due        \* history: what was on its way to the reader since its last login

reporters == <<outbox, decoder, sent, decoded>>
vars == <<reporters, inbox, kept, ended, due>>

Reader == "reader"
Channels == {f.channel : f \in Files}

-----------------------------------------------------------------------------
(* Lines and strings                                                        *)

Line(label, text) == [label |-> label, text |-> text]
Empty == Line("", "")

\* line.substr(n): what is behind the label when the label has n characters, some piece
\* of the line when it has not, and out_of_range when the line is shorter.
Garbled == "?"
Throws == "out_of_range"
Substr(line, n) ==
    IF n = 0 THEN line.label \o line.text
    ELSE IF n = Len(line.label) THEN line.text
    ELSE IF n > Len(line.label) + Len(line.text) THEN Throws
    ELSE Garbled

\* The columns at which process cuts are the lengths of the labels before them.
ASSUME LabelLengths ==
    /\ Len("destination:/") = 13 /\ Len("user: ") = 6 /\ Len("city: ") = 6
    /\ Len("event name: ") = 12 /\ Len("date time: ") = 11
    /\ Len("active" \o ": ") = 8 /\ Len("forces_arrival_at_scene" \o ": ") = 25
    /\ Len("") = 0 /\ "description: " \o "" = "description: "

\* No text is one of the two marks.
Text == STRING \ {Garbled, Throws}
Value == [isString : BOOLEAN, text : Text]

\* A JSON value where a number is asked for: its type, its value without a fraction
\* (1 for true), and whether there is a fraction.
Number == [type : {"integer", "float", "boolean", "other"}, whole : Int, fraction : BOOLEAN]

Ints == -Half .. (Half - 1)

\* What a file may hold: any texts, and any of the keys.
ASSUME FilesAssumption ==
    \A file \in Files :
        /\ file.channel \in Text
        /\ DOMAIN file.events = 1..Len(file.events) /\ Len(file.events) \in Nat
        /\ \A i \in DOMAIN file.events :
            LET e == file.events[i]
            IN  /\ {e.city, e.name, e.description} \subseteq Text
                /\ e.dateTime \in Number
                /\ e.info \in [DOMAIN e.info -> Value]
                /\ IsFiniteSet(DOMAIN e.info)

\* InfoKeys lists keys in the order of std::map, these two among them.
ASSUME KeysAssumption ==
    /\ InfoKeys \in Seq(Text)
    /\ \A i, j \in DOMAIN InfoKeys : InfoKeys[i] = InfoKeys[j] => i = j
    /\ \E i, j \in DOMAIN InfoKeys :
        i < j /\ InfoKeys[i] = "active" /\ InfoKeys[j] = "forces_arrival_at_scene"

\* Every event of a file is in the order of names that the summary sorts by.
ASSUME NamesAssumption ==
    /\ EventNames \in Seq(Text)
    /\ \A file \in Files : \A i \in DOMAIN file.events :
        \E n \in DOMAIN EventNames : EventNames[n] = file.events[i].name

\* Every int has a text of its own.
ASSUME IntsAssumption ==
    /\ Half \in Nat /\ Half > 1
    /\ Decimal \in [Ints -> Text]
    /\ \A m, n \in Ints : Decimal[m] = Decimal[n] => m = n

ASSUME UsersAssumption == Users \subseteq Text \ {Reader}

-----------------------------------------------------------------------------
(* The reporting client                                                     *)

\* A value of general_information: a string is taken as it is, of any other value the
\* text that dump prints, so that true and "true" are the same from here on.
JsonText(value) == value.text

Place(key) == CHOOSE i \in DOMAIN InfoKeys : InfoKeys[i] = key

\* Every event of the file needs a number as its date_time, or a truth value, of which
\* get<int> makes one.
Parses(file) == \A i \in DOMAIN file.events : file.events[i].dateTime.type # "other"

\* static_cast<int>: an integer loses what is above its lowest bits, a number with a
\* fraction loses that; of such a number that is no int the outcome is undefined.
Narrow(n) == ((n + Half) % (2 * Half)) - Half
ToInt(dateTime, undefined) ==
    IF dateTime.type = "float" /\ dateTime.whole \notin Ints
    THEN undefined
    ELSE Narrow(dateTime.whole)

\* The conversion of an out of range double: the least int on x86, the nearest on others.
Undefined == {-Half, Half - 1}

\* The keys of a std::map come in their order, whatever that of the file.
Ascending(keys) ==
    CHOOSE s \in [1..Cardinality(keys) -> keys] :
        \A i, j \in DOMAIN s : i < j => Place(s[i]) < Place(s[j])

InfoLines(info) ==
    [i \in 1..Cardinality(DOMAIN info) |->
        LET key == Ascending(DOMAIN info)[i]
        IN  Line(key \o ": ", JsonText(info[key]))]

\* Fault: the channel is put into the body as well.
BodyStartWithChannel(user, event, date) ==
    <<Line("user: ", user), Line("channel name: ", "x"), Line("city: ", event.city),
      Line("event name: ", event.name), Line("date time: ", Decimal[date]),
      Line("general information:", "")>>

BodyStart(user, event, date) ==
    <<Line("user: ", user), Line("city: ", event.city), Line("event name: ", event.name),
      Line("date time: ", Decimal[date]), Line("general information:", "")>>

SendBody(user, event, date) ==
    BodyStart(user, event, date) \o InfoLines(event.info)
    \o <<Line("description: ", ""), Line("", event.description), Line("receipt: ", "n")>>

SendFrame(report) ==
    <<Line("SEND", ""), Line("destination:/", report.channel), Empty>>
    \o SendBody(report.user, report.event, report.date)

\* The events of a file, with the dates they get.
Reported(u, file, undefined) ==
    [i \in DOMAIN file.events |->
        [user |-> u, channel |-> file.channel, event |-> file.events[i],
         date |-> ToInt(file.events[i].dateTime, undefined)]]

\* handleReport makes the frames of all events before the first of them is sent.
HandleReport(u, file) ==
    /\ u \notin ended
    /\ Parses(file)
    /\ \E undefined \in Undefined :
        LET reports == Reported(u, file, undefined)
        IN  /\ outbox' = [outbox EXCEPT ![u] = @ \o
                               [i \in DOMAIN reports |-> SendFrame(reports[i])]]
            /\ sent' = [sent EXCEPT ![u] = @ \o reports]
    /\ UNCHANGED <<decoder, decoded, inbox, kept, ended, due>>

\* json::type_error: nobody catches it, the program ends.  What it has queued may still
\* arrive or not.
HandleReportThrows(u, file) ==
    /\ u \notin ended
    /\ ~Parses(file)
    /\ ended' = ended \cup {u}
    /\ UNCHANGED <<reporters, inbox, kept, due>>

-----------------------------------------------------------------------------
(* The server                                                               *)

\* Fault: the bytes of all connections go through one decoder.
DecoderShared(u) == CHOOSE v \in Users : TRUE

DecoderOf(u) == u

\* decodeNextByte, for the bytes of one line.
DecodeLine(u) ==
    /\ outbox[u] # <<>>
    /\ Head(outbox[u]) # <<>>
    /\ decoder' = [decoder EXCEPT ![DecoderOf(u)] = Append(@, Head(Head(outbox[u])))]
    /\ outbox' = [outbox EXCEPT ![u] = <<Tail(Head(@))>> \o Tail(@)]
    /\ UNCHANGED <<inbox, kept, ended, sent, decoded, due>>

FirstEmpty(lines, from) ==
    LET empties == {i \in from..Len(lines) : lines[i] = Empty}
    IN  IF empties = {} THEN Len(lines) + 1
        ELSE CHOOSE i \in empties : \A j \in empties : i <= j

\* createStompFrame: the body goes from the first empty line to the next one.
Body(lines) ==
    LET first == FirstEmpty(lines, 2) + 1
    IN  SubSeq(lines, first, FirstEmpty(lines, first) - 1)

\* handleSend
Message(lines) ==
    <<Line("MESSAGE", ""), Line("subscription:", "s"), Line("message-id:", "m"),
      lines[2], Empty>> \o Body(lines)

\* decodeNextByte of the NUL that ends a frame, popString, and the MESSAGE.
DecodeEnd(u) ==
    /\ outbox[u] # <<>>
    /\ Head(outbox[u]) = <<>>
    /\ inbox' = Append(inbox, Message(decoder[DecoderOf(u)]))
    /\ decoder' = [decoder EXCEPT ![DecoderOf(u)] = <<>>]
    /\ outbox' = [outbox EXCEPT ![u] = Tail(@)]
    /\ decoded' = [decoded EXCEPT ![u] = @ + 1]
    /\ due' = Append(due, sent[u][decoded'[u]])
    /\ UNCHANGED <<kept, ended, sent>>

-----------------------------------------------------------------------------
(* The reading client                                                       *)

\* linesMsg[n].substr(k); a line behind the last one is undefined behaviour, which gives
\* some text or ends the program.
Cut(message, n, k, undefined) ==
    IF n + 1 \in DOMAIN message THEN Substr(message[n + 1], k) ELSE undefined

\* process of a MESSAGE, by line number and column.  The description is taken from the
\* line that says "description: ", not from the one behind it.
Fields(message, undefined) ==
    [channel |-> Cut(message, 3, 13, undefined), user |-> Cut(message, 5, 6, undefined),
     city |-> Cut(message, 6, 6, undefined), name |-> Cut(message, 7, 12, undefined),
     dateTime |-> Cut(message, 8, 11, undefined), active |-> Cut(message, 10, 8, undefined),
     forces |-> Cut(message, 11, 25, undefined), description |-> Cut(message, 12, 0, undefined)]

\* substr and stoi throw; nobody catches it, the program ends.
ProcessThrows(fields) ==
    \/ \E field \in DOMAIN fields : fields[field] = Throws
    \/ \A n \in Ints : Decimal[n] # fields.dateTime

Stoi(text) == CHOOSE n \in Ints : Decimal[n] = text

Process ==
    /\ Reader \notin ended
    /\ inbox # <<>>
    /\ inbox' = Tail(inbox)
    /\ \E undefined \in {Garbled, Throws} :
        LET fields == Fields(Head(inbox), undefined)
        IN  IF ProcessThrows(fields)
            THEN ended' = ended \cup {Reader} /\ UNCHANGED kept
            ELSE /\ kept' = Append(kept, [fields EXCEPT !.dateTime = Stoi(@)])
                 /\ UNCHANGED ended
    /\ UNCHANGED <<reporters, due>>

\* resetProtocol, and a new connection.
ResetProtocol ==
    /\ Reader \notin ended
    /\ due # <<>>
    /\ kept' = <<>>
    /\ inbox' = <<>>
    /\ due' = <<>>
    /\ UNCHANGED <<reporters, ended>>

-----------------------------------------------------------------------------
(* summary                                                                  *)

Rank(name) == CHOOSE i \in DOMAIN EventNames : EventNames[i] = name

\* Fault: only the dates are looked at.
BeforeByDate(a, b) == a.dateTime < b.dateTime

Before(a, b) ==
    \/ a.dateTime < b.dateTime
    \/ a.dateTime = b.dateTime /\ Rank(a.name) < Rank(b.name)

\* userChannelReports[user][channel], as places in kept.
UserChannelReports(user, channel) ==
    {i \in DOMAIN kept : kept[i].user = user /\ kept[i].channel = channel}

\* std::sort, which may leave reports of one date and name in any order.
Sorted(places) ==
    LET order == CHOOSE s \in Bijection(1..Cardinality(places), places) :
            \A i, j \in DOMAIN s : i < j => ~Before(kept[s[j]], kept[s[i]])
    IN  [i \in DOMAIN order |-> kept[order[i]]]

Summary(user, channel) ==
    LET reports == UserChannelReports(user, channel)
    IN  [total |-> Cardinality(reports),
         active |-> Cardinality({i \in reports : kept[i].active = "true"}),
         forces |-> Cardinality({i \in reports : kept[i].forces = "true"}),
         listed |-> Sorted(reports)]

-----------------------------------------------------------------------------
Init ==
    /\ outbox = [u \in Users |-> <<>>]
    /\ decoder = [u \in Users |-> <<>>]
    /\ inbox = <<>>
    /\ kept = <<>>
    /\ ended = {}
    /\ sent = [u \in Users |-> <<>>]
    /\ decoded = [u \in Users |-> 0]
    /\ due = <<>>

Report(u) ==
    \E file \in Files :
        /\ Len(sent[u]) < MaxEvents
        /\ HandleReport(u, file) \/ HandleReportThrows(u, file)

Next ==
    \/ \E u \in Users : Report(u) \/ DecodeLine(u) \/ DecodeEnd(u)
    \/ Process \/ ResetProtocol

Spec == Init /\ [][Next]_vars

-----------------------------------------------------------------------------
(* Properties                                                               *)

\* An event whose general information is laid out as process expects it.
Regular(event) == DOMAIN event.info = {"active", "forces_arrival_at_scene"}

\* A date that an int can hold: date_time is to be "seconds since epoch".
Fits(dateTime) == dateTime.type # "boolean" /\ ~dateTime.fraction /\ dateTime.whole \in Ints

\* The reader's reports are those on their way to it that have arrived, in their order;
\* a report of a regular event says of it what its file said: the channel, who reported
\* it, and every field but the description, the date if an int can hold it.  (Of an
\* irregular one the general information is read from the wrong lines.)
ReportsFaithful ==
    Reader \notin ended =>
        /\ Len(kept) + Len(inbox) = Len(due)
        /\ \A i \in DOMAIN kept :
            LET r == kept[i]
                e == due[i].event
            IN  /\ r.channel = due[i].channel /\ r.user = due[i].user
                /\ r.city = e.city /\ r.name = e.name
                /\ Fits(e.dateTime) => r.dateTime = e.dateTime.whole
                /\ Regular(e) => /\ r.active = e.info["active"].text
                                 /\ r.forces = e.info["forces_arrival_at_scene"].text

\* A reader is ended by an exception only by the report of an irregular event: the two
\* ends of the way agree on the layout of all others, whatever their texts and numbers.
EndedByIrregularOnly ==
    Reader \in ended => ~Regular(due[Len(kept) + 1].event)

\* The summary of a user and a channel counts and lists the events of that user and
\* channel that have arrived since the login, each once and no others, by the dates it
\* gives them and then by name; dates that an int can hold are those of the file.  Who is
\* active and where forces arrived it counts right if all are regular.
SummaryTells ==
    Reader \notin ended => \A user \in Users, channel \in Channels :
        LET summary == Summary(user, channel)
            listed == summary.listed
            arrived == {i \in DOMAIN kept : due[i].user = user /\ due[i].channel = channel}
            Saying(key) == {i \in arrived : due[i].event.info[key].text = "true"}
        IN  /\ summary.total = Cardinality(arrived)
            /\ (\A i \in arrived : Regular(due[i].event)) =>
                /\ summary.active = Cardinality(Saying("active"))
                /\ summary.forces = Cardinality(Saying("forces_arrival_at_scene"))
            /\ \E place \in Bijection(DOMAIN listed, arrived) : \A k \in DOMAIN listed :
                LET e == due[place[k]].event
                IN  /\ listed[k].city = e.city /\ listed[k].name = e.name
                    /\ Fits(e.dateTime) => listed[k].dateTime = e.dateTime.whole
            /\ \A k, l \in DOMAIN listed : k < l =>
                \/ listed[k].dateTime < listed[l].dateTime
                \/ /\ listed[k].dateTime = listed[l].dateTime
                   /\ Rank(listed[k].name) <= Rank(listed[l].name)

-----------------------------------------------------------------------------
(* What the texts of the repository say and the code does not keep.         *)

\* events1_out.txt is a summary of the seven reports of events1.json: it lists them in
\* the order of the file, in which the dates go up and down, and shows of each how its
\* description begins.  So should a summary of all reports that a user made.
SummaryAsSample ==
    Reader \notin ended => \A user \in Users, channel \in Channels :
        LET listed == Summary(user, channel).listed
            reported == SelectSeq(sent[user], LAMBDA r : r.channel = channel)
        IN  Len(listed) = Len(reported) => \A k \in DOMAIN listed :
                /\ listed[k].name = reported[k].event.name
                /\ listed[k].description = reported[k].event.description
=============================================================================
