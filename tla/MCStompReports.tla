---------------------------- MODULE MCStompReports ----------------------------
(* Small instances of StompReports for TLC.                                 *)
EXTENDS StompReports, TLC

MCInfoKeys == <<"active", "casualties", "forces_arrival_at_scene">>
MCDecimal == [n \in Ints |-> ToString(n)]
MCEventNames == <<"Arson", "Burglary", "Vandalism">>

String(text) == [isString |-> TRUE, text |-> text]
Literal(text) == [isString |-> FALSE, text |-> text]
Date(type, whole, fraction) == [type |-> type, whole |-> whole, fraction |-> fraction]
Seconds(n) == Date("integer", n, FALSE)

Event(city, name, dateTime, description, info) ==
    [city |-> city, name |-> name, dateTime |-> dateTime, description |-> description,
     info |-> info]

TwoKeys(active, forces) == "active" :> active @@ "forces_arrival_at_scene" :> forces

\* Two events of one date in the wrong order of names, one with an empty description.
MCLate == Event("Gotham", "Vandalism", Seconds(2), "paint", TwoKeys(Literal("true"), String("true")))
MCSameDate == Event("Gotham", "Arson", Seconds(2), "", TwoKeys(Literal("false"), String("true")))
MCEarly == Event("", "Burglary", Seconds(1), "window", TwoKeys(String("true"), Literal("false")))

\* A third key; only one, with an empty description; none at all.
MCThreeKeys == Event("Gotham", "Arson", Seconds(1), "smoke",
    TwoKeys(Literal("true"), Literal("true")) @@ "casualties" :> Literal("3"))
MCOneKey == Event("Gotham", "Arson", Seconds(1), "", "forces_arrival_at_scene" :> Literal("true"))
MCNoKey == Event("Gotham", "Arson", Seconds(1), "a text of thirty characters...", <<>>)

\* events1_partial.json has its dates as strings.
MCNoNumber == Event("Gotham", "Arson", Date("other", 0, FALSE), "smoke",
    TwoKeys(Literal("true"), Literal("true")))

\* Dates that are no int: an integer that wraps, a fraction, one that is far too large,
\* and a truth value.
MCWraps == Event("Gotham", "Vandalism", Seconds(5), "paint",
    TwoKeys(Literal("true"), Literal("true")))
MCFraction == Event("Gotham", "Arson", Date("float", 1, TRUE), "smoke",
    TwoKeys(Literal("true"), Literal("true")))
MCHuge == Event("Gotham", "Burglary", Date("float", 9, FALSE), "window",
    TwoKeys(Literal("true"), Literal("true")))
MCTrue == Event("Gotham", "Burglary", Date("boolean", 1, FALSE), "window",
    TwoKeys(Literal("true"), Literal("true")))

MCFiles == {[channel |-> "police", events |-> <<MCLate, MCSameDate, MCEarly>>],
            [channel |-> "fire", events |-> <<MCEarly>>],
            [channel |-> "police", events |-> <<MCEarly>>],
            [channel |-> "police", events |-> <<MCThreeKeys>>],
            [channel |-> "police", events |-> <<MCOneKey>>],
            [channel |-> "police", events |-> <<MCNoKey>>],
            [channel |-> "fire", events |-> <<MCNoNumber>>],
            [channel |-> "fire", events |-> <<MCWraps, MCFraction, MCEarly>>],
            [channel |-> "police", events |-> <<MCHuge, MCTrue>>]}

\* The first three events of events1.json, by the order of their dates.
MCSampleFile == {[channel |-> "police", events |-> <<
    Event("Liberty City", "Grand Theft Auto", Seconds(2), "Pink Lampadati Felon",
          TwoKeys(Literal("true"), Literal("false"))),
    Event("Los Alamos", "Vandalism", Seconds(3), "Multiple cars",
          TwoKeys(Literal("false"), Literal("false"))),
    Event("Raccoon City", "Burglary", Seconds(1), "Suspect broke into",
          TwoKeys(Literal("true"), Literal("true")))>>]}
MCSampleNames == <<"Burglary", "Grand Theft Auto", "Vandalism">>
=============================================================================
