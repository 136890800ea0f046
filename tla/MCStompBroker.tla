--------------------------- MODULE MCStompBroker ---------------------------
(* Small instances of StompBroker for TLC.                                  *)
EXTENDS StompBroker, TLC

MCDestinations == {"police", "/police"}

\* handleSend drops one leading slash.
MCStripSlash == [d \in MCDestinations |-> "police"]

\* No action reads out, so states that differ in it alone need not be told apart;
\* the action properties look at out' on every step that TLC generates.
MCView == <<countUniqeID, openChans, registry, counterMessageId, shouldTerminate,
            subscriptions>>

MCSymmetry == Permutations(Names) \cup Permutations(Passcodes) \cup Permutations(SubIds)
=============================================================================
