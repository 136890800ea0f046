--------------------------- MODULE MCBrokerThreads ---------------------------
(* Small instances of BrokerThreads for TLC.                                *)
EXTENDS BrokerThreads, TLC

MCSymmetry == Permutations(Conns) \cup Permutations(Destinations) \cup Permutations(Names)
=============================================================================
