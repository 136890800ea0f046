---------------------------- MODULE MCReactorLoop ----------------------------
(* Small instances of ReactorLoop for TLC.                                  *)
EXTENDS ReactorLoop, TLC

CONSTANTS c1, c2

\* One client sends, the other is only sent to; either may hang up.
MCOneSends == c1 :> 1 @@ c2 :> 0

MCBothSend == c1 :> 1 @@ c2 :> 1
=============================================================================
