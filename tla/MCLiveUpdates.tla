--------------------------- MODULE MCLiveUpdates ---------------------------
(* Two transformers, one with a pole and one whose pole states stay as     *)
(* they are.                                                               *)
EXTENDS LiveUpdates, TLC

CONSTANTS p1, d1, d2

OfTheFirst == p1 :> d1
=============================================================================
