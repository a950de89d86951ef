---------------------------- MODULE MCSignaling ----------------------------
(* The connections of a side are interchangeable. *)
EXTENDS Signaling, TLC

ConnNames == Permutations(PresenterConns) \cup Permutations(ViewerConns)
=============================================================================
