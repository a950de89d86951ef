---------------------------- MODULE MCBookFiles ----------------------------
(* Two requests of one user and one of another. *)
EXTENDS BookFiles, TLC

CONSTANTS r1, r2, r3, ada, bob

TwoRequestsAndOne == r1 :> ada @@ r2 :> ada @@ r3 :> bob
=============================================================================
