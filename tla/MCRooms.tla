------------------------------ MODULE MCRooms ------------------------------
(* Two tabs of one user and one of another. *)
EXTENDS Rooms, TLC

CONSTANTS t1, t2, t3, ada, bob

TwoTabsAndOne == (t1 :> ada) @@ (t2 :> ada) @@ (t3 :> bob)

Names == Permutations({t1, t2}) \cup Permutations(Codes)
=============================================================================
