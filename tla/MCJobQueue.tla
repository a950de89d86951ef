----------------------------- MODULE MCJobQueue -----------------------------
(* A daily and a twice-daily job, and one more closure than there are jobs *)
(* so that a second closure of a job could exist.                          *)
EXTENDS JobQueue, TLC

CONSTANTS a, b

TwoPeriods == a :> 2 @@ b :> 1
=============================================================================
