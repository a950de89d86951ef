---------------------------- MODULE WorkDispatch ----------------------------
(***************************************************************************)
(* What a worker pool (api/internal/threading) promises its callers,       *)
(* without its channel, flags or wait group: an item of work that is       *)
(* offered is admitted to a bounded backlog, run once by one of a bounded  *)
(* number of workers, and finished; a caller that waits for the pool is    *)
(* released only when everything offered before its call has finished.     *)
(*                                                                         *)
(* WorkerPool implements this module; JobQueue and Topic are built on it.  *)
(***************************************************************************)
EXTENDS Naturals, FiniteSets

CONSTANTS Items,        \* what can be enqueued; one outstanding run of each
          Waiters,      \* callers of WaitUntilDone
          Capacity,     \* items admitted and not yet taken by a worker
          Parallelism   \* items being run at the same time

VARIABLES status,   \* where each item is
          waiting,  \* the callers inside WaitUntilDone
          owed      \* per caller, the items its call still waits for

dispatchVars == <<status, waiting, owed>>

InStatus(s) == {i \in Items : status[i] = s}

Outstanding == {i \in Items : status[i] # "idle"}

DispatchTypeOK ==
  /\ status \in [Items -> {"idle", "offered", "queued", "running"}]
  /\ waiting \subseteq Waiters
  /\ owed \in [Waiters -> SUBSET Items]

DispatchInit ==
  /\ status = [i \in Items |-> "idle"]
  /\ waiting = {}
  /\ owed = [c \in Waiters |-> {}]

-----------------------------------------------------------------------------
Move(i, from, to) ==
  /\ status[i] = from
  /\ status' = [status EXCEPT ![i] = to]

Offer(i) == Move(i, "idle", "offered") /\ UNCHANGED <<waiting, owed>>

Admit(i) ==
  /\ Cardinality(InStatus("queued")) < Capacity
  /\ Move(i, "offered", "queued")
  /\ UNCHANGED <<waiting, owed>>

Start(i) ==
  /\ Cardinality(InStatus("running")) < Parallelism
  /\ Move(i, "queued", "running")
  /\ UNCHANGED <<waiting, owed>>

Finish(i) ==
  /\ Move(i, "running", "idle")
  /\ owed' = [c \in Waiters |-> owed[c] \ {i}]
  /\ UNCHANGED waiting

BeginWait(c) ==
  /\ c \notin waiting
  /\ waiting' = waiting \cup {c}
  /\ owed' = [owed EXCEPT ![c] = Outstanding]
  /\ UNCHANGED status

EndWait(c) ==
  /\ c \in waiting
  /\ owed[c] = {}
  /\ waiting' = waiting \ {c}
  /\ UNCHANGED <<status, owed>>

DispatchNext ==
  \/ \E i \in Items : Offer(i) \/ Admit(i) \/ Start(i) \/ Finish(i)
  \/ \E c \in Waiters : BeginWait(c) \/ EndWait(c)

DispatchSpec == DispatchInit /\ [][DispatchNext]_dispatchVars
=============================================================================
