----------------------------- MODULE WorkerPool -----------------------------
(***************************************************************************)
(* threading.WorkerPool and threading.Worker: a bounded channel of work,   *)
(* worker goroutines that take from it, a wait group that counts what is   *)
(* outstanding, and the two flags (active, isDoingWork) of each worker.    *)
(* Every step of Worker.Run that another goroutine can observe is an       *)
(* action of its own.                                                      *)
(*                                                                         *)
(* An item stands for a caller together with the closure it enqueues: a    *)
(* caller enqueues again only once its closure has returned (which is what *)
(* jobqueue's running flag arranges), possibly before the worker that ran  *)
(* it reaches wg.Done.                                                     *)
(***************************************************************************)
EXTENDS Naturals, Sequences, FiniteSets

CONSTANTS Workers, Items, Waiters,
          QueueSize,   \* capacity of the channel
          MayStop      \* whether Stop is called in this environment

ASSUME WorkersAssumption == IsFiniteSet(Workers) /\ Workers # {}
ASSUME ItemsAssumption == IsFiniteSet(Items)
ASSUME QueueAssumption == QueueSize \in Nat \ {0}
ASSUME StopAssumption == MayStop \in BOOLEAN

VARIABLES
  queue,        \* pool.queue, the buffered channel
  wg,           \* the counter of pool.wg
  active,       \* worker.active
  isDoingWork,  \* worker.isDoingWork
  pc,           \* where each worker is in Run
  doWork,       \* the item each worker took last
  caller,       \* per item: idle, blocked in the send, or handed over
  waiting,      \* the callers inside WaitUntilDone
  owed          \* per such caller, what its call must outlast

callers == <<caller, waiting, owed>>
workers == <<active, isDoingWork, pc, doWork>>
vars == <<queue, wg, workers, callers>>

\* A worker holds an item whose closure has not returned yet.
Holding == {"taken", "working"}
\* The closure has returned, wg.Done is still to come.
Settling == {"ran", "unmarked"}

Locations == {"start", "check", "receive", "stopped"} \cup Holding \cup Settling

Pending == {i \in Items : caller[i] # "idle"}

WorkersAt(locations) == {w \in Workers : pc[w] \in locations}

TypeOK ==
  /\ queue \in Seq(Items)
  /\ Len(queue) <= QueueSize
  /\ wg \in Nat
  /\ active \in [Workers -> BOOLEAN]
  /\ isDoingWork \in [Workers -> BOOLEAN]
  /\ pc \in [Workers -> Locations]
  /\ doWork \in [Workers -> Items \cup {"nothing"}]
  /\ \A w \in Workers : pc[w] \in Holding \cup Settling => doWork[w] \in Items
  /\ caller \in [Items -> {"idle", "sending", "sent"}]
  /\ waiting \subseteq Waiters
  /\ owed \in [Waiters -> SUBSET Items]

Init ==
  /\ queue = <<>>
  /\ wg = 0
  /\ active = [w \in Workers |-> FALSE]
  /\ isDoingWork = [w \in Workers |-> FALSE]
  /\ pc = [w \in Workers |-> "start"]
  /\ doWork = [w \in Workers |-> "nothing"]
  /\ caller = [i \in Items |-> "idle"]
  /\ waiting = {}
  /\ owed = [c \in Waiters |-> {}]

-----------------------------------------------------------------------------
(* Plausible bugs, used only to show that the properties can fail. *)

SendToAnyLength(i) ==
  /\ caller[i] = "sending"
  /\ caller' = [caller EXCEPT ![i] = "sent"]
  /\ queue' = Append(queue, i)
  /\ UNCHANGED <<wg, workers, waiting, owed>>

AddUncounted(i) ==
  /\ caller[i] = "idle"
  /\ caller' = [caller EXCEPT ![i] = "sending"]
  /\ UNCHANGED <<queue, wg, workers, waiting, owed>>

\* The condition IsWorkRemaining tests, which WaitUntilDone used to poll.
NoWorkRemaining == queue = <<>> /\ \A w \in Workers : ~isDoingWork[w]

DoneAndLeave(w) ==
  /\ pc[w] = "unmarked"
  /\ pc' = [pc EXCEPT ![w] = "stopped"]
  /\ wg' = wg - 1
  /\ doWork' = [doWork EXCEPT ![w] = "nothing"]
  /\ UNCHANGED <<queue, active, isDoingWork, callers>>

-----------------------------------------------------------------------------
(* Callers of the pool. *)

\* EnqueueWork up to the channel send: wg.Add(1).
Add(i) ==
  /\ caller[i] = "idle"
  /\ caller' = [caller EXCEPT ![i] = "sending"]
  /\ wg' = wg + 1
  /\ UNCHANGED <<queue, workers, waiting, owed>>

\* The send of EnqueueWork; it blocks while the channel is full.
Send(i) ==
  /\ caller[i] = "sending"
  /\ Len(queue) < QueueSize
  /\ caller' = [caller EXCEPT ![i] = "sent"]
  /\ queue' = Append(queue, i)
  /\ UNCHANGED <<wg, workers, waiting, owed>>

WaitUntilDone(c) ==
  /\ c \notin waiting
  /\ waiting' = waiting \cup {c}
  /\ owed' = [owed EXCEPT ![c] = Pending]
  /\ UNCHANGED <<queue, wg, workers, caller>>

\* What wg.Wait waits for.
WaitIsOver == wg = 0

WaitReturns(c) ==
  /\ c \in waiting
  /\ WaitIsOver
  /\ waiting' = waiting \ {c}
  /\ UNCHANGED <<queue, wg, workers, caller, owed>>

\* Stop visits the workers one by one, each under its own lock.
Stop(w) ==
  /\ MayStop
  /\ active' = [active EXCEPT ![w] = FALSE]
  /\ UNCHANGED <<queue, wg, isDoingWork, pc, doWork, callers>>

-----------------------------------------------------------------------------
(* Worker.Run. *)

Goto(w, from, to) ==
  /\ pc[w] = from
  /\ pc' = [pc EXCEPT ![w] = to]

Begin(w) ==
  /\ Goto(w, "start", "check")
  /\ active' = [active EXCEPT ![w] = TRUE]
  /\ UNCHANGED <<queue, wg, isDoingWork, doWork, callers>>

\* The loop condition, worker.Active().
CheckActive(w) ==
  /\ Goto(w, "check", IF active[w] THEN "receive" ELSE "stopped")
  /\ UNCHANGED <<queue, wg, active, isDoingWork, doWork, callers>>

Receive(w) ==
  /\ queue # <<>>
  /\ Goto(w, "receive", "taken")
  /\ doWork' = [doWork EXCEPT ![w] = Head(queue)]
  /\ queue' = Tail(queue)
  /\ UNCHANGED <<wg, active, isDoingWork, callers>>

MarkBusy(w) ==
  /\ Goto(w, "taken", "working")
  /\ isDoingWork' = [isDoingWork EXCEPT ![w] = TRUE]
  /\ UNCHANGED <<queue, wg, active, doWork, callers>>

\* doWork returns: nobody has to wait for the item any more, and its caller
\* may enqueue again. An error is only logged, so it ends here as well.
WorkReturns(w) ==
  /\ Goto(w, "working", "ran")
  /\ caller' = [caller EXCEPT ![doWork[w]] = "idle"]
  /\ owed' = [c \in Waiters |-> owed[c] \ {doWork[w]}]
  /\ UNCHANGED <<queue, wg, active, isDoingWork, doWork, waiting>>

MarkIdle(w) ==
  /\ Goto(w, "ran", "unmarked")
  /\ isDoingWork' = [isDoingWork EXCEPT ![w] = FALSE]
  /\ UNCHANGED <<queue, wg, active, doWork, callers>>

Done(w) ==
  /\ Goto(w, "unmarked", "check")
  /\ wg' = wg - 1
  /\ doWork' = [doWork EXCEPT ![w] = "nothing"]
  /\ UNCHANGED <<queue, active, isDoingWork, callers>>

RunStep(w) ==
  \/ Begin(w) \/ CheckActive(w) \/ Receive(w) \/ MarkBusy(w)
  \/ WorkReturns(w) \/ MarkIdle(w) \/ Done(w)

Next ==
  \/ \E i \in Items : Add(i) \/ Send(i)
  \/ \E c \in Waiters : WaitUntilDone(c) \/ WaitReturns(c)
  \/ \E w \in Workers : Stop(w) \/ RunStep(w)

Spec == Init /\ [][Next]_vars

\* Goroutines are scheduled fairly, work returns, and a channel serves the
\* senders blocked on it in the order they came (hence strong fairness).
Fairness ==
  /\ \A w \in Workers : WF_vars(RunStep(w))
  /\ \A w \in Workers : SF_vars(Receive(w))
  /\ \A i \in Items : SF_vars(Send(i))

FairSpec == Spec /\ Fairness

-----------------------------------------------------------------------------
(* Properties. *)

\* The wait group counts exactly the enqueued items whose closure has not
\* returned and the workers that have yet to call Done: it can never go
\* negative (which panics) nor stay positive once the pool is at rest.
WaitGroupExact ==
  wg = Cardinality(Pending) + Cardinality(WorkersAt(Settling))

\* An item is in one place at a time: a closure is never run twice and two
\* workers never run the same one.
EachItemOnce ==
  /\ \A m, n \in DOMAIN queue : queue[m] = queue[n] => m = n
  /\ \A n \in DOMAIN queue, w \in WorkersAt(Holding) : queue[n] # doWork[w]
  /\ \A v, w \in WorkersAt(Holding) : doWork[v] = doWork[w] => v = w

\* WaitUntilDone is not released while something enqueued before the call
\* is unfinished (the early return described in the comment of WorkerPool).
NoEarlyReturn == \A c \in Waiters \ waiting : owed[c] = {}

\* Everything enqueued is eventually run, even through a full channel and
\* while workers are stopped, as long as not all of them are inactive.
EveryItemRuns ==
  \A i \in Items :
    caller[i] = "sending" ~> caller[i] = "idle" \/ \A w \in Workers : ~active[w]

\* Where an item is for a caller: while a worker holds it, it is running.
Progress ==
  [i \in Items |->
     IF caller[i] = "idle" THEN "idle"
     ELSE IF caller[i] = "sending" THEN "offered"
     ELSE IF \E n \in DOMAIN queue : queue[n] = i THEN "queued"
     ELSE "running"]

\* The pool implements WorkDispatch.
Dispatch == INSTANCE WorkDispatch WITH
  Capacity <- QueueSize,
  Parallelism <- Cardinality(Workers),
  status <- Progress

ImplementsDispatch == Dispatch!DispatchSpec
=============================================================================
