------------------------ MODULE BackgroundJobsProofs ------------------------
(***************************************************************************)
(* Proofs about background jobs, for every set of workers, items, waiters, *)
(* jobs and periods and every channel capacity.                            *)
(*                                                                         *)
(* WorkerPool: the wait group is exact, every item is in one place,        *)
(* WaitUntilDone never returns early, and the pool implements              *)
(* WorkDispatch.  JobQueue, on that abstract pool and with crashes: a job  *)
(* never runs twice at a time, the scheduler only collects a job that is   *)
(* due by the durable record, and what the callback was last told of a job *)
(* agrees with it.                                                         *)
(***************************************************************************)
EXTENDS WorkerPool, JobQueue, FiniteSetTheorems, SequenceTheorems, TLAPS

-----------------------------------------------------------------------------
(* WorkerPool: the invariant. *)

\* What is in the channel or in a worker's hands has been handed over by its
\* caller and has not returned.
Placed ==
  /\ \A n \in DOMAIN queue : caller[queue[n]] = "sent"
  /\ \A w \in WorkersAt(Holding) : caller[doWork[w]] = "sent"

\* Nothing that was handed over is lost before it has returned.
Found ==
  \A i \in Items : caller[i] = "sent" =>
    \/ \E n \in DOMAIN queue : queue[n] = i
    \/ \E w \in WorkersAt(Holding) : doWork[w] = i

\* A waiter only waits for items that are pending.
Owes == \A c \in Waiters : owed[c] \subseteq Pending

IInv ==
  /\ TypeOK /\ WaitGroupExact
  /\ EachItemOnce /\ Placed /\ Found
  /\ Owes /\ NoEarlyReturn

-----------------------------------------------------------------------------
(* Cardinalities of the two sets the wait group counts. *)

LEMMA PendingFinite ==
  IsFiniteSet(Pending) /\ Cardinality(Pending) \in Nat
<1>1. Pending \subseteq Items
  BY DEF Pending
<1>. QED
  BY <1>1, ItemsAssumption, FS_Subset, FS_CardinalityType

LEMMA WorkersAtFinite ==
  ASSUME NEW locations
  PROVE  /\ IsFiniteSet(WorkersAt(locations))
         /\ Cardinality(WorkersAt(locations)) \in Nat
<1>1. WorkersAt(locations) \subseteq Workers
  BY DEF WorkersAt
<1>. QED
  BY <1>1, WorkersAssumption, FS_Subset, FS_CardinalityType

-----------------------------------------------------------------------------
(* The counter. *)

\* Every step keeps the wait group equal to what it counts.
LEMMA WaitGroupStep ==
  ASSUME TypeOK, WaitGroupExact, Placed, [Next]_vars
  PROVE  WaitGroupExact' /\ wg' \in Nat
<1>. DEFINE P == Cardinality(Pending)
            S == Cardinality(WorkersAt(Settling))
<1>0. wg = P + S /\ P \in Nat /\ S \in Nat
  BY PendingFinite, WorkersAtFinite DEF WaitGroupExact
<1>1. ASSUME NEW i \in Items, Add(i)
      PROVE  WaitGroupExact' /\ wg' \in Nat
  <2>1. Pending' = Pending \cup {i} /\ i \notin Pending
    BY <1>1 DEF Add, Pending, TypeOK
  <2>2. WorkersAt(Settling)' = WorkersAt(Settling)
    BY <1>1 DEF Add, WorkersAt, workers
  <2>3. Cardinality(Pending') = P + 1
    BY <2>1, PendingFinite, FS_AddElement
  <2>. QED
    BY <1>0, <1>1, <2>2, <2>3 DEF Add, WaitGroupExact
<1>2. ASSUME NEW i \in Items, Send(i)
      PROVE  WaitGroupExact' /\ wg' \in Nat
  <2>1. Pending' = Pending
    BY <1>2 DEF Send, Pending, TypeOK
  <2>2. WorkersAt(Settling)' = WorkersAt(Settling)
    BY <1>2 DEF Send, WorkersAt, workers
  <2>. QED
    BY <1>0, <1>2, <2>1, <2>2 DEF Send, WaitGroupExact
<1>3. ASSUME NEW w \in Workers, WorkReturns(w)
      PROVE  WaitGroupExact' /\ wg' \in Nat
  <2>1. doWork[w] \in Pending /\ Pending' = Pending \ {doWork[w]}
    BY <1>3 DEF WorkReturns, Goto, Placed, TypeOK, Pending, WorkersAt, Holding
  <2>2. Cardinality(Pending') = P - 1
    BY <2>1, PendingFinite, FS_RemoveElement
  <2>3. /\ WorkersAt(Settling)' = WorkersAt(Settling) \cup {w}
        /\ w \notin WorkersAt(Settling)
    BY <1>3 DEF WorkReturns, Goto, WorkersAt, Settling, TypeOK
  <2>4. Cardinality(WorkersAt(Settling)') = S + 1
    BY <2>3, WorkersAtFinite, FS_AddElement
  <2>. QED
    BY <1>0, <1>3, <2>2, <2>4 DEF WorkReturns, WaitGroupExact
<1>4. ASSUME NEW w \in Workers, Done(w)
      PROVE  WaitGroupExact' /\ wg' \in Nat
  <2>1. Pending' = Pending
    BY <1>4 DEF Done, Pending, callers
  <2>2. /\ WorkersAt(Settling)' = WorkersAt(Settling) \ {w}
        /\ w \in WorkersAt(Settling)
    BY <1>4 DEF Done, Goto, WorkersAt, Settling, TypeOK
  <2>3. Cardinality(WorkersAt(Settling)') = S - 1 /\ S - 1 \in Nat
    <3>1. Cardinality(WorkersAt(Settling)') = S - 1
      BY <2>2, WorkersAtFinite, FS_RemoveElement
    <3>2. IsFiniteSet(WorkersAt(Settling)')
      BY <2>2, WorkersAtFinite, FS_RemoveElement
    <3>. QED
      BY <3>1, <3>2, FS_CardinalityType
  <2>. QED
    BY <1>0, <1>4, <2>1, <2>3 DEF Done, WaitGroupExact
<1>5. ASSUME NEW w \in Workers,
             Begin(w) \/ CheckActive(w) \/ Receive(w) \/ MarkBusy(w) \/ MarkIdle(w)
      PROVE  WaitGroupExact' /\ wg' \in Nat
  <2>1. Pending' = Pending
    BY <1>5 DEF Begin, CheckActive, Receive, MarkBusy, MarkIdle, Pending, callers
  <2>2. WorkersAt(Settling)' = WorkersAt(Settling)
    BY <1>5 DEF Begin, CheckActive, Receive, MarkBusy, MarkIdle, Goto,
       WorkersAt, Settling, TypeOK
  <2>. QED
    BY <1>0, <1>5, <2>1, <2>2 DEF Begin, CheckActive, Receive, MarkBusy, MarkIdle,
       WaitGroupExact
<1>6. CASE UNCHANGED <<wg, pc, caller>>
  BY <1>0, <1>6 DEF WaitGroupExact, Pending, WorkersAt
<1>. QED
  BY <1>1, <1>2, <1>3, <1>4, <1>5, <1>6
     DEF Next, RunStep, vars, callers, workers, WaitUntilDone, WaitReturns, Stop

-----------------------------------------------------------------------------
(* Type correctness. *)

LEMMA QueueStep ==
  ASSUME TypeOK, [Next]_vars
  PROVE  queue' \in Seq(Items) /\ Len(queue') <= QueueSize
<1>1. CASE \E i \in Items : Send(i)
  BY <1>1, QueueAssumption DEF Send, TypeOK
<1>2. CASE \E w \in Workers : Receive(w)
  BY <1>2, QueueAssumption, HeadTailProperties DEF Receive, TypeOK
<1>3. CASE UNCHANGED queue
  BY <1>3 DEF TypeOK
<1>. QED
  BY <1>1, <1>2, <1>3 DEF Next, vars, RunStep, Add, WaitUntilDone, WaitReturns,
     Stop, Begin, CheckActive, MarkBusy, WorkReturns, MarkIdle, Done, workers

LEMMA TypeStep ==
  ASSUME TypeOK, WaitGroupExact, Placed, [Next]_vars
  PROVE  TypeOK'
<1>1. wg' \in Nat /\ queue' \in Seq(Items) /\ Len(queue') <= QueueSize
  BY WaitGroupStep, QueueStep
<1>2. /\ active' \in [Workers -> BOOLEAN]
      /\ isDoingWork' \in [Workers -> BOOLEAN]
  BY DEF TypeOK, Next, vars, workers, RunStep, Add, Send, WaitUntilDone, WaitReturns,
     Stop, Begin, CheckActive, Receive, MarkBusy, WorkReturns, MarkIdle, Done
<1>3. pc' \in [Workers -> Locations]
  BY DEF TypeOK, Next, vars, workers, RunStep, Add, Send, WaitUntilDone, WaitReturns,
     Stop, Begin, CheckActive, Receive, MarkBusy, WorkReturns, MarkIdle, Done, Goto,
     Locations, Holding, Settling
<1>4. /\ doWork' \in [Workers -> Items \cup {"nothing"}]
      /\ \A w \in Workers : pc'[w] \in Holding \cup Settling => doWork'[w] \in Items
  <2>1. CASE \E w \in Workers : Receive(w)
    BY <2>1, HeadTailProperties DEF TypeOK, Receive, Goto, Holding, Settling
  <2>2. CASE \E w \in Workers : RunStep(w) /\ ~Receive(w)
    BY <2>2 DEF TypeOK, RunStep, Begin, CheckActive, MarkBusy, WorkReturns, MarkIdle,
       Done, Goto, Holding, Settling
  <2>3. CASE UNCHANGED <<pc, doWork>>
    BY <2>3 DEF TypeOK
  <2>. QED
    BY <2>1, <2>2, <2>3 DEF Next, vars, workers, Add, Send, WaitUntilDone,
       WaitReturns, Stop
<1>5. /\ caller' \in [Items -> {"idle", "sending", "sent"}]
      /\ waiting' \subseteq Waiters
      /\ owed' \in [Waiters -> SUBSET Items]
  BY DEF TypeOK, Next, vars, callers, workers, RunStep, Add, Send, WaitUntilDone,
     WaitReturns, Stop, Begin, CheckActive, Receive, MarkBusy, WorkReturns, MarkIdle,
     Done, Pending
<1>. QED
  BY <1>1, <1>2, <1>3, <1>4, <1>5 DEF TypeOK

-----------------------------------------------------------------------------
(* Each item is in one place. *)

LEMMA PlacedStep ==
  ASSUME TypeOK, EachItemOnce, Placed, [Next]_vars
  PROVE  EachItemOnce' /\ Placed'
<1>1. ASSUME NEW i \in Items, Send(i)
      PROVE  EachItemOnce' /\ Placed'
  BY <1>1 DEF Send, TypeOK, EachItemOnce, Placed, WorkersAt, Holding, workers
<1>2. ASSUME NEW w \in Workers, Receive(w)
      PROVE  EachItemOnce' /\ Placed'
  <2>1. /\ Len(queue) \in Nat \ {0}
        /\ DOMAIN queue = 1..Len(queue)
        /\ Head(queue) = queue[1]
        /\ Len(queue') = Len(queue) - 1
        /\ DOMAIN queue' = 1..(Len(queue) - 1)
        /\ \A n \in DOMAIN queue' : queue'[n] = queue[n + 1] /\ n + 1 \in DOMAIN queue
    BY <1>2, HeadTailProperties, LenProperties, EmptySeq DEF Receive, TypeOK
  <2>2. /\ WorkersAt(Holding)' = WorkersAt(Holding) \cup {w}
        /\ w \notin WorkersAt(Holding)
    BY <1>2 DEF Receive, Goto, WorkersAt, Holding, TypeOK
  <2>3. /\ doWork'[w] = queue[1]
        /\ \A v \in WorkersAt(Holding) : doWork'[v] = doWork[v]
    BY <1>2, <2>1, <2>2 DEF Receive, TypeOK, WorkersAt
  <2>. QED
    BY <1>2, <2>1, <2>2, <2>3 DEF Receive, EachItemOnce, Placed, callers
<1>3. ASSUME NEW w \in Workers, WorkReturns(w)
      PROVE  EachItemOnce' /\ Placed'
  BY <1>3 DEF WorkReturns, Goto, TypeOK, EachItemOnce, Placed, WorkersAt, Holding
<1>4. ASSUME NEW w \in Workers,
             Begin(w) \/ CheckActive(w) \/ MarkBusy(w) \/ MarkIdle(w) \/ Done(w)
      PROVE  EachItemOnce' /\ Placed'
  BY <1>4 DEF Begin, CheckActive, MarkBusy, MarkIdle, Done, Goto, callers,
     TypeOK, EachItemOnce, Placed, WorkersAt, Holding
<1>5. ASSUME NEW i \in Items, Add(i)
      PROVE  EachItemOnce' /\ Placed'
  BY <1>5 DEF Add, workers, TypeOK, EachItemOnce, Placed, WorkersAt, Holding
<1>6. CASE UNCHANGED <<queue, pc, doWork, caller>>
  BY <1>6 DEF EachItemOnce, Placed, WorkersAt
<1>. QED
  BY <1>1, <1>2, <1>3, <1>4, <1>5, <1>6
     DEF Next, RunStep, vars, callers, workers, WaitUntilDone, WaitReturns, Stop

\* Nothing is lost: an item in the channel goes to the worker that takes it.
LEMMA FoundStep ==
  ASSUME TypeOK, Found, [Next]_vars
  PROVE  Found'
<1>1. ASSUME NEW i \in Items, Send(i)
      PROVE  Found'
  <2>1. /\ DOMAIN queue' = 1..(Len(queue) + 1) /\ DOMAIN queue = 1..Len(queue)
        /\ Len(queue) \in Nat
        /\ queue'[Len(queue) + 1] = i
        /\ \A n \in DOMAIN queue : queue'[n] = queue[n]
    BY <1>1 DEF Send, TypeOK
  <2>2. /\ \A j \in Items \ {i} : caller'[j] = caller[j]
        /\ WorkersAt(Holding)' = WorkersAt(Holding) /\ doWork' = doWork
    BY <1>1 DEF Send, TypeOK, WorkersAt, workers
  <2>. QED
    BY <2>1, <2>2 DEF Found
<1>2. ASSUME NEW w \in Workers, Receive(w)
      PROVE  Found'
  <2>1. /\ Len(queue) \in Nat \ {0} /\ DOMAIN queue = 1..Len(queue)
        /\ DOMAIN queue' = 1..(Len(queue) - 1)
        /\ \A n \in DOMAIN queue' : queue'[n] = queue[n + 1]
    BY <1>2, HeadTailProperties, LenProperties, EmptySeq DEF Receive, TypeOK
  <2>2. /\ w \in WorkersAt(Holding)' /\ doWork'[w] = queue[1]
        /\ \A v \in WorkersAt(Holding) : v \in WorkersAt(Holding)' /\ doWork'[v] = doWork[v]
    BY <1>2 DEF Receive, Goto, WorkersAt, Holding, TypeOK
  <2>3. ASSUME NEW n \in DOMAIN queue, n # 1
        PROVE  n - 1 \in DOMAIN queue' /\ queue'[n - 1] = queue[n]
    BY <2>1, <2>3
  <2>4. caller' = caller
    BY <1>2 DEF Receive, callers
  <2>. QED
    BY <2>2, <2>3, <2>4 DEF Found
<1>3. ASSUME NEW w \in Workers, WorkReturns(w)
      PROVE  Found'
  <2>1. /\ \A v \in WorkersAt(Holding) \ {w} : v \in WorkersAt(Holding)'
        /\ UNCHANGED <<queue, doWork>> /\ w \in WorkersAt(Holding)
    BY <1>3 DEF WorkReturns, Goto, TypeOK, WorkersAt, Holding
  <2>2. \A i \in Items : caller'[i] = IF i = doWork[w] THEN "idle" ELSE caller[i]
    BY <1>3 DEF WorkReturns, TypeOK
  <2>. QED
    BY <2>1, <2>2 DEF Found
<1>4. ASSUME NEW w \in Workers,
             Begin(w) \/ CheckActive(w) \/ MarkBusy(w) \/ MarkIdle(w) \/ Done(w)
      PROVE  Found'
  BY <1>4 DEF Begin, CheckActive, MarkBusy, MarkIdle, Done, Goto, callers,
     TypeOK, Found, WorkersAt, Holding
<1>5. ASSUME NEW i \in Items, Add(i)
      PROVE  Found'
  BY <1>5 DEF Add, workers, TypeOK, Found, WorkersAt
<1>6. CASE UNCHANGED <<queue, pc, doWork, caller>>
  BY <1>6 DEF Found, WorkersAt
<1>. QED
  BY <1>1, <1>2, <1>3, <1>4, <1>5, <1>6
     DEF Next, RunStep, vars, callers, workers, WaitUntilDone, WaitReturns, Stop

-----------------------------------------------------------------------------
(* Waiters. *)

LEMMA OwesStep ==
  ASSUME TypeOK, WaitGroupExact, Placed, Owes, NoEarlyReturn, [Next]_vars
  PROVE  Owes' /\ NoEarlyReturn'
<1>1. ASSUME NEW c \in Waiters, WaitUntilDone(c)
      PROVE  Owes' /\ NoEarlyReturn'
  BY <1>1 DEF WaitUntilDone, Owes, NoEarlyReturn, Pending, TypeOK
<1>2. ASSUME NEW c \in Waiters, WaitReturns(c)
      PROVE  Owes' /\ NoEarlyReturn'
  <2>1. Cardinality(Pending) = 0
    BY <1>2, PendingFinite, WorkersAtFinite
       DEF WaitReturns, WaitIsOver, WaitGroupExact
  <2>2. Pending = {}
    BY <2>1, PendingFinite, FS_EmptySet
  <2>3. owed[c] = {}
    BY <2>2 DEF Owes
  <2>. QED
    BY <1>2, <2>3 DEF WaitReturns, Owes, NoEarlyReturn, Pending
<1>3. ASSUME NEW w \in Workers, WorkReturns(w)
      PROVE  Owes' /\ NoEarlyReturn'
  <2>1. Pending' = Pending \ {doWork[w]}
    BY <1>3 DEF WorkReturns, Goto, Pending, TypeOK, Holding
  <2>. QED
    BY <1>3, <2>1 DEF WorkReturns, Owes, NoEarlyReturn
<1>4. CASE Pending \subseteq Pending' /\ UNCHANGED <<waiting, owed>>
  BY <1>4 DEF Owes, NoEarlyReturn
<1>5. ASSUME NEW i \in Items, Add(i) \/ Send(i)
      PROVE  Pending \subseteq Pending' /\ UNCHANGED <<waiting, owed>>
  BY <1>5 DEF Add, Send, Pending, TypeOK
<1>6. ASSUME UNCHANGED callers
      PROVE  Pending \subseteq Pending' /\ UNCHANGED <<waiting, owed>>
  BY <1>6 DEF callers, Pending
<1>. QED
  BY <1>1, <1>2, <1>3, <1>4, <1>5, <1>6 DEF Next, RunStep, vars, Stop, Begin,
     CheckActive, Receive, MarkBusy, MarkIdle, Done

-----------------------------------------------------------------------------

\* The inductive invariant: the wait group is exact, items are placed once,
\* none is lost, and waiters owe only pending items.
THEOREM Inductive == Spec => []IInv
<1>1. Init => IInv
  <2>. SUFFICES ASSUME Init PROVE IInv
    OBVIOUS
  <2>1. Pending = {} /\ WorkersAt(Settling) = {} /\ WorkersAt(Holding) = {}
    BY DEF Init, Pending, WorkersAt, Settling, Holding
  <2>2. TypeOK
    BY QueueAssumption, EmptySeq DEF Init, TypeOK, Locations, Holding, Settling
  <2>3. WaitGroupExact
    BY <2>1, FS_EmptySet DEF Init, WaitGroupExact
  <2>4. DOMAIN queue = {}
    BY EmptySeq, LenProperties DEF Init
  <2>. QED
    BY <2>1, <2>2, <2>3, <2>4
       DEF Init, IInv, EachItemOnce, Placed, Found, Owes, NoEarlyReturn
<1>2. IInv /\ [Next]_vars => IInv'
  BY TypeStep, WaitGroupStep, PlacedStep, FoundStep, OwesStep DEF IInv
<1>. QED
  BY <1>1, <1>2, PTL DEF Spec

\* Type correctness of threading.WorkerPool.
THEOREM TypeCorrect == Spec => []TypeOK
BY Inductive, PTL DEF IInv

\* wg.Done is called exactly as often as wg.Add announced (worker_pool.go).
THEOREM WaitGroupIsExact == Spec => []WaitGroupExact
BY Inductive, PTL DEF IInv

\* No closure is run twice, by one worker or by two.
THEOREM ItemsRunOnce == Spec => []EachItemOnce
BY Inductive, PTL DEF IInv

\* WaitUntilDone returns only after everything enqueued before it has run.
THEOREM WaitNeverReturnsEarly == Spec => []NoEarlyReturn
BY Inductive, PTL DEF IInv

-----------------------------------------------------------------------------
(* The pool implements WorkDispatch.  What an item's Progress is follows    *)
(* from where it is, which is one place only.                               *)

LEMMA ProgressOf ==
  ASSUME IInv, NEW i \in Items
  PROVE  /\ caller[i] = "idle" => Progress[i] = "idle"
         /\ caller[i] = "sending" => Progress[i] = "offered"
         /\ (\E n \in DOMAIN queue : queue[n] = i) => Progress[i] = "queued"
         /\ (\E w \in WorkersAt(Holding) : doWork[w] = i) => Progress[i] = "running"
BY DEF Progress, IInv, Placed, EachItemOnce

LEMMA ProgressShows ==
  ASSUME IInv, NEW i \in Items
  PROVE  /\ Progress[i] = "idle" => caller[i] = "idle"
         /\ Progress[i] = "queued" => \E n \in DOMAIN queue : queue[n] = i
         /\ Progress[i] = "running" => \E w \in WorkersAt(Holding) : doWork[w] = i
<1>1. caller[i] \in {"idle", "sending", "sent"}
  BY DEF IInv, TypeOK
<1>. QED
  BY <1>1, ProgressOf DEF IInv, Found

\* An item moves, and the others stay where they are.
LEMMA ProgressMoves ==
  ASSUME NEW i \in Items, NEW to, Progress'[i] = to,
         \A j \in Items \ {i} : Progress'[j] = Progress[j]
  PROVE  Progress' = [Progress EXCEPT ![i] = to]
<1>1. /\ Progress = [j \in Items |-> Progress[j]]
      /\ Progress' = [j \in Items |-> Progress'[j]]
  BY DEF Progress
<1>. QED
  BY <1>1

\* What does not touch the callers and moves nothing in or out of the channel
\* cannot be told apart.
LEMMA ProgressStays ==
  ASSUME UNCHANGED <<queue, caller>>
  PROVE  Progress' = Progress
BY DEF Progress

\* A set whose members are all found at some place is no larger than the places.
LEMMA NoMoreThanPlaces ==
  ASSUME NEW S, IsFiniteSet(S), NEW T, IsFiniteSet(T), NEW g,
         \A x \in S : \E y \in T : g[y] = x
  PROVE  Cardinality(S) <= Cardinality(T)
<1>. DEFINE f == [x \in S |-> CHOOSE y \in T : g[y] = x]
<1>1. \A x \in S : f[x] \in T /\ g[f[x]] = x
  OBVIOUS
<1>2. f \in [S -> T]
  BY <1>1
<1>3. \A x, y \in S : f[x] = f[y] => x = y
  BY <1>1
<1>4. f \in Injection(S, T)
  <2>. HIDE DEF f
  <2>. QED
    BY <1>2, <1>3 DEF Injection, IsInjective
<1>. QED
  BY <1>4, FS_Injection

\* WorkDispatch counts with its own instance of FiniteSets.
LEMMA SameCardinality == \A S : Dispatch!Cardinality(S) = Cardinality(S)
BY DEF Cardinality, Dispatch!Cardinality

\* The channel bounds the backlog, and the workers what runs.
LEMMA DispatchBounded ==
  ASSUME IInv
  PROVE  /\ Cardinality(Dispatch!InStatus("queued")) \in Nat
         /\ Cardinality(Dispatch!InStatus("queued")) <= Len(queue)
         /\ Cardinality(Dispatch!InStatus("running")) \in Nat
         /\ Cardinality(Dispatch!InStatus("running")) <= Cardinality(WorkersAt(Holding))
<1>1. \A s : /\ IsFiniteSet(Dispatch!InStatus(s))
            /\ Cardinality(Dispatch!InStatus(s)) \in Nat
  BY ItemsAssumption, FS_Subset, FS_CardinalityType DEF Dispatch!InStatus
<1>2. Len(queue) \in Nat /\ DOMAIN queue = 1..Len(queue)
  BY DEF IInv, TypeOK
<1>3. \A n \in Nat : IsFiniteSet(1..n) /\ Cardinality(1..n) = n
  BY FS_Interval
<1>4. \A i \in Dispatch!InStatus("queued") : \E n \in 1..Len(queue) : queue[n] = i
  BY <1>2, ProgressShows DEF Dispatch!InStatus
<1>5. \A i \in Dispatch!InStatus("running") : \E w \in WorkersAt(Holding) : doWork[w] = i
  BY ProgressShows DEF Dispatch!InStatus
<1>6. Cardinality(Dispatch!InStatus("queued")) <= Len(queue)
  <2>. IsFiniteSet(1..Len(queue)) /\ Cardinality(1..Len(queue)) = Len(queue)
    BY <1>2, <1>3
  <2>. QED
    BY <1>1, <1>4, NoMoreThanPlaces
<1>7. Cardinality(Dispatch!InStatus("running")) <= Cardinality(WorkersAt(Holding))
  BY <1>1, <1>5, WorkersAtFinite, NoMoreThanPlaces
<1>. QED
  BY <1>1, <1>6, <1>7

\* Every step of a caller or a worker is a step of WorkDispatch or invisible:
\* the channel, the flags and the wait group add nothing and lose nothing.
LEMMA DispatchSteps ==
  ASSUME IInv, IInv', [Next]_vars
  PROVE  [Dispatch!DispatchNext]_(Dispatch!dispatchVars)
<1>. USE DEF IInv
<1>1. ASSUME NEW i \in Items, Add(i)
      PROVE  Dispatch!Offer(i)
  <2>1. caller[i] = "idle" /\ caller'[i] = "sending" /\ queue' = queue
        /\ \A j \in Items \ {i} : caller'[j] = caller[j]
    BY <1>1 DEF Add, TypeOK
  <2>2. Progress[i] = "idle" /\ Progress'[i] = "offered"
    BY <2>1 DEF Progress
  <2>3. \A j \in Items \ {i} : Progress'[j] = Progress[j]
    BY <2>1 DEF Progress
  <2>. QED
    BY <1>1, <2>2, <2>3, ProgressMoves DEF Add, Dispatch!Offer, Dispatch!Move
<1>2. ASSUME NEW i \in Items, Send(i)
      PROVE  Dispatch!Admit(i)
  <2>1. caller[i] = "sending" /\ caller'[i] = "sent"
        /\ \A j \in Items \ {i} : caller'[j] = caller[j]
    BY <1>2 DEF Send, TypeOK
  <2>2. /\ DOMAIN queue' = 1..(Len(queue) + 1) /\ DOMAIN queue = 1..Len(queue)
        /\ Len(queue) \in Nat
        /\ queue'[Len(queue) + 1] = i
        /\ \A n \in DOMAIN queue : queue'[n] = queue[n]
    BY <1>2 DEF Send, TypeOK
  <2>3. Progress[i] = "offered" /\ Progress'[i] = "queued"
    BY <2>1, <2>2 DEF Progress
  <2>4. \A j \in Items \ {i} : Progress'[j] = Progress[j]
    BY <2>1, <2>2 DEF Progress
  <2>5. Cardinality(Dispatch!InStatus("queued")) < QueueSize
    BY <1>2, <2>2, DispatchBounded, QueueAssumption DEF Send
  <2>6. Progress' = [Progress EXCEPT ![i] = "queued"]
    BY <2>3, <2>4, ProgressMoves
  <2>. QED
    BY <1>2, <2>3, <2>5, <2>6, SameCardinality DEF Send, Dispatch!Admit, Dispatch!Move
<1>3. ASSUME NEW w \in Workers, Receive(w)
      PROVE  Dispatch!Start(Head(queue))
  <2>1. /\ Len(queue) \in Nat \ {0} /\ DOMAIN queue = 1..Len(queue)
        /\ Head(queue) = queue[1] /\ Head(queue) \in Items
        /\ DOMAIN queue' = 1..(Len(queue) - 1)
        /\ \A n \in DOMAIN queue' : queue'[n] = queue[n + 1] /\ n + 1 \in DOMAIN queue
    BY <1>3, HeadTailProperties, LenProperties, EmptySeq DEF Receive, TypeOK
  <2>2. caller' = caller /\ caller[Head(queue)] = "sent"
    BY <1>3, <2>1 DEF Receive, callers, Placed
  <2>3. Progress[Head(queue)] = "queued"
    BY <2>1, ProgressOf
  <2>4. Progress'[Head(queue)] = "running"
    BY <2>1, <2>2 DEF EachItemOnce, Progress
  <2>5. ASSUME NEW j \in Items \ {Head(queue)}
        PROVE  Progress'[j] = Progress[j]
    <3>1. ASSUME NEW n \in DOMAIN queue, queue[n] = j
          PROVE  n - 1 \in DOMAIN queue' /\ queue'[n - 1] = j
      BY <2>1, <3>1
    <3>2. (\E n \in DOMAIN queue : queue[n] = j) <=> (\E n \in DOMAIN queue' : queue'[n] = j)
      BY <2>1, <3>1
    <3>. QED
      BY <2>2, <3>2 DEF Progress
  <2>6. Cardinality(Dispatch!InStatus("running")) < Cardinality(Workers)
    <3>1. w \notin WorkersAt(Holding) /\ WorkersAt(Holding) \subseteq Workers
      BY <1>3 DEF Receive, Goto, WorkersAt, Holding
    <3>2. WorkersAt(Holding) # Workers
      BY <3>1
    <3>3. Cardinality(WorkersAt(Holding)) < Cardinality(Workers)
      BY <3>1, <3>2, WorkersAssumption, FS_Subset, FS_CardinalityType
    <3>. QED
      BY <3>3, DispatchBounded, WorkersAtFinite, WorkersAssumption, FS_CardinalityType
  <2>7. Progress' = [Progress EXCEPT ![Head(queue)] = "running"]
    BY <2>1, <2>4, <2>5, ProgressMoves
  <2>. QED
    BY <1>3, <2>3, <2>6, <2>7, SameCardinality
       DEF Receive, callers, Dispatch!Start, Dispatch!Move
<1>4. ASSUME NEW w \in Workers, WorkReturns(w)
      PROVE  Dispatch!Finish(doWork[w])
  <2>1. w \in WorkersAt(Holding) /\ doWork[w] \in Items
    BY <1>4 DEF WorkReturns, Goto, WorkersAt, Holding, TypeOK
  <2>2. Progress[doWork[w]] = "running"
    BY <2>1, ProgressOf
  <2>3. \A j \in Items : caller'[j] = IF j = doWork[w] THEN "idle" ELSE caller[j]
    BY <1>4 DEF WorkReturns, TypeOK
  <2>4. /\ Progress'[doWork[w]] = "idle"
        /\ \A j \in Items \ {doWork[w]} : Progress'[j] = Progress[j]
    BY <1>4, <2>1, <2>3 DEF WorkReturns, Progress
  <2>. QED
    BY <1>4, <2>1, <2>2, <2>4, ProgressMoves
       DEF WorkReturns, Dispatch!Finish, Dispatch!Move
<1>5. ASSUME NEW c \in Waiters, WaitUntilDone(c)
      PROVE  Dispatch!BeginWait(c)
  <2>1. Progress' = Progress
    BY <1>5, ProgressStays DEF WaitUntilDone
  <2>2. Dispatch!Outstanding = Pending
    BY ProgressOf, ProgressShows DEF Dispatch!Outstanding, Pending
  <2>. QED
    BY <1>5, <2>1, <2>2 DEF WaitUntilDone, Dispatch!BeginWait
<1>6. ASSUME NEW c \in Waiters, WaitReturns(c)
      PROVE  Dispatch!EndWait(c)
  <2>1. Progress' = Progress
    BY <1>6, ProgressStays DEF WaitReturns
  <2>2. owed[c] = {}
    BY <1>6 DEF WaitReturns, NoEarlyReturn
  <2>. QED
    BY <1>6, <2>1, <2>2 DEF WaitReturns, Dispatch!EndWait
<1>7. ASSUME UNCHANGED <<queue, callers>>
      PROVE  UNCHANGED Dispatch!dispatchVars
  BY <1>7, ProgressStays DEF callers, Dispatch!dispatchVars
<1>8. ASSUME NEW w \in Workers,
             \/ Stop(w) \/ Begin(w) \/ CheckActive(w) \/ MarkBusy(w)
             \/ MarkIdle(w) \/ Done(w)
      PROVE  UNCHANGED <<queue, callers>>
  BY <1>8 DEF Stop, Begin, CheckActive, MarkBusy, MarkIdle, Done
<1>9. ASSUME NEW w \in Workers, Receive(w) \/ WorkReturns(w)
      PROVE  \E i \in Items : Dispatch!Start(i) \/ Dispatch!Finish(i)
  <2>1. Receive(w) => Head(queue) \in Items
    BY HeadTailProperties DEF Receive, TypeOK
  <2>2. WorkReturns(w) => doWork[w] \in Items
    BY DEF WorkReturns, Goto, Holding, TypeOK
  <2>. QED
    BY <1>3, <1>4, <1>9, <2>1, <2>2
<1>10. CASE Next
  BY <1>10, <1>1, <1>2, <1>5, <1>6, <1>7, <1>8, <1>9
     DEF Next, RunStep, Dispatch!DispatchNext
<1>11. CASE UNCHANGED vars
  BY <1>7, <1>11 DEF vars
<1>. QED
  BY <1>10, <1>11

\* The worker pool keeps the promises of WorkDispatch.
THEOREM PoolImplementsDispatch == Spec => ImplementsDispatch
<1>1. Init => Dispatch!DispatchInit
  BY DEF Init, Dispatch!DispatchInit, Progress
<1>2. IInv /\ IInv' /\ [Next]_vars => [Dispatch!DispatchNext]_(Dispatch!dispatchVars)
  BY DispatchSteps
<1>. QED
  BY <1>1, <1>2, Inductive, PTL DEF Spec, ImplementsDispatch, Dispatch!DispatchSpec

-----------------------------------------------------------------------------
(* JobQueue: the invariant. *)

\* Closures are of jobs.
ClosuresHaveJobs == \A r \in Outstanding : job[r] \in Jobs

\* The in-memory time lags behind the record only between the insert of a
\* row and lastRun.Store, while the closure that wrote the row is running.
MemoryLagsInRunOnly ==
  \A j \in registered :
    \/ lastRun[j] <= recorded[j]
    \/ \E r \in Outstanding : job[r] = j /\ at[r] = "store"

\* tick inspects registered jobs.
InspectsRegistered == todo \subseteq registered /\ seen \in registered \cup {None}

\* A closure retracts what it announced before it lets the job go.
RetractedBeforeRelease ==
  \A r \in Outstanding : at[r] = "release" => job[r] \notin announced

JobsIInv ==
  /\ Shapes
  /\ WithinCapacity
  /\ ClosuresHaveJobs
  /\ OneRunAtATime
  /\ MemoryLagsInRunOnly
  /\ InspectsRegistered
  /\ AnnouncedOnlyWhileRunning
  /\ RetractedBeforeRelease

USE DEF Pool!Move

-----------------------------------------------------------------------------
(* The actions by what they change, so that each proof has few cases. *)

\* What a claim does to the closures.
LEMMA ClaimEffect ==
  ASSUME Shapes, NEW j \in Jobs, NEW r \in Runs, Claim(j, r)
  PROVE  /\ j \notin running
         /\ running' = running \cup {j}
         /\ r \notin Outstanding /\ Outstanding' = Outstanding \cup {r}
         /\ job'[r] = j /\ \A s \in Outstanding : job'[s] = job[s]
         /\ UNCHANGED <<recorded, registered, lastRun, at>>
BY DEF Claim, Shapes, Outstanding, Pool!Offer

\* What the end of a closure does.
LEMMA ReleaseEffect ==
  ASSUME Shapes, NEW r \in Runs, Release(r)
  PROVE  /\ running' = running \ {job[r]}
         /\ r \in Outstanding /\ Outstanding' = Outstanding \ {r}
         /\ at[r] = "release"
         /\ \A s \in Outstanding' : job'[s] = job[s] /\ at'[s] = at[s]
         /\ UNCHANGED <<recorded, registered, lastRun>>
BY DEF Release, Shapes, Outstanding, Pool!Finish

\* Admission and start leave a closure outstanding.
LEMMA AdmitStartEffect ==
  ASSUME Shapes, NEW r \in Runs, Admit(r) \/ Start(r)
  PROVE  /\ Outstanding' = Outstanding
         /\ UNCHANGED <<recorded, registered, running, lastRun, job, at>>
BY DEF Admit, Start, Shapes, Outstanding, Pool!Admit, Pool!Start, memory

\* The steps of a closure between its start and its end.
Inside(r) ==
  AnnounceStart(r) \/ RunRecorded(r) \/ RunUnrecorded(r) \/ StoreLastRun(r) \/ AnnounceEnd(r)

LEMMA InsideEffect ==
  ASSUME Shapes, NEW r \in Runs, Inside(r)
  PROVE  /\ r \in Outstanding /\ UNCHANGED status /\ Outstanding' = Outstanding
         /\ UNCHANGED <<registered, running, job>>
BY DEF Inside, AnnounceStart, RunRecorded, RunUnrecorded, StoreLastRun, AnnounceEnd,
   Advance, Shapes, Outstanding, memory

\* Steps that touch neither the closures nor what is known of the jobs.
Elsewhere == UNCHANGED <<recorded, registered, running, lastRun, job, at, status>>

LEMMA SchedulerEffect ==
  ASSUME TickBegins \/ InspectEnds \/ TickEnds
           \/ \E j \in Jobs : Inspect(j) \/ TickSkips(j)
  PROVE  Elsewhere
BY DEF TickBegins, InspectEnds, TickEnds, Inspect, InspectRunning, InspectLastRun, TickSkips,
   Elsewhere, memory, closures

LEMMA Cases ==
  ASSUME [JobsNext]_jobsVars
  PROVE  \/ \E j \in Jobs, r \in Runs : Claim(j, r)
         \/ \E j \in Jobs : Register(j)
         \/ \E r \in Runs : Admit(r) \/ Start(r)
         \/ \E r \in Runs : Inside(r)
         \/ \E r \in Runs : Release(r)
         \/ TimePasses
         \/ Crash
         \/ Elsewhere
<1>1. CASE SchedulerStep
  BY <1>1, SchedulerEffect DEF SchedulerStep, TickClaims
<1>2. CASE UNCHANGED jobsVars
  BY <1>2 DEF jobsVars, memory, closures, Elsewhere
<1>. QED
  BY <1>1, <1>2 DEF JobsNext, ForceRun, ClosureStep, Inside

-----------------------------------------------------------------------------
(* Types. *)

LEMMA OlderType ==
  ASSUME NEW age \in Ages
  PROVE  Older(age) \in Ages
BY PeriodAssumption DEF Ages, Older, Never

LEMMA ShapesStep ==
  ASSUME Shapes, ClosuresHaveJobs, [JobsNext]_jobsVars
  PROVE  Shapes'
<1>. USE PeriodAssumption DEF Shapes, Ages, Never
<1>1. ASSUME NEW j \in Jobs, Register(j) PROVE Shapes'
  BY <1>1 DEF Register, closures, scheduler
<1>2. ASSUME NEW j \in Jobs, ForceRun(j) PROVE Shapes'
  BY <1>2 DEF ForceRun, Claim, Pool!Offer, scheduler
<1>3. ASSUME NEW r \in Runs, Admit(r) PROVE Shapes'
  BY <1>3 DEF Admit, Pool!Admit, memory
<1>4. CASE TickBegins \/ InspectEnds \/ TickEnds
  BY <1>4 DEF TickBegins, InspectEnds, TickEnds, memory, closures
<1>5. ASSUME NEW j \in Jobs, Inspect(j) \/ TickSkips(j) PROVE Shapes'
  BY <1>5 DEF Inspect, InspectRunning, InspectLastRun, TickSkips, memory, closures
<1>6. ASSUME NEW j \in Jobs, TickClaims(j) PROVE Shapes'
  BY <1>6 DEF TickClaims, Claim, Pool!Offer
<1>7. ASSUME NEW r \in Runs, Start(r) PROVE Shapes'
  BY <1>7 DEF Start, Pool!Start, memory, scheduler
<1>8. ASSUME NEW r \in Runs, Inside(r) PROVE Shapes'
  <2>1. job[r] \in Jobs
    BY <1>8, InsideEffect DEF ClosuresHaveJobs
  <2>. QED
    BY <1>8, <2>1 DEF Inside, AnnounceStart, RunRecorded, RunUnrecorded, StoreLastRun,
       AnnounceEnd, Advance, memory, scheduler, Places
<1>9. ASSUME NEW r \in Runs, Release(r) PROVE Shapes'
  BY <1>9 DEF Release, Pool!Finish, scheduler, Places
<1>10. CASE TimePasses
  BY <1>10, OlderType DEF TimePasses, scheduler
<1>11. CASE Crash
  BY <1>11 DEF Crash, Places
<1>12. CASE UNCHANGED jobsVars
  BY <1>12 DEF jobsVars, memory, closures, scheduler
<1>. QED
  BY <1>1, <1>2, <1>3, <1>4, <1>5, <1>6, <1>7, <1>8, <1>9, <1>10, <1>11, <1>12
     DEF JobsNext, SchedulerStep, ClosureStep, Inside

LEMMA CapacityStep ==
  ASSUME Shapes, WithinCapacity, [JobsNext]_jobsVars
  PROVE  WithinCapacity'
<1>. DEFINE Q == Pool!InStatus("queued")
<1>1. /\ IsFiniteSet(Q) /\ Cardinality(Q) \in Nat /\ Cardinality(Q) <= ChannelSize
      /\ ChannelSize \in Nat
  BY RunsAssumption, PoolAssumption, FS_Subset, FS_CardinalityType
     DEF Pool!InStatus, WithinCapacity
<1>2. ASSUME NEW r \in Runs, Admit(r) PROVE WithinCapacity'
  <2>1. /\ Cardinality(Q) < ChannelSize
        /\ status[r] = "offered" /\ status' = [status EXCEPT ![r] = "queued"]
    BY <1>2, Zenon DEF Admit, Pool!Admit, Pool!Cardinality, Cardinality
  <2>3. Q' = Q \cup {r} /\ r \notin Q
    BY <2>1 DEF Pool!InStatus, Shapes
  <2>2. Cardinality(Q') = Cardinality(Q) + 1
    BY <1>1, <2>3, FS_AddElement
  <2>. QED
    BY <1>1, <2>1, <2>2 DEF WithinCapacity
<1>3. ASSUME Q' \subseteq Q PROVE WithinCapacity'
  <2>1. Cardinality(Q') <= Cardinality(Q) /\ Cardinality(Q') \in Nat
    BY <1>1, <1>3, FS_Subset, FS_CardinalityType
  <2>. QED
    BY <1>1, <2>1 DEF WithinCapacity
<1>4. ASSUME NEW j \in Jobs, NEW r \in Runs, Claim(j, r) PROVE Q' \subseteq Q
  BY <1>4 DEF Claim, Pool!Offer, Pool!InStatus, Shapes
<1>5. ASSUME NEW r \in Runs, Start(r) \/ Release(r) PROVE Q' \subseteq Q
  BY <1>5 DEF Start, Release, Pool!Start, Pool!Finish, Pool!InStatus, Shapes
<1>6. CASE Crash
  BY <1>3, <1>6 DEF Crash, Pool!InStatus
<1>7. CASE UNCHANGED status
  BY <1>3, <1>7 DEF Pool!InStatus
<1>. QED
  BY <1>2, <1>3, <1>4, <1>5, <1>6, <1>7, Cases, InsideEffect
     DEF Register, TimePasses, Elsewhere, closures

-----------------------------------------------------------------------------
(* One run of a job at a time. *)

LEMMA OneRunStep ==
  ASSUME Shapes, ClosuresHaveJobs, OneRunAtATime, [JobsNext]_jobsVars
  PROVE  ClosuresHaveJobs' /\ OneRunAtATime'
<1>. USE DEF ClosuresHaveJobs, OneRunAtATime
<1>1. ASSUME NEW j \in Jobs, NEW r \in Runs, Claim(j, r)
      PROVE  ClosuresHaveJobs' /\ OneRunAtATime'
  <2>1. \A s \in Outstanding : s # r /\ job'[s] = job[s] /\ job[s] # j
    BY <1>1, ClaimEffect
  <2>2. job'[r] = j /\ Outstanding' = Outstanding \cup {r}
    BY <1>1, ClaimEffect
  <2>3. running' = running \cup {j}
    BY <1>1, ClaimEffect
  <2>. QED
    BY <2>1, <2>2, <2>3
<1>2. ASSUME NEW r \in Runs, Release(r)
      PROVE  ClosuresHaveJobs' /\ OneRunAtATime'
  <2>1. /\ r \in Outstanding /\ job[r] \in Jobs
        /\ Outstanding' = Outstanding \ {r}
    BY <1>2, ReleaseEffect
  <2>2. \A s \in Outstanding' : job'[s] = job[s] /\ job[s] # job[r]
    BY <1>2, <2>1, ReleaseEffect
  <2>3. running' = running \ {job[r]}
    BY <1>2, <2>1, ReleaseEffect
  <2>. QED
    BY <2>1, <2>2, <2>3
<1>3. ASSUME Outstanding' = Outstanding, UNCHANGED <<running, job>>
      PROVE  ClosuresHaveJobs' /\ OneRunAtATime'
  BY <1>3
<1>4. CASE Crash
  BY <1>4 DEF Crash, Outstanding
<1>5. ASSUME UNCHANGED <<status, running, job>>
      PROVE  ClosuresHaveJobs' /\ OneRunAtATime'
  BY <1>3, <1>5 DEF Outstanding
<1>. QED
  BY <1>1, <1>2, <1>3, <1>4, <1>5, Cases, AdmitStartEffect, InsideEffect
     DEF Register, TimePasses, Elsewhere, closures

-----------------------------------------------------------------------------
(* The record and the memory. *)

LEMMA OlderMonotone ==
  ASSUME NEW a \in Ages, NEW b \in Ages, a <= b
  PROVE  Older(a) <= Older(b)
BY PeriodAssumption DEF Ages, Older, Never

LEMMA MemoryStep ==
  ASSUME Shapes, ClosuresHaveJobs, OneRunAtATime, MemoryLagsInRunOnly, [JobsNext]_jobsVars
  PROVE  MemoryLagsInRunOnly'
<1>. USE DEF MemoryLagsInRunOnly
<1>1. ASSUME NEW j \in Jobs, Register(j) PROVE MemoryLagsInRunOnly'
  <2>1. recorded[j] <= recorded[j]
    BY PeriodAssumption DEF Shapes, Ages, Never
  <2>. QED
    BY <1>1, <2>1 DEF Register, closures, Outstanding, Shapes
<1>2. ASSUME NEW j \in Jobs, NEW r \in Runs, Claim(j, r) PROVE MemoryLagsInRunOnly'
  BY <1>2, ClaimEffect
<1>3. ASSUME NEW r \in Runs, RunRecorded(r) PROVE MemoryLagsInRunOnly'
  <2>1. r \in Outstanding' /\ job'[r] = job[r] /\ at'[r] = "store" /\ job[r] \in Jobs
    BY <1>3, InsideEffect DEF Inside, RunRecorded, Advance, Shapes, ClosuresHaveJobs
  <2>2. \A j \in Jobs : j # job[r] => recorded'[j] = recorded[j]
    BY <1>3 DEF RunRecorded, Shapes
  <2>3. \A s \in Outstanding : s # r => s \in Outstanding' /\ at'[s] = at[s]
    BY <1>3, InsideEffect DEF Inside, RunRecorded, Advance, Shapes, Outstanding
  <2>. QED
    BY <1>3, <2>1, <2>2, <2>3 DEF RunRecorded, Advance, memory, Shapes
<1>4. ASSUME NEW r \in Runs, StoreLastRun(r) PROVE MemoryLagsInRunOnly'
  <2>1. /\ Outstanding' = Outstanding /\ UNCHANGED <<recorded, registered, job>>
        /\ r \in Outstanding /\ job[r] \in Jobs
    BY <1>4, InsideEffect DEF Inside, StoreLastRun, ClosuresHaveJobs
  <2>2. /\ lastRun'[job[r]] = 0
        /\ \A j \in Jobs : j # job[r] => lastRun'[j] = lastRun[j]
    BY <1>4, <2>1 DEF StoreLastRun, Shapes
  <2>3. \A s \in Outstanding : s # r => at'[s] = at[s]
    BY <1>4 DEF StoreLastRun, Advance, Outstanding, Shapes
  <2>4. 0 <= recorded[job[r]]
    BY <2>1, PeriodAssumption DEF Shapes, Ages, Never
  <2>. QED
    BY <2>1, <2>2, <2>3, <2>4 DEF Shapes
<1>5. ASSUME NEW r \in Runs, AnnounceStart(r) \/ RunUnrecorded(r) \/ AnnounceEnd(r)
      PROVE  MemoryLagsInRunOnly'
  <2>1. /\ Outstanding' = Outstanding
        /\ UNCHANGED <<recorded, registered, lastRun, job>>
    BY <1>5, InsideEffect
       DEF Inside, AnnounceStart, RunUnrecorded, AnnounceEnd, memory
  <2>2. \A s \in Outstanding : at[s] = "store" => at'[s] = "store"
    BY <1>5 DEF AnnounceStart, RunUnrecorded, AnnounceEnd, Advance, Shapes, Outstanding
  <2>. QED
    BY <2>1, <2>2
<1>6. ASSUME NEW r \in Runs, Release(r) PROVE MemoryLagsInRunOnly'
  <2>1. \A s \in Outstanding : at[s] = "store" =>
          s \in Outstanding' /\ at'[s] = "store" /\ job'[s] = job[s]
    BY <1>6, ReleaseEffect
  <2>. QED
    BY <1>6, <2>1, ReleaseEffect
<1>7. ASSUME NEW r \in Runs, Admit(r) \/ Start(r) PROVE MemoryLagsInRunOnly'
  BY <1>7, AdmitStartEffect
<1>8. CASE TimePasses
  <2>1. \A j \in registered : lastRun[j] <= recorded[j] => lastRun'[j] <= recorded'[j]
    BY <1>8, OlderMonotone DEF TimePasses, Shapes
  <2>. QED
    BY <1>8, <2>1 DEF TimePasses, Outstanding
<1>9. CASE Crash
  BY <1>9 DEF Crash
<1>10. CASE Elsewhere
  BY <1>10 DEF Elsewhere, Outstanding
<1>. QED
  BY <1>1, <1>2, <1>3, <1>4, <1>5, <1>6, <1>7, <1>8, <1>9, <1>10, Cases DEF Inside

LEMMA InspectsStep ==
  ASSUME InspectsRegistered, [JobsNext]_jobsVars
  PROVE  InspectsRegistered'
BY DEF InspectsRegistered, JobsNext, SchedulerStep, TickBegins, InspectEnds, TickEnds,
   Inspect, InspectRunning, InspectLastRun, TickClaims, TickSkips, Register, ForceRun, Claim, Admit, ClosureStep, Start,
   AnnounceStart, RunRecorded, RunUnrecorded, StoreLastRun, AnnounceEnd, Release,
   TimePasses, Crash, jobsVars, memory, scheduler

-----------------------------------------------------------------------------
(* What the callback was told. *)

LEMMA AnnouncedStep ==
  ASSUME Shapes, ClosuresHaveJobs, OneRunAtATime, AnnouncedOnlyWhileRunning,
         RetractedBeforeRelease, [JobsNext]_jobsVars
  PROVE  AnnouncedOnlyWhileRunning' /\ RetractedBeforeRelease'
<1>. USE DEF AnnouncedOnlyWhileRunning, RetractedBeforeRelease
<1>1. ASSUME NEW j \in Jobs, NEW r \in Runs, Claim(j, r)
      PROVE  AnnouncedOnlyWhileRunning' /\ RetractedBeforeRelease'
  <2>1. j \notin announced
    BY <1>1, ClaimEffect
  <2>2. announced' = announced
    BY <1>1 DEF Claim
  <2>. QED
    BY <1>1, <2>1, <2>2, ClaimEffect
<1>2. ASSUME NEW r \in Runs, Release(r)
      PROVE  AnnouncedOnlyWhileRunning' /\ RetractedBeforeRelease'
  <2>1. announced' = announced
    BY <1>2 DEF Release
  <2>2. job[r] \notin announced
    BY <1>2, ReleaseEffect
  <2>. QED
    BY <1>2, <2>1, <2>2, ReleaseEffect
<1>3. ASSUME NEW r \in Runs, AnnounceStart(r) \/ AnnounceEnd(r)
      PROVE  AnnouncedOnlyWhileRunning' /\ RetractedBeforeRelease'
  <2>1. /\ r \in Outstanding /\ Outstanding' = Outstanding
        /\ UNCHANGED <<running, job>> /\ job[r] \in running
    BY <1>3, InsideEffect DEF Inside, ClosuresHaveJobs, OneRunAtATime
  <2>2. /\ \A s \in Outstanding \ {r} : at'[s] = at[s] /\ job[s] # job[r]
        /\ at'[r] \in {"run", "release"}
    BY <1>3, <2>1 DEF AnnounceStart, AnnounceEnd, Advance, OneRunAtATime, Outstanding, Shapes
  <2>3. CASE AnnounceStart(r)
    <3>1. announced' = announced \cup {job[r]} /\ at'[r] = "run"
      BY <2>1, <2>3 DEF AnnounceStart, Advance, Outstanding, Shapes
    <3>. QED
      BY <2>1, <2>2, <3>1
  <2>4. CASE AnnounceEnd(r)
    <3>1. announced' = announced \ {job[r]} /\ at'[r] = "release"
      BY <2>1, <2>4 DEF AnnounceEnd, Advance, Outstanding, Shapes
    <3>. QED
      BY <2>1, <2>2, <3>1
  <2>. QED
    BY <1>3, <2>3, <2>4
<1>4. ASSUME NEW r \in Runs, RunRecorded(r) \/ RunUnrecorded(r) \/ StoreLastRun(r)
      PROVE  AnnouncedOnlyWhileRunning' /\ RetractedBeforeRelease'
  <2>1. /\ Outstanding' = Outstanding /\ UNCHANGED <<running, job, announced>>
    BY <1>4, InsideEffect DEF Inside, RunRecorded, RunUnrecorded, StoreLastRun, memory
  <2>2. \A s \in Outstanding : at'[s] \in {"announce", "release"} => at'[s] = at[s]
    BY <1>4 DEF RunRecorded, RunUnrecorded, StoreLastRun, Advance, Outstanding, Shapes
  <2>. QED
    BY <2>1, <2>2
<1>5. ASSUME Outstanding' = Outstanding, UNCHANGED <<running, job, at, announced>>
      PROVE  AnnouncedOnlyWhileRunning' /\ RetractedBeforeRelease'
  BY <1>5
<1>6. ASSUME \/ TickBegins \/ InspectEnds \/ TickEnds \/ TimePasses \/ UNCHANGED jobsVars
             \/ \E j \in Jobs : Inspect(j) \/ TickSkips(j)
      PROVE  Outstanding' = Outstanding /\ UNCHANGED <<running, job, at, announced>>
  BY <1>6 DEF TickBegins, InspectEnds, TickEnds, TimePasses, Inspect, InspectRunning,
     InspectLastRun, TickSkips, jobsVars, closures, memory, Outstanding
<1>7. CASE Crash
  BY <1>7 DEF Crash, Outstanding
<1>8. CASE \E j \in Jobs, r \in Runs : Claim(j, r)
  BY <1>1, <1>8
<1>9. CASE \E r \in Runs : ClosureStep(r) \/ Admit(r)
  <2>1. PICK r \in Runs : ClosureStep(r) \/ Admit(r)
    BY <1>9
  <2>2. CASE Start(r) \/ Admit(r)
    BY <2>2, <1>5, AdmitStartEffect DEF Start, Admit, memory
  <2>. QED
    BY <1>2, <1>3, <1>4, <2>1, <2>2 DEF ClosureStep
<1>10. CASE \E j \in Jobs : Register(j)
  BY <1>5, <1>10 DEF Register, closures, Outstanding
<1>. QED
  BY <1>5, <1>6, <1>7, <1>8, <1>9, <1>10
     DEF JobsNext, SchedulerStep, ForceRun, TickClaims

-----------------------------------------------------------------------------
LEMMA JobsInductive == JobsSpec => []JobsIInv
<1>1. JobsInit => JobsIInv
  <2>. SUFFICES ASSUME JobsInit PROVE JobsIInv
    OBVIOUS
  <2>1. Outstanding = {} /\ Pool!InStatus("queued") = {}
    BY DEF JobsInit, Outstanding, Pool!InStatus
  <2>2. WithinCapacity
    BY <2>1, FS_EmptySet, PoolAssumption DEF WithinCapacity
  <2>. QED
    BY <2>1, <2>2, PeriodAssumption DEF JobsInit, JobsIInv, Shapes, Ages, Never, Places,
       ClosuresHaveJobs, OneRunAtATime, MemoryLagsInRunOnly, InspectsRegistered,
       AnnouncedOnlyWhileRunning, RetractedBeforeRelease
<1>2. JobsIInv /\ [JobsNext]_jobsVars => JobsIInv'
  BY ShapesStep, CapacityStep, OneRunStep, MemoryStep, InspectsStep, AnnouncedStep DEF JobsIInv
<1>. QED
  BY <1>1, <1>2, PTL DEF JobsSpec

\* Type correctness of JobQueue.
THEOREM JobsTypeCorrect == JobsSpec => []JobsTypeOK
BY JobsInductive, PTL DEF JobsIInv, JobsTypeOK

\* No job has two closures outstanding, and qj.running is exact, for any
\* interleaving of ForceRun, tick and workers (runIfNotRunning).
THEOREM JobsRunOneAtATime == JobsSpec => []OneRunAtATime
BY JobsInductive, PTL DEF JobsIInv

\* A job that is not running has an in-memory time at least as recent as the
\* one global.job_runs would give a restarted process.
THEOREM MemoryIsRecent == JobsSpec => []MemoryAtLeastAsRecent
<1>1. JobsIInv => MemoryAtLeastAsRecent
  BY DEF JobsIInv, Shapes, OneRunAtATime, MemoryLagsInRunOnly, MemoryAtLeastAsRecent
<1>. QED
  BY <1>1, JobsInductive, PTL

\* "Running" is announced only while the job runs, never twice in a row, and
\* taken back before the closure lets the job go (progressws callback).
THEOREM AnnouncementsAgree == JobsSpec => []AnnouncedOnlyWhileRunning
BY JobsInductive, PTL DEF JobsIInv

\* tick collects only jobs whose recorded success is a period old, or of which
\* a run that was claimed between the two loads of isDue is about to be stored.
THEOREM TickCollectsDueJobs == JobsSpec => CollectedWhenDue
<1>1. ASSUME JobsIInv, JobsNext, NEW j \in Jobs, j \in due' \ due
      PROVE  recorded[j] >= RunEvery[j] \/ Storing(j)
  <2>1. seen = j /\ lastRun[j] >= RunEvery[j]
    BY <1>1 DEF JobsNext, SchedulerStep, TickBegins, InspectEnds, TickEnds, Inspect,
       InspectRunning, InspectLastRun, TickClaims, TickSkips, Register, ForceRun, Claim, Admit, ClosureStep, Start,
       AnnounceStart, RunRecorded, RunUnrecorded, StoreLastRun, AnnounceEnd, Release,
       TimePasses, Crash, scheduler
  <2>2. j \in registered
    BY <1>1, <2>1, RunsAssumption DEF JobsIInv, InspectsRegistered
  <2>3. lastRun[j] <= recorded[j] \/ Storing(j)
    BY <1>1, <2>2 DEF JobsIInv, MemoryLagsInRunOnly, Storing
  <2>. QED
    BY <1>1, <2>1, <2>3, PeriodAssumption DEF JobsIInv, Shapes, Ages, Never
<1>2. JobsIInv /\ [JobsNext]_jobsVars
        => [\A j \in Jobs : j \in due' \ due => recorded[j] >= RunEvery[j] \/ Storing(j)]_jobsVars
  BY <1>1
<1>. QED
  BY <1>2, JobsInductive, PTL DEF JobsSpec, CollectedWhenDue
=============================================================================
