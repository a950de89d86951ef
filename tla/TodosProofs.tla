---------------------------- MODULE TodosProofs ----------------------------
(***************************************************************************)
(* Proofs about Todos, for any requests, priorities and number of tasks:   *)
(* what happens to the order, to a recurring series and to archived tasks. *)
(***************************************************************************)
EXTENDS Todos, TLAPS

-----------------------------------------------------------------------------
(* Types. *)

\* Every id that is remembered somewhere was given.
TypeInv ==
  /\ TypeOK
  /\ job = "idle" => listed = {}

Task == [status : Statuses, order : Nat, priority : Priorities, recurs : BOOLEAN]

LEMMA TypeInitially ==
  ASSUME Init
  PROVE  TypeInv
<1>1. used \in 0 .. StartTasks /\ used \in 0 .. MaxTasks
  BY MaxTasksAssumption DEF Init
<1>2. DOMAIN tasks = 1 .. used /\ tasks \in [1 .. used -> Task]
  BY PrioritiesAssumption DEF Init, Task, Statuses
<1>. QED
  BY <1>1, <1>2, PrioritiesAssumption DEF Init, TypeInv, TypeOK, Draft, NoDraft, Task


LEMMA EndsTyped ==
  ASSUME TypeInv, NEW r \in Requests, NEW from, NEW result \in {"done", "failed"},
         Ends(r, from, result)
  PROVE  /\ at' \in [Requests -> {"new", "max", "shift", "insert", "set", "reorder", "done",
                                 "failed"}]
         /\ of' \in [Requests -> 0 .. used] /\ draft' \in [Requests -> Draft]
         /\ pos' \in [Requests -> Nat] /\ DOMAIN ids' = Requests
         /\ \A q \in Requests : \A i \in DOMAIN ids'[q] : ids'[q][i] \in 1 .. used
<1>. USE DEF TypeInv, TypeOK, Ends, Goes
<1>1. NoDraft \in Draft
  BY PrioritiesAssumption DEF NoDraft, Draft
<1>2. at' \in [Requests -> {"new", "max", "shift", "insert", "set", "reorder", "done", "failed"}]
  OBVIOUS
<1>3. of' \in [Requests -> 0 .. used] /\ pos' \in [Requests -> Nat]
  OBVIOUS
<1>4. draft' \in [Requests -> Draft]
  BY <1>1
<1>5. DOMAIN ids' = Requests /\ DOMAIN <<>> = {}
  OBVIOUS
<1>6. \A q \in Requests : ids'[q] = IF q = r THEN <<>> ELSE ids[q]
  OBVIOUS
<1>. QED
  BY <1>2, <1>3, <1>4, <1>5, <1>6

LEMMA TypeStep ==
  ASSUME TypeInv, [Next]_vars
  PROVE  TypeInv'
<1>. USE PrioritiesAssumption, MaxTasksAssumption DEF request, archive,
     history, Goes, TypeInv, TypeOK, Draft, NoDraft, Statuses, Task, Open
<1>0. CASE UNCHANGED vars
  BY <1>0 DEF vars
<1>1. ASSUME NEW r \in Requests, Create(r) PROVE TypeInv'
  BY <1>1 DEF Create
<1>2. ASSUME NEW r \in Requests, MaxSortOrderForEffPriority(r) PROVE TypeInv'
  <2>1. PICK place \in PlacesAfterPeers(draft[r].priority) : pos' = [pos EXCEPT ![r] = place]
    BY <1>2, ZenonT(30) DEF MaxSortOrderForEffPriority
  <2>2. place \in Nat
    BY <2>1 DEF PlacesAfterPeers, Task
  <2>. QED
    BY <1>2, <2>1, <2>2 DEF MaxSortOrderForEffPriority
<1>3. ASSUME NEW r \in Requests, ShiftSortOrdersAfter(r) PROVE TypeInv'
  <2>1. /\ at' = [at EXCEPT ![r] = "insert"] /\ UNCHANGED <<used, of, draft, pos, ids, archive>>
        /\ tasks' = [t \in DOMAIN tasks |->
                       IF t \in Open /\ tasks[t].order >= pos[r]
                       THEN [tasks[t] EXCEPT !.order = @ + 1] ELSE tasks[t]]
    BY <1>3 DEF ShiftSortOrdersAfter
  <2>2. ASSUME NEW t \in DOMAIN tasks PROVE [tasks[t] EXCEPT !.order = @ + 1] \in Task
    BY <2>2
  <2>3. tasks' \in [DOMAIN tasks -> Task]
    BY <2>1, <2>2
  <2>. QED
    BY <2>1, <2>3
<1>4. ASSUME NEW r \in Requests, InsertTask(r) PROVE TypeInv'
  <2>1. [status |-> "open", order |-> pos[r], priority |-> draft[r].priority,
         recurs |-> draft[r].recurs] \in Task
    BY DEF Task
  <2>2. tasks' \in [DOMAIN tasks' -> Task] /\ DOMAIN tasks' \subseteq 1 .. used' /\ used' = used + 1
    BY <1>4, <2>1 DEF InsertTask
  <2>3. Ends(r, "insert", "done") /\ UNCHANGED archive
    BY <1>4 DEF InsertTask, Returns
  <2>4. listed' \subseteq 1 .. used' /\ used' \in 0 .. MaxTasks /\ 0 .. used \subseteq 0 .. used'
        /\ 1 .. used \subseteq 1 .. used'
    BY <1>4 DEF InsertTask
  <2>5. /\ at' \in [Requests -> {"new", "max", "shift", "insert", "set", "reorder", "done", "failed"}]
        /\ of' \in [Requests -> 0 .. used] /\ draft' \in [Requests -> Draft]
        /\ pos' \in [Requests -> Nat] /\ DOMAIN ids' = Requests
        /\ \A q \in Requests : \A i \in DOMAIN ids'[q] : ids'[q][i] \in 1 .. used
    BY <2>3, EndsTyped
  <2>6. of' \in [Requests -> 0 .. used']
    BY <2>4, <2>5
  <2>. QED
    BY <2>2, <2>3, <2>4, <2>5, <2>6
<1>5. ASSUME NEW r \in Requests, GetByID(r) PROVE TypeInv'
  BY <1>5 DEF GetByID
<1>6. ASSUME NEW r \in Requests, SetStatusDone(r) PROVE TypeInv'
  <2>1. tasks' \in [DOMAIN tasks' -> Task] /\ DOMAIN tasks' \subseteq 1 .. used'
    BY <1>6 DEF SetStatusDone, Updates, Exists, Task
  <2>2. CASE draft[r].recurs
    BY <1>6, <2>1, <2>2 DEF SetStatusDone, Returns, Ends
  <2>3. CASE ~draft[r].recurs
    <3>1. Ends(r, "set", "done") /\ UNCHANGED <<used, archive>>
      BY <1>6, <2>3 DEF SetStatusDone, Returns
    <3>. QED
      BY <2>1, <3>1, EndsTyped
  <2>. QED
    BY <2>2, <2>3
<1>7. ASSUME NEW r \in Requests, Reopen(r) PROVE TypeInv'
  <2>1. tasks' \in [DOMAIN tasks' -> Task] /\ DOMAIN tasks' \subseteq 1 .. used'
    BY <1>7 DEF Reopen, Task
  <2>. QED
    BY <1>7, <2>1 DEF Reopen, Task
<1>8. ASSUME NEW r \in Requests, Update(r) PROVE TypeInv'
  <2>1. tasks' \in [DOMAIN tasks' -> Task] /\ DOMAIN tasks' \subseteq 1 .. used'
    BY <1>8, SMTT(30) DEF Update, Task
  <2>. QED
    BY <1>8, <2>1 DEF Update, Task
<1>9. ASSUME NEW r \in Requests, Delete(r) PROVE TypeInv'
  <2>1. tasks' \in [DOMAIN tasks' -> Task] /\ DOMAIN tasks' \subseteq 1 .. used'
    BY <1>9 DEF Delete
  <2>. QED
    BY <1>9, <2>1 DEF Delete
<1>10. ASSUME NEW r \in Requests, Reorder(r) PROVE TypeInv'
  <2>1. PICK n \in 0 .. MaxListed : \E list \in [1 .. n -> 1 .. used] :
          ids' = [ids EXCEPT ![r] = list]
    BY <1>10 DEF Reorder
  <2>2. PICK list \in [1 .. n -> 1 .. used] : ids' = [ids EXCEPT ![r] = list]
    BY <2>1
  <2>3. \A q \in Requests : \A i \in DOMAIN ids'[q] : ids'[q][i] \in 1 .. used
    BY <2>2
  <2>. QED
    BY <1>10, <2>2, <2>3 DEF Reorder
<1>11. ASSUME NEW r \in Requests, ReorderOne(r) PROVE TypeInv'
  <2>1. CASE pos[r] + 1 \in DOMAIN ids[r]
    <3>1. /\ at' = [at EXCEPT ![r] = "reorder"] /\ pos' = [pos EXCEPT ![r] = pos[r] + 1]
          /\ UNCHANGED <<of, draft, ids, used, archive>>
          /\ tasks' = IF ids[r][pos[r] + 1] \in Open
                        THEN [tasks EXCEPT ![ids[r][pos[r] + 1]].order = pos[r]] ELSE tasks
      BY <1>11, <2>1 DEF ReorderOne
    <3>2. pos[r] \in Nat
      OBVIOUS
    <3>3. ASSUME NEW t \in DOMAIN tasks
          PROVE  [tasks EXCEPT ![t].order = pos[r]] \in [DOMAIN tasks -> Task]
      BY <3>2
    <3>4. tasks' \in [DOMAIN tasks -> Task]
      BY <3>1, <3>3
    <3>. QED
      BY <3>1, <3>4
  <2>2. CASE pos[r] + 1 \notin DOMAIN ids[r]
    <3>1. Ends(r, "reorder", "done") /\ UNCHANGED <<tasks, used, archive>>
      BY <1>11, <2>2 DEF ReorderOne, Returns
    <3>. QED
      BY <3>1, EndsTyped
  <2>. QED
    BY <2>1, <2>2
<1>12. ASSUME NEW r \in Requests, Fails(r) PROVE TypeInv'
  <2>1. Ends(r, at[r], "failed") /\ UNCHANGED <<tasks, used, archive>>
    BY <1>12 DEF Fails
  <2>. QED
    BY <2>1, EndsTyped
<1>13. ASSUME NEW t \in Ids, Expire(t) PROVE TypeInv'
  <2>1. tasks' \in [DOMAIN tasks' -> Task] /\ DOMAIN tasks' \subseteq 1 .. used'
    BY <1>13 DEF Expire, Exists, Task
  <2>. QED
    BY <1>13, <2>1 DEF Expire, Exists, Task
<1>14. CASE ListDoneForArchiving
  BY <1>14 DEF ListDoneForArchiving
<1>15. CASE ArchiveBatch
  <2>1. tasks' \in [DOMAIN tasks' -> Task] /\ DOMAIN tasks' \subseteq 1 .. used'
    BY <1>15 DEF ArchiveBatch, Task
  <2>. QED
    BY <1>15, <2>1 DEF ArchiveBatch, Task
<1>16. CASE JobFails
  BY <1>16 DEF JobFails
<1>17. \/ UNCHANGED vars \/ \E r \in Requests : Acts(r)
       \/ \E t \in Ids : Expire(t)
       \/ ListDoneForArchiving \/ ArchiveBatch \/ JobFails
  BY ZenonT(30) DEF Next
<1>. QED BY <1>17, <1>0, <1>1, <1>2, <1>3, <1>4, <1>5, <1>6, <1>7, <1>8, <1>9,
     <1>10, <1>11, <1>12, <1>13, <1>14, <1>15, <1>16 DEF Acts, Proceeds

-----------------------------------------------------------------------------
(* The archive job. *)

\* One UPDATE of a reorder changes an order and nothing else.
LEMMA ReorderRows ==
  ASSUME TypeInv, NEW r \in Requests, ReorderOne(r)
  PROVE  /\ DOMAIN tasks' = DOMAIN tasks
         /\ \A t \in DOMAIN tasks :
              tasks'[t].status = tasks[t].status /\ tasks'[t].recurs = tasks[t].recurs
<1>. USE DEF TypeInv, TypeOK
<1>1. CASE tasks' = tasks
  BY <1>1
<1>2. ASSUME NEW s \in DOMAIN tasks, tasks' = [tasks EXCEPT ![s].order = pos[r]]
      PROVE  /\ DOMAIN tasks' = DOMAIN tasks
             /\ \A t \in DOMAIN tasks :
                  tasks'[t].status = tasks[t].status /\ tasks'[t].recurs = tasks[t].recurs
  BY <1>2
<1>. QED
  BY <1>1, <1>2 DEF ReorderOne, Open

\* A task on the job's list that is open again was reopened since.
ArchiveInv ==
  \A t \in listed : t \in DOMAIN tasks /\ tasks[t].status = "open" => t \in reopened

LEMMA ArchiveStep ==
  ASSUME TypeInv, ArchiveInv, [Next]_vars
  PROVE  ArchiveInv'
<1>. USE PrioritiesAssumption, MaxTasksAssumption DEF request, archive,
     history, Goes, ArchiveInv, TypeInv, TypeOK, Draft, NoDraft, Statuses,
     Task, Open
<1>0. CASE UNCHANGED vars
  BY <1>0 DEF vars
<1>1. ASSUME NEW r \in Requests, Create(r) PROVE ArchiveInv'
  BY <1>1 DEF Create
<1>2. ASSUME NEW r \in Requests, MaxSortOrderForEffPriority(r) PROVE ArchiveInv'
  BY <1>2 DEF MaxSortOrderForEffPriority
<1>3. ASSUME NEW r \in Requests, ShiftSortOrdersAfter(r) PROVE ArchiveInv'
  BY <1>3 DEF ShiftSortOrdersAfter
<1>4. ASSUME NEW r \in Requests, InsertTask(r) PROVE ArchiveInv'
  BY <1>4 DEF InsertTask, Returns, Ends
<1>5. ASSUME NEW r \in Requests, GetByID(r) PROVE ArchiveInv'
  BY <1>5 DEF GetByID
<1>6. ASSUME NEW r \in Requests, SetStatusDone(r) PROVE ArchiveInv'
  BY <1>6 DEF SetStatusDone, Returns, Ends, Updates, Exists
<1>7. ASSUME NEW r \in Requests, Reopen(r) PROVE ArchiveInv'
  BY <1>7 DEF Reopen
<1>8. ASSUME NEW r \in Requests, Update(r) PROVE ArchiveInv'
  BY <1>8 DEF Update
<1>9. ASSUME NEW r \in Requests, Delete(r) PROVE ArchiveInv'
  BY <1>9 DEF Delete
<1>10. ASSUME NEW r \in Requests, Reorder(r) PROVE ArchiveInv'
  BY <1>10 DEF Reorder
<1>11. ASSUME NEW r \in Requests, ReorderOne(r) PROVE ArchiveInv'
  BY <1>11, ReorderRows DEF ReorderOne
<1>12. ASSUME NEW r \in Requests, Fails(r) PROVE ArchiveInv'
  BY <1>12 DEF Fails, Ends
<1>13. ASSUME NEW t \in Ids, Expire(t) PROVE ArchiveInv'
  BY <1>13 DEF Expire, Exists
<1>14. CASE ListDoneForArchiving
  BY <1>14 DEF ListDoneForArchiving
<1>15. CASE ArchiveBatch
  BY <1>15 DEF ArchiveBatch
<1>16. CASE JobFails
  BY <1>16 DEF JobFails
<1>17. \/ UNCHANGED vars \/ \E r \in Requests : Acts(r)
       \/ \E t \in Ids : Expire(t)
       \/ ListDoneForArchiving \/ ArchiveBatch \/ JobFails
  BY ZenonT(30) DEF Next
<1>. QED BY <1>17, <1>0, <1>1, <1>2, <1>3, <1>4, <1>5, <1>6, <1>7, <1>8, <1>9,
     <1>10, <1>11, <1>12, <1>13, <1>14, <1>15, <1>16 DEF Acts, Proceeds

LEMMA ArchivedStep ==
  ASSUME TypeInv, ArchiveInv, [Next]_vars, NEW t \in DOMAIN tasks, Exists(t)',
         tasks[t].status = "open", tasks'[t].status = "archived"
  PROVE  t \in reopened
<1>. USE DEF Exists, TypeInv, TypeOK
<1>1. CASE ArchiveBatch
  BY <1>1 DEF ArchiveBatch, ArchiveInv
<1>2. ASSUME NEW r \in Requests, Acts(r) PROVE tasks'[t].status # "archived"
  <2>1. CASE tasks' = tasks
    BY <2>1
  <2>2. CASE ShiftSortOrdersAfter(r) \/ InsertTask(r)
    BY <2>2 DEF ShiftSortOrdersAfter, InsertTask
  <2>3. CASE SetStatusDone(r)
    BY <2>3 DEF SetStatusDone, Updates
  <2>4. CASE ReorderOne(r)
    BY <2>4, ReorderRows
  <2>5. CASE Reopen(r)
    BY <2>5 DEF Reopen
  <2>6. CASE Update(r)
    BY <2>6 DEF Update
  <2>7. CASE Delete(r)
    BY <2>7 DEF Delete
  <2>. QED
    BY <1>2, <2>1, <2>2, <2>3, <2>4, <2>5, <2>6, <2>7
       DEF Acts, Proceeds, Create, MaxSortOrderForEffPriority, GetByID, Reorder, Fails
<1>3. CASE UNCHANGED vars \/ ListDoneForArchiving \/ JobFails \/ \E s \in Ids : Expire(s)
  BY <1>3 DEF vars, ListDoneForArchiving, JobFails, Expire
<1>. QED
  BY <1>1, <1>2, <1>3 DEF Next

-----------------------------------------------------------------------------
(* The order. *)

\* Of two tasks that stay open the first stays first.
Kept == \A s, t \in Open \cap Open' : Before(s, t) => Before(s, t)'

LEMMA OrdersKept ==
  ASSUME TypeInv,
         \A t \in DOMAIN tasks : t \in DOMAIN tasks' => tasks'[t].order = tasks[t].order
  PROVE  Kept
BY DEF Kept, Open, Before

\* Making room moves a suffix of the list by one.
LEMMA RoomMade ==
  ASSUME TypeInv, NEW r \in Requests, ShiftSortOrdersAfter(r)
  PROVE  Kept
<1>. USE DEF TypeInv, TypeOK, Open, Before
<1>1. pos[r] \in Nat /\ \A t \in DOMAIN tasks : tasks[t].order \in Nat
  OBVIOUS
<1>2. ASSUME NEW t \in Open
      PROVE  tasks'[t].order = IF tasks[t].order >= pos[r] THEN tasks[t].order + 1 ELSE tasks[t].order
  BY <1>1, <1>2 DEF ShiftSortOrdersAfter
<1>. QED
  BY <1>1, <1>2 DEF Kept

LEMMA OrderStep ==
  ASSUME TypeInv, [Next]_vars
  PROVE  Kept \/ \E r \in Requests : ReorderOne(r)
<1>. USE DEF TypeInv, TypeOK
<1>1. ASSUME NEW r \in Requests, Acts(r) PROVE Kept \/ ReorderOne(r)
  <2>1. CASE tasks' = tasks
    BY <2>1, OrdersKept
  <2>2. ASSUME InsertTask(r) PROVE Kept
    <3>1. \A t \in DOMAIN tasks : tasks'[t] = tasks[t]
      BY <2>2 DEF InsertTask
    <3>. QED
      BY <3>1, OrdersKept
  <2>3. ASSUME Delete(r) PROVE Kept
    <3>1. \A t \in DOMAIN tasks : t \in DOMAIN tasks' => tasks'[t] = tasks[t]
      BY <2>3 DEF Delete
    <3>. QED
      BY <3>1, OrdersKept
  <2>4. ASSUME SetStatusDone(r) PROVE Kept
    <3>1. \A t \in DOMAIN tasks : tasks'[t].order = tasks[t].order
      BY <2>4 DEF SetStatusDone, Updates
    <3>. QED
      BY <3>1, OrdersKept
  <2>5. ASSUME Reopen(r) PROVE Kept
    <3>1. \A t \in DOMAIN tasks : tasks'[t].order = tasks[t].order
      BY <2>5 DEF Reopen
    <3>. QED
      BY <3>1, OrdersKept
  <2>6. ASSUME Update(r) PROVE Kept
    <3>1. \A t \in DOMAIN tasks : tasks'[t].order = tasks[t].order
      BY <2>6 DEF Update
    <3>. QED
      BY <3>1, OrdersKept
  <2>. QED
    BY <1>1, <2>1, <2>2, <2>3, <2>4, <2>5, <2>6, RoomMade
       DEF Acts, Proceeds, Create, MaxSortOrderForEffPriority, GetByID, Reorder, Fails
<1>2. CASE UNCHANGED vars \/ ListDoneForArchiving \/ JobFails
  BY <1>2, OrdersKept DEF vars, ListDoneForArchiving, JobFails
<1>3. CASE ArchiveBatch \/ \E s \in Ids : Expire(s)
  BY <1>3, OrdersKept DEF ArchiveBatch, Expire
<1>. QED
  BY <1>1, <1>2, <1>3 DEF Next

-----------------------------------------------------------------------------
(* Recurring tasks. *)

GoesOn(t) == tasks[t].recurs => t \in succeeded \cup faulty \cup late \/ Completing(t)

\* The series of a listed task goes on even if the task is open again, and a
\* completion under way knows that its task recurs, unless it came to late.
SeriesInv ==
  /\ \A t \in DOMAIN tasks : t \notin Open \/ t \in listed => GoesOn(t)
  /\ \A r \in Requests :
       /\ at[r] = "reorder" => of[r] = 0
       /\ ~InFlight(r) => of[r] = 0
       /\ InFlight(r) /\ of[r] \in DOMAIN tasks /\ of[r] \notin late
            => (tasks[of[r]].recurs => draft[r].recurs)

LEMMA SeriesStep ==
  ASSUME TypeInv, SeriesInv, [Next]_vars
  PROVE  SeriesInv'
<1>. USE PrioritiesAssumption, MaxTasksAssumption DEF request, archive,
     history, Goes, SeriesInv, GoesOn, Completing, InFlight, TypeInv, TypeOK,
     Draft, NoDraft, Statuses, Task, Open
<1>0. CASE UNCHANGED vars
  BY <1>0 DEF vars
<1>1. ASSUME NEW r \in Requests, Create(r) PROVE SeriesInv'
  BY <1>1 DEF Create
<1>2. ASSUME NEW r \in Requests, MaxSortOrderForEffPriority(r) PROVE SeriesInv'
  BY <1>2 DEF MaxSortOrderForEffPriority
<1>3. ASSUME NEW r \in Requests, ShiftSortOrdersAfter(r) PROVE SeriesInv'
  BY <1>3 DEF ShiftSortOrdersAfter
<1>4. ASSUME NEW r \in Requests, InsertTask(r) PROVE SeriesInv'
  BY <1>4 DEF InsertTask, Returns, Ends
<1>5. ASSUME NEW r \in Requests, GetByID(r) PROVE SeriesInv'
  BY <1>5 DEF GetByID
<1>6. ASSUME NEW r \in Requests, SetStatusDone(r) PROVE SeriesInv'
  <2>1. /\ DOMAIN tasks' = DOMAIN tasks /\ at[r] = "set" /\ InFlight(r)
        /\ \A t \in DOMAIN tasks :
             /\ tasks'[t].recurs = tasks[t].recurs
             /\ t # of[r] => tasks'[t] = tasks[t]
        /\ UNCHANGED <<listed, faulty, late, succeeded>>
    BY <1>6 DEF SetStatusDone, Returns, Ends, Updates, Exists
  <2>2. CASE draft[r].recurs
    <3>1. UNCHANGED <<of, draft>> /\ at'[r] = "max" /\ \A q \in Requests \ {r} : at'[q] = at[q]
      BY <1>6, <2>2 DEF SetStatusDone
    <3>2. \A q \in Requests : InFlight(q)' <=> InFlight(q)
      BY <2>1, <3>1
    <3>3. \A t \in DOMAIN tasks : t # of[r] => (GoesOn(t) => GoesOn(t)')
      BY <2>1, <3>1, <3>2
    <3>4. of[r] \in DOMAIN tasks => GoesOn(of[r])'
      BY <2>1, <3>1, <3>2
    <3>. QED
      BY <2>1, <3>1, <3>2, <3>3, <3>4
  <2>3. CASE ~draft[r].recurs
    <3>1. /\ of'[r] = 0 /\ at'[r] = "done"
          /\ \A q \in Requests \ {r} : of'[q] = of[q] /\ at'[q] = at[q] /\ draft'[q] = draft[q]
      BY <1>6, <2>3 DEF SetStatusDone, Returns, Ends
    <3>2. \A t \in DOMAIN tasks : t # of[r] => (GoesOn(t) => GoesOn(t)')
      BY <2>1, <3>1
    <3>3. ASSUME of[r] \in DOMAIN tasks, of[r] \notin late
          PROVE  tasks'[of[r]].recurs = FALSE
      <4>1. tasks[of[r]].recurs \in BOOLEAN /\ (tasks[of[r]].recurs => draft[r].recurs)
        BY <2>1, <3>3
      <4>. QED
        BY <2>1, <2>3, <3>3, <4>1
    <3>4. \A t \in DOMAIN tasks : t = of[r] => GoesOn(t)'
      BY <2>1, <3>3
    <3>5. \A q \in Requests :
            InFlight(q)' /\ of'[q] \in DOMAIN tasks /\ of'[q] \notin late
              => (tasks'[of'[q]].recurs => draft'[q].recurs)
      BY <2>1, <3>1
    <3>6. \A t \in DOMAIN tasks : t # of[r] => (t \in Open' <=> t \in Open)
      BY <2>1
    <3>7. \A q \in Requests :
            (at'[q] = "reorder" => of'[q] = 0) /\ (~InFlight(q)' => of'[q] = 0)
      BY <2>1, <3>1
    <3>8. \A t \in DOMAIN tasks' : t \notin Open' \/ t \in listed' => GoesOn(t)'
      BY <2>1, <3>2, <3>4, <3>6
    <3>. QED
      BY <2>1, <3>5, <3>7, <3>8
  <2>. QED
    BY <2>2, <2>3
<1>7. ASSUME NEW r \in Requests, Reopen(r) PROVE SeriesInv'
  BY <1>7 DEF Reopen
<1>8. ASSUME NEW r \in Requests, Update(r) PROVE SeriesInv'
  BY <1>8 DEF Update
<1>9. ASSUME NEW r \in Requests, Delete(r) PROVE SeriesInv'
  BY <1>9 DEF Delete
<1>10. ASSUME NEW r \in Requests, Reorder(r) PROVE SeriesInv'
  BY <1>10 DEF Reorder
<1>11. ASSUME NEW r \in Requests, ReorderOne(r) PROVE SeriesInv'
  <2>1. /\ at[r] = "reorder" /\ at'[r] \in {"reorder", "done"} /\ of'[r] = 0 /\ of[r] = 0
        /\ \A q \in Requests \ {r} : of'[q] = of[q] /\ at'[q] = at[q] /\ draft'[q] = draft[q]
        /\ UNCHANGED <<listed, faulty, late, succeeded>>
    BY <1>11 DEF ReorderOne, Returns, Ends
  <2>2. /\ DOMAIN tasks' = DOMAIN tasks
        /\ \A t \in DOMAIN tasks :
             tasks'[t].status = tasks[t].status /\ tasks'[t].recurs = tasks[t].recurs
    BY <1>11, ReorderRows
  <2>3. \A t \in DOMAIN tasks : t \in Nat \ {0}
    OBVIOUS
  <2>4. \A t \in DOMAIN tasks : Completing(t) => Completing(t)'
    BY <2>1, <2>3
  <2>5. \A q \in Requests :
          InFlight(q)' /\ of'[q] \in DOMAIN tasks /\ of'[q] \notin late
            => q # r /\ (tasks[of[q]].recurs => draft[q].recurs)
    BY <2>1, <2>3
  <2>6. \A t \in DOMAIN tasks : GoesOn(t) => GoesOn(t)'
    BY <2>1, <2>2, <2>4
  <2>7. \A t \in DOMAIN tasks : t \in Open' <=> t \in Open
    BY <2>2
  <2>8. \A q \in Requests :
          (at'[q] = "reorder" => of'[q] = 0) /\ (~InFlight(q)' => of'[q] = 0)
    BY <2>1
  <2>. QED
    BY <2>1, <2>2, <2>5, <2>6, <2>7, <2>8
<1>12. ASSUME NEW r \in Requests, Fails(r) PROVE SeriesInv'
  <2>1. /\ of'[r] = 0 /\ at'[r] = "failed" /\ faulty' = faulty \cup ({of[r]} \ {0})
        /\ \A q \in Requests \ {r} : of'[q] = of[q] /\ at'[q] = at[q] /\ draft'[q] = draft[q]
        /\ UNCHANGED <<tasks, listed, late, succeeded>>
    BY <1>12 DEF Fails, Ends
  <2>2. \A t \in DOMAIN tasks : t \in Nat \ {0}
    OBVIOUS
  <2>3. \A t \in DOMAIN tasks : GoesOn(t) => GoesOn(t)'
    BY <2>1, <2>2
  <2>. QED
    BY <2>1, <2>3
<1>13. ASSUME NEW t \in Ids, Expire(t) PROVE SeriesInv'
  BY <1>13 DEF Expire, Exists
<1>14. CASE ListDoneForArchiving
  BY <1>14 DEF ListDoneForArchiving
<1>15. CASE ArchiveBatch
  BY <1>15 DEF ArchiveBatch
<1>16. CASE JobFails
  BY <1>16 DEF JobFails
<1>17. \/ UNCHANGED vars \/ \E r \in Requests : Acts(r)
       \/ \E t \in Ids : Expire(t)
       \/ ListDoneForArchiving \/ ArchiveBatch \/ JobFails
  BY ZenonT(30) DEF Next
<1>. QED BY <1>17, <1>0, <1>1, <1>2, <1>3, <1>4, <1>5, <1>6, <1>7, <1>8, <1>9,
     <1>10, <1>11, <1>12, <1>13, <1>14, <1>15, <1>16 DEF Acts, Proceeds

-----------------------------------------------------------------------------
(* What a call that nothing outdates knows of the order. *)

\* The place found is behind every peer, and stays so when room is made.
PlaceKnown(r) ==
  at[r] \in {"shift", "insert"} =>
    \A s \in Open :
      EffPriority(tasks[s].priority) <= EffPriority(draft[r].priority)
        => tasks[s].order < pos[r]

\* The open tasks a reorder has reached are where they stood last among those.
OrderKnown(r) ==
  at[r] = "reorder" =>
    \E n \in Nat :
      /\ DOMAIN ids[r] = 1 .. n /\ pos[r] <= n
      /\ \A i \in 1 .. pos[r] :
           ids[r][i] \in Open /\ (\A k \in i + 1 .. pos[r] : ids[r][k] # ids[r][i])
             => tasks[ids[r][i]].order = i - 1

PlaceInv == \A r \in Requests \ stale : PlaceKnown(r) /\ OrderKnown(r)

\* A call leaves what the others know alone.
LEMMA OthersUnchanged ==
  ASSUME TypeInv, NEW r \in Requests, Acts(r), NEW q \in Requests \ {r}
  PROVE  /\ at'[q] = at[q] /\ draft'[q] = draft[q]
         /\ pos'[q] = pos[q] /\ ids'[q] = ids[q]
BY DEF TypeInv, TypeOK, Acts, Proceeds, Create, GetByID, Reopen, Update, Delete, Reorder, Fails,
   MaxSortOrderForEffPriority, ShiftSortOrdersAfter, InsertTask, SetStatusDone, ReorderOne,
   Goes, Ends, Returns

LEMMA ActorKnows ==
  ASSUME TypeInv, NEW r \in Requests, Acts(r), PlaceKnown(r), OrderKnown(r)
  PROVE  PlaceKnown(r)' /\ OrderKnown(r)'
<1>. USE DEF TypeInv, TypeOK, Goes, Returns, Ends
<1>1. CASE Create(r) \/ InsertTask(r) \/ GetByID(r) \/ SetStatusDone(r) \/ Reopen(r)
           \/ Update(r) \/ Delete(r) \/ Fails(r)
  BY <1>1 DEF Create, InsertTask, GetByID, SetStatusDone, Reopen, Update, Delete, Fails,
     PlaceKnown, OrderKnown
<1>2. CASE MaxSortOrderForEffPriority(r)
  <2>1. PICK place \in PlacesAfterPeers(draft[r].priority) :
          /\ \A other \in PlacesAfterPeers(draft[r].priority) : other <= place
          /\ pos' = [pos EXCEPT ![r] = place]
    BY <1>2 DEF MaxSortOrderForEffPriority
  <2>2. at'[r] = "shift" /\ pos'[r] = place /\ UNCHANGED <<tasks, draft>>
    BY <1>2, <2>1 DEF MaxSortOrderForEffPriority
  <2>3. place \in Nat
    BY <2>1 DEF PlacesAfterPeers, Open
  <2>4. ASSUME NEW s \in Open,
               EffPriority(tasks[s].priority) <= EffPriority(draft[r].priority)
        PROVE  tasks[s].order < place
    <3>1. tasks[s].order + 1 \in PlacesAfterPeers(draft[r].priority)
      BY <2>4 DEF PlacesAfterPeers
    <3>2. tasks[s].order \in Nat
      BY DEF Open
    <3>. QED
      BY <2>1, <2>3, <3>1, <3>2
  <2>. QED
    BY <2>2, <2>4 DEF PlaceKnown, OrderKnown, Open
<1>3. CASE ShiftSortOrdersAfter(r)
  <2>1. /\ at[r] = "shift" /\ at'[r] = "insert" /\ UNCHANGED <<draft, pos>>
        /\ DOMAIN tasks' = DOMAIN tasks
    BY <1>3 DEF ShiftSortOrdersAfter
  <2>2. ASSUME NEW s \in DOMAIN tasks
        PROVE  /\ tasks'[s].status = tasks[s].status /\ tasks'[s].priority = tasks[s].priority
               /\ s \in Open /\ tasks[s].order < pos[r] => tasks'[s].order = tasks[s].order
    BY <1>3 DEF ShiftSortOrdersAfter
  <2>3. Open' = Open
    BY <2>1, <2>2 DEF Open
  <2>. QED
    BY <2>1, <2>2, <2>3 DEF PlaceKnown, OrderKnown, Open
<1>4. CASE Reorder(r)
  <2>1. PICK n \in 0 .. MaxListed : \E list \in [1 .. n -> 1 .. used] :
          ids' = [ids EXCEPT ![r] = list]
    BY <1>4 DEF Reorder
  <2>2. at'[r] = "reorder" /\ DOMAIN ids'[r] = 1 .. n /\ pos'[r] = 0
    BY <1>4, <2>1 DEF Reorder
  <2>. QED
    BY <2>2, MaxListedAssumption DEF PlaceKnown, OrderKnown
<1>5. CASE ReorderOne(r)
  <2>1. PICK n \in Nat :
          /\ DOMAIN ids[r] = 1 .. n /\ pos[r] <= n
          /\ \A i \in 1 .. pos[r] :
               ids[r][i] \in Open /\ (\A k \in i + 1 .. pos[r] : ids[r][k] # ids[r][i])
                 => tasks[ids[r][i]].order = i - 1
    BY <1>5 DEF ReorderOne, OrderKnown
  <2>2. CASE pos[r] + 1 \notin DOMAIN ids[r]
    BY <1>5, <2>2 DEF ReorderOne, PlaceKnown, OrderKnown
  <2>3. CASE pos[r] + 1 \in DOMAIN ids[r]
    <3>. DEFINE t == ids[r][pos[r] + 1]
    <3>1. pos[r] \in Nat /\ pos[r] + 1 <= n
      BY <2>1, <2>3
    <3>2. /\ tasks' = IF t \in Open THEN [tasks EXCEPT ![t].order = pos[r]] ELSE tasks
          /\ at'[r] = "reorder" /\ ids' = ids /\ pos'[r] = pos[r] + 1
      BY <1>5, <2>3, <3>1 DEF ReorderOne
    <3>3. Open' = Open
      BY <3>2 DEF Open
    <3>4. /\ t \in Open => tasks'[t].order = pos[r]
          /\ \A s \in Open \ {t} : tasks'[s] = tasks[s]
      BY <3>2 DEF Open
    <3>5. ASSUME NEW i \in 1 .. pos[r] + 1, ids[r][i] \in Open,
                 \A k \in i + 1 .. pos[r] + 1 : ids[r][k] # ids[r][i]
          PROVE  tasks'[ids[r][i]].order = i - 1
      <4>1. CASE i = pos[r] + 1
        BY <3>1, <3>4, <3>5, <4>1
      <4>2. CASE i # pos[r] + 1
        <5>1. i \in 1 .. pos[r] /\ pos[r] + 1 \in i + 1 .. pos[r] + 1
          BY <3>1, <4>2
        <5>2. ids[r][i] # t
          BY <3>5, <5>1
        <5>3. \A k \in i + 1 .. pos[r] : ids[r][k] # ids[r][i]
          BY <3>1, <3>5
        <5>4. tasks[ids[r][i]].order = i - 1
          BY <2>1, <3>5, <5>1, <5>3
        <5>. QED
          BY <3>4, <3>5, <5>2, <5>4
      <4>. QED
        BY <4>1, <4>2
    <3>6. DOMAIN ids'[r] = 1 .. n /\ pos'[r] <= n /\ ids'[r] = ids[r]
      BY <2>1, <3>1, <3>2
    <3>. QED
      BY <3>2, <3>3, <3>5, <3>6 DEF PlaceKnown, OrderKnown
  <2>. QED
    BY <2>2, <2>3
<1>. QED
  BY <1>1, <1>2, <1>3, <1>4, <1>5 DEF Acts, Proceeds

LEMMA PlaceStep ==
  ASSUME TypeInv, PlaceInv, [Next]_vars
  PROVE  PlaceInv'
<1>1. ASSUME NEW q \in Requests, q \notin stale, UNCHANGED tasks,
             at'[q] = at[q], draft'[q] = draft[q], pos'[q] = pos[q], ids'[q] = ids[q]
      PROVE  PlaceKnown(q)' /\ OrderKnown(q)'
  BY <1>1 DEF PlaceInv, PlaceKnown, OrderKnown, Open
<1>2. ASSUME NEW q \in Requests, at'[q] \notin {"shift", "insert", "reorder"}
      PROVE  PlaceKnown(q)' /\ OrderKnown(q)'
  BY <1>2 DEF PlaceKnown, OrderKnown
<1>3. ASSUME NEW q \in Requests, q \notin stale', NEW others, q \in others, Outdates(others),
             at'[q] = at[q], draft'[q] = draft[q], pos'[q] = pos[q], ids'[q] = ids[q]
      PROVE  PlaceKnown(q)' /\ OrderKnown(q)'
  <2>1. q \notin stale /\ (tasks' = tasks \/ at[q] \notin {"shift", "insert", "reorder"})
    BY <1>3 DEF Outdates
  <2>. QED
    BY <1>1, <1>2, <1>3, <2>1
<1>4. CASE UNCHANGED vars
  BY <1>1, <1>4 DEF vars, request, PlaceInv
<1>5. ASSUME NEW r \in Requests, Acts(r), Outdates(Requests \ {r}) PROVE PlaceInv'
  <2>1. ASSUME NEW q \in Requests, q \notin stale' PROVE PlaceKnown(q)' /\ OrderKnown(q)'
    <3>1. q \notin stale
      BY <1>5, <2>1 DEF Outdates
    <3>2. CASE q = r
      BY <1>5, <3>1, <3>2, ActorKnows DEF PlaceInv
    <3>3. CASE q # r
      BY <1>3, <1>5, <2>1, <3>3, OthersUnchanged
    <3>. QED
      BY <3>2, <3>3
  <2>. QED
    BY <2>1 DEF PlaceInv
<1>6. CASE /\ \/ \E t \in Ids : Expire(t)
              \/ ListDoneForArchiving \/ ArchiveBatch \/ JobFails
           /\ Outdates(Requests)
  <2>1. UNCHANGED request
    BY <1>6 DEF Expire, ListDoneForArchiving, ArchiveBatch, JobFails
  <2>. QED
    BY <1>3, <1>6, <2>1 DEF request, PlaceInv
<1>. QED
  BY <1>4, <1>5, <1>6 DEF Next

-----------------------------------------------------------------------------
(* In every behaviour. *)

\* The base case: nothing is listed, nobody completes anything.
LEMMA InvInitially ==
  ASSUME Init
  PROVE  ArchiveInv /\ SeriesInv /\ PlaceInv
<1>1. ArchiveInv
  BY DEF Init, ArchiveInv
<1>2. \A t \in DOMAIN tasks : t \in Open /\ t \notin listed
  BY DEF Init, Open
<1>3. \A r \in Requests : of[r] = 0 /\ at[r] = "new" /\ ~InFlight(r)
  BY DEF Init, InFlight
<1>. QED
  BY <1>1, <1>2, <1>3 DEF SeriesInv, PlaceInv, PlaceKnown, OrderKnown

\* The types of the variables are as stated.
THEOREM TypeCorrect == Spec => []TypeOK
<1>1. TypeInv => TypeOK
  BY DEF TypeInv
<1>. QED
  BY <1>1, TypeInitially, TypeStep, PTL DEF Spec

\* A recurring task that was completed lives on in a successor, in whatever
\* order completions, reopenings, deletions and archiving come, unless the call
\* that completed it failed or an edit made it recur too late.
THEOREM SeriesCorrect == Spec => []SeriesGoesOn
<1>1. SeriesInv => SeriesGoesOn
  BY DEF SeriesInv, GoesOn, SeriesGoesOn
<1>. QED
  BY <1>1, TypeInitially, TypeStep, InvInitially, SeriesStep, PTL DEF Spec

\* The job takes no open task off the user's list but one reopened between its
\* two statements.
THEOREM ArchiveCorrect == Spec => ArchivedOnlyWhenDone
<1>1. TypeInv /\ ArchiveInv /\ [Next]_vars =>
        [\A t \in DOMAIN tasks : Exists(t)' =>
           (tasks[t].status = "open" /\ tasks'[t].status = "archived" => t \in reopened)]_vars
  BY ArchivedStep
<1>. QED
  BY <1>1, TypeInitially, TypeStep, InvInitially, ArchiveStep, PTL
     DEF Spec, ArchivedOnlyWhenDone

\* No step but one of a reorder call changes which of two open tasks is first.
THEOREM OrderCorrect == Spec => OnlyReorderReorders
<1>1. TypeInv /\ [Next]_vars =>
        [\A s, t \in Open \cap Open' :
           Before(s, t) => Before(s, t)' \/ \E r \in Requests : ReorderOne(r)]_vars
  BY OrderStep DEF Kept
<1>. QED
  BY <1>1, TypeInitially, TypeStep, PTL DEF Spec, OnlyReorderReorders

\* A call that nothing outdated puts its task behind every peer.
THEOREM PlaceCorrect == Spec => PlacedAfterPeers
<1>1. ASSUME TypeInv, PlaceInv, NEW r \in Requests \ stale, InsertTask(r), NEW s \in Open,
             EffPriority(tasks[s].priority) <= EffPriority(draft[r].priority)
      PROVE  Before(s, used)'
  <2>1. at[r] = "insert" /\ used' = used + 1 /\ s \in 1 .. used /\ used \in Nat
    BY <1>1, MaxTasksAssumption DEF InsertTask, Returns, Ends, Goes, TypeInv, TypeOK, Open
  <2>2. tasks[s].order < pos[r]
    BY <1>1, <2>1 DEF PlaceInv, PlaceKnown
  <2>3. tasks'[s] = tasks[s] /\ tasks'[used + 1].order = pos[r]
    BY <1>1, <2>1 DEF InsertTask, Open
  <2>. QED
    BY <2>1, <2>2, <2>3 DEF Before
<1>2. TypeInv /\ PlaceInv /\ [Next]_vars =>
        [\A r \in Requests \ stale : InsertTask(r) =>
           \A s \in Open : EffPriority(tasks[s].priority) <= EffPriority(draft[r].priority)
                             => Before(s, used)']_vars
  BY <1>1
<1>. QED
  BY <1>2, TypeInitially, TypeStep, InvInitially, PlaceStep, PTL DEF Spec, PlacedAfterPeers

\* A reorder that nothing outdated leaves the open tasks of its list in the
\* order of the places they stand at last, whatever list it was given.
THEOREM ReorderCorrect == Spec => ReorderedAsAsked
<1>1. ASSUME TypeInv, PlaceInv, [Next]_vars, NEW r \in Requests \ stale,
             at[r] = "reorder", at'[r] = "done", NEW i \in LastPlaces(ids[r]),
             NEW j \in LastPlaces(ids[r]), i < j
      PROVE  Before(ids[r][i], ids[r][j])
  <2>1. PICK n \in Nat :
          /\ DOMAIN ids[r] = 1 .. n /\ pos[r] <= n
          /\ \A x \in 1 .. pos[r] :
               ids[r][x] \in Open /\ (\A k \in x + 1 .. pos[r] : ids[r][k] # ids[r][x])
                 => tasks[ids[r][x]].order = x - 1
    BY <1>1 DEF PlaceInv, OrderKnown
  <2>2. pos[r] + 1 \notin DOMAIN ids[r] /\ pos[r] \in Nat
    <3>1. ReorderOne(r)
      <4>1. PICK q \in Requests : Acts(q)
        BY <1>1 DEF Next, vars, request, Expire, ListDoneForArchiving, ArchiveBatch, JobFails
      <4>2. q = r
        BY <1>1, <4>1, OthersUnchanged
      <4>. QED
        BY <1>1, <4>1, <4>2 DEF Acts, Proceeds, Create, GetByID, Reopen, Update, Delete,
           Reorder, Fails, MaxSortOrderForEffPriority, ShiftSortOrdersAfter, InsertTask,
           SetStatusDone, Goes, Ends, Returns, TypeInv, TypeOK
    <3>. QED
      BY <1>1, <3>1 DEF ReorderOne, Goes, Returns, Ends, TypeInv, TypeOK
  <2>3. pos[r] = n
    BY <2>1, <2>2
  <2>4. ASSUME NEW x \in LastPlaces(ids[r]) PROVE x \in Nat /\ tasks[ids[r][x]].order = x - 1
    <3>1. /\ x \in 1 .. pos[r] /\ ids[r][x] \in Open
          /\ \A k \in 1 .. n : ids[r][k] = ids[r][x] => k <= x
      BY <2>1, <2>3 DEF LastPlaces
    <3>2. \A k \in x + 1 .. pos[r] : ids[r][k] # ids[r][x]
      BY <2>3, <3>1
    <3>. QED
      BY <2>1, <3>1, <3>2
  <2>. QED
    BY <1>1, <2>4 DEF Before
<1>2. TypeInv /\ PlaceInv /\ [Next]_vars =>
        [\A r \in Requests \ stale : at[r] = "reorder" /\ at'[r] = "done" =>
           \A i, j \in LastPlaces(ids[r]) : i < j => Before(ids[r][i], ids[r][j])]_vars
  BY <1>1
<1>. QED
  BY <1>2, TypeInitially, TypeStep, InvInitially, PlaceStep, PTL DEF Spec, ReorderedAsAsked
=============================================================================
