------------------------------- MODULE Todos -------------------------------
(***************************************************************************)
(* The tasks of one user (todos.tasks): creating, completing, reopening,   *)
(* reordering and deleting them, each call statement by statement with no  *)
(* transaction, and the hourly job that archives what was done long ago.   *)
(* Recurrence rules are reduced to whether there is a next due date;       *)
(* subtasks, links, labels, sections and policies are left out.            *)
(***************************************************************************)
EXTENDS Naturals

CONSTANTS Requests, Priorities,  \* 0 is no priority
          MaxTasks,              \* bound: tasks ever inserted
          StartTasks,            \* bound: tasks there are at the start
          MaxListed              \* bound: ids in one call of ReorderTasks

ASSUME PrioritiesAssumption == Priorities \subseteq 0 .. 998 /\ 0 \in Priorities
ASSUME MaxTasksAssumption == MaxTasks \in Nat /\ StartTasks \in 0 .. MaxTasks
ASSUME MaxListedAssumption == MaxListed \in Nat

VARIABLES
  tasks,     \* todos.tasks; ids count up as created_at does
  used,      \* ids given so far
  at,        \* the statement each request runs next
  of,        \* the task Complete read, 0 for a Create
  draft,     \* the task Create inserts
  pos,       \* insertAfter + 1, or the next index of ReorderTasks
  ids,       \* what ReorderTasks was given
  job,       \* "idle", or "listed" once the archive job has its ids
  listed,    \* those ids
  faulty,    \* history: tasks whose completion stopped half-way
  stale,     \* history: requests whose reads something else has outdated
  reopened,  \* history: tasks reopened since the job listed them
  late,      \* history: tasks made to recur when done, listed or being completed
  succeeded  \* history: tasks Complete made a successor of

request == <<at, of, draft, pos, ids>>
archive == <<job, listed>>
history == <<faulty, reopened, late, succeeded>>
vars == <<tasks, used, request, archive, history, stale>>

Ids == 1 .. MaxTasks

Draft == [priority : Priorities, recurs : BOOLEAN]

NoDraft == [priority |-> 0, recurs |-> FALSE]

\* "expired" is done for longer than archive_after_hours.
Statuses == {"open", "done", "expired", "archived"}

IsDone(t) == tasks[t].status \in {"done", "expired"}

Exists(t) == t \in DOMAIN tasks

Open == {t \in DOMAIN tasks : tasks[t].status = "open"}

\* Priority 0 sorts last.
EffPriority(p) == IF p = 0 THEN 999 ELSE p

\* ListOpen: ORDER BY sort_order, created_at, id.
Before(s, t) ==
  \/ tasks[s].order < tasks[t].order
  \/ tasks[s].order = tasks[t].order /\ s < t

\* Earlier calls left a few open tasks; sort orders need not be distinct (a
\* reopened task keeps the one it had).
Init ==
  /\ used \in 0 .. StartTasks
  /\ tasks \in [1 .. used -> [status : {"open"}, order : 0 .. 1,
                             priority : Priorities, recurs : BOOLEAN]]
  /\ at = [r \in Requests |-> "new"]
  /\ of = [r \in Requests |-> 0]
  /\ draft = [r \in Requests |-> NoDraft]
  /\ pos = [r \in Requests |-> 0]
  /\ ids = [r \in Requests |-> <<>>]
  /\ job = "idle" /\ listed = {}
  /\ faulty = {} /\ stale = {} /\ reopened = {} /\ late = {} /\ succeeded = {}

-----------------------------------------------------------------------------
Goes(r, from, to) == at[r] = from /\ at' = [at EXCEPT ![r] = to]

\* The call returns and what it read is gone.
Ends(r, from, result) ==
  /\ Goes(r, from, result)
  /\ of' = [of EXCEPT ![r] = 0] /\ draft' = [draft EXCEPT ![r] = NoDraft]
  /\ pos' = [pos EXCEPT ![r] = 0] /\ ids' = [ids EXCEPT ![r] = <<>>]

Returns(r, from) == Ends(r, from, "done")

InFlight(r) == at[r] \notin {"new", "done", "failed"}

Completing(t) == \E r \in Requests : InFlight(r) /\ of[r] = t

\* UPDATE ... WHERE id = t: nothing when the row is gone.
Updates(t, row) == tasks' = IF Exists(t) THEN [tasks EXCEPT ![t] = row] ELSE tasks

-----------------------------------------------------------------------------
(* Plausible bugs, used only to show that the properties can fail. *)

\* The successor is made by the job, not by Complete.
SetDoneOnly(r) ==
  /\ Returns(r, "set")
  /\ Updates(of[r], [tasks[of[r]] EXCEPT !.status = "done"])
  /\ UNCHANGED <<used, archive, history>>

\* The place is computed over the priorities strictly before.
PlacesBefore(p) ==
  {0} \cup {tasks[t].order + 1 :
             t \in {s \in Open : EffPriority(tasks[s].priority) < EffPriority(p)}}

\* Only the tasks at the place make room.
ShiftNext(r) ==
  /\ Goes(r, "shift", "insert")
  /\ tasks' = [t \in DOMAIN tasks |->
                 IF t \in Open /\ tasks[t].order = pos[r]
                   THEN [tasks[t] EXCEPT !.order = @ + 1] ELSE tasks[t]]
  /\ UNCHANGED <<used, of, draft, pos, ids, archive, history>>

\* The loop ends one place early.
ReorderAllButLast(r) ==
  LET i == pos[r] + 1 IN
  /\ \/ /\ i + 1 \in DOMAIN ids[r]
        /\ Goes(r, "reorder", "reorder")
        /\ tasks' = IF ids[r][i] \in Open
                      THEN [tasks EXCEPT ![ids[r][i]].order = pos[r]] ELSE tasks
        /\ pos' = [pos EXCEPT ![r] = i]
        /\ UNCHANGED <<of, draft, ids>>
     \/ i + 1 \notin DOMAIN ids[r] /\ Returns(r, "reorder") /\ UNCHANGED tasks
  /\ UNCHANGED <<used, archive, history>>

\* The job asks for the time of completion and not for the status.
ListCompleted ==
  /\ job = "idle"
  /\ listed' = {t \in DOMAIN tasks : tasks[t].status # "archived"} /\ listed' # {}
  /\ job' = "listed"
  /\ UNCHANGED <<tasks, used, request, history>>

-----------------------------------------------------------------------------
(* Create, and what Complete creates. *)

Create(r) ==
  /\ Goes(r, "new", "max")
  /\ \E d \in Draft : draft' = [draft EXCEPT ![r] = d]
  /\ UNCHANGED <<tasks, used, of, pos, ids, archive, history>>

\* Right after each open task of this priority or of one before.
PlacesAfterPeers(p) ==
  {0} \cup {tasks[t].order + 1 :
             t \in {s \in Open : EffPriority(tasks[s].priority) <= EffPriority(p)}}

MaxSortOrderForEffPriority(r) ==
  /\ Goes(r, "max", "shift")
  /\ \E place \in PlacesAfterPeers(draft[r].priority) :
       /\ \A other \in PlacesAfterPeers(draft[r].priority) : other <= place
       /\ pos' = [pos EXCEPT ![r] = place]
  /\ UNCHANGED <<tasks, used, of, draft, ids, archive, history>>

ShiftSortOrdersAfter(r) ==
  /\ Goes(r, "shift", "insert")
  /\ tasks' = [t \in DOMAIN tasks |->
                 IF t \in Open /\ tasks[t].order >= pos[r]
                   THEN [tasks[t] EXCEPT !.order = @ + 1] ELSE tasks[t]]
  /\ UNCHANGED <<used, of, draft, pos, ids, archive, history>>

InsertTask(r) ==
  /\ used < MaxTasks
  /\ Returns(r, "insert")
  /\ used' = used + 1
  /\ tasks' = [t \in DOMAIN tasks \cup {used + 1} |->
                 IF t # used + 1 THEN tasks[t]
                 ELSE [status |-> "open", order |-> pos[r],
                       priority |-> draft[r].priority, recurs |-> draft[r].recurs]]
  /\ succeeded' = succeeded \cup ({of[r]} \ {0})
  /\ UNCHANGED <<archive, faulty, reopened, late>>

\* Complete reads the task, whatever its status, ...
GetByID(r) ==
  /\ Goes(r, "new", "set")
  /\ \E t \in DOMAIN tasks :
       /\ of' = [of EXCEPT ![r] = t]
       /\ draft' = [draft EXCEPT ![r] = [priority |-> tasks[t].priority,
                                         recurs |-> tasks[t].recurs]]
  /\ UNCHANGED <<tasks, used, pos, ids, archive, history>>

\* ... marks it done, and goes on to create its successor if it recurs.
SetStatusDone(r) ==
  /\ \/ draft[r].recurs /\ Goes(r, "set", "max") /\ UNCHANGED <<of, draft, pos, ids>>
     \/ ~draft[r].recurs /\ Returns(r, "set")
  /\ Updates(of[r], [tasks[of[r]] EXCEPT !.status = "done"])
  /\ UNCHANGED <<used, archive, history>>

-----------------------------------------------------------------------------
(* Calls of one statement. *)

Reopen(r) ==
  /\ Goes(r, "new", "done")
  /\ \E t \in DOMAIN tasks :
       /\ tasks' = [tasks EXCEPT ![t].status = "open"]
       /\ reopened' = reopened \cup ({t} \cap listed)
  /\ UNCHANGED <<used, of, draft, pos, ids, archive, faulty, late, succeeded>>

\* Update writes what the form says; the order stays.
Update(r) ==
  /\ Goes(r, "new", "done")
  /\ \E t \in DOMAIN tasks, d \in Draft :
       /\ tasks' = [tasks EXCEPT ![t].priority = d.priority, ![t].recurs = d.recurs]
       /\ late' = IF d.recurs /\ ~tasks[t].recurs /\ (t \notin Open \ listed \/ Completing(t))
                    THEN late \cup {t} ELSE late
  /\ UNCHANGED <<used, of, draft, pos, ids, archive, faulty, reopened, succeeded>>

Delete(r) ==
  /\ Goes(r, "new", "done")
  /\ \E t \in DOMAIN tasks :
       tasks' = [s \in DOMAIN tasks \ {t} |-> tasks[s]]
  /\ UNCHANGED <<used, of, draft, pos, ids, archive, history>>

\* ReorderTasks takes any list of ids: of some of the tasks, of closed or
\* deleted ones, of one task twice.  One UPDATE for each place.
Reorder(r) ==
  /\ Goes(r, "new", "reorder")
  /\ \E n \in 0 .. MaxListed : \E list \in [1 .. n -> 1 .. used] :
       ids' = [ids EXCEPT ![r] = list]
  /\ pos' = [pos EXCEPT ![r] = 0]
  /\ UNCHANGED <<tasks, used, of, draft, archive, history>>

ReorderOne(r) ==
  LET i == pos[r] + 1 IN
  /\ \/ /\ i \in DOMAIN ids[r]
        /\ Goes(r, "reorder", "reorder")
        /\ tasks' = IF ids[r][i] \in Open
                      THEN [tasks EXCEPT ![ids[r][i]].order = pos[r]] ELSE tasks
        /\ pos' = [pos EXCEPT ![r] = i]
        /\ UNCHANGED <<of, draft, ids>>
     \/ i \notin DOMAIN ids[r] /\ Returns(r, "reorder") /\ UNCHANGED tasks
  /\ UNCHANGED <<used, archive, history>>

\* A statement fails or the process stops.
Fails(r) ==
  /\ InFlight(r) /\ Ends(r, at[r], "failed")
  /\ faulty' = faulty \cup ({of[r]} \ {0})
  /\ UNCHANGED <<tasks, used, archive, reopened, late, succeeded>>

-----------------------------------------------------------------------------
(* The archive job. *)

Expire(t) ==
  /\ Exists(t) /\ tasks[t].status = "done"
  /\ tasks' = [tasks EXCEPT ![t].status = "expired"]
  /\ UNCHANGED <<used, request, archive, history>>

ListDoneForArchiving ==
  /\ job = "idle"
  /\ listed' = {t \in DOMAIN tasks : tasks[t].status = "expired"} /\ listed' # {}
  /\ job' = "listed"
  /\ UNCHANGED <<tasks, used, request, history>>

\* By id only: the status is not looked at again.
ArchiveBatch ==
  /\ job = "listed"
  /\ job' = "idle" /\ listed' = {} /\ reopened' = {}
  /\ tasks' = [t \in DOMAIN tasks |->
                 IF t \in listed THEN [tasks[t] EXCEPT !.status = "archived"] ELSE tasks[t]]
  /\ UNCHANGED <<used, request, faulty, late, succeeded>>

JobFails ==
  /\ job = "listed"
  /\ job' = "idle" /\ listed' = {} /\ reopened' = {}
  /\ UNCHANGED <<tasks, used, request, faulty, late, succeeded>>

-----------------------------------------------------------------------------
Proceeds(r) ==
  \/ MaxSortOrderForEffPriority(r) \/ ShiftSortOrdersAfter(r) \/ InsertTask(r)
  \/ SetStatusDone(r) \/ ReorderOne(r)

Acts(r) ==
  \/ Create(r) \/ GetByID(r) \/ Reopen(r) \/ Update(r) \/ Delete(r) \/ Reorder(r)
  \/ Proceeds(r) \/ Fails(r)

\* What a request read is out of date once anything else changes the tasks.
Outdates(others) ==
  stale' = IF tasks' = tasks THEN stale
           ELSE stale \cup {r \in others : at[r] \in {"shift", "insert", "reorder"}}

Next ==
  \/ \E r \in Requests : Acts(r) /\ Outdates(Requests \ {r})
  \/ /\ \/ \E t \in Ids : Expire(t)
        \/ ListDoneForArchiving \/ ArchiveBatch \/ JobFails
     /\ Outdates(Requests)

Spec == Init /\ [][Next]_vars

-----------------------------------------------------------------------------
(* Properties. *)

TypeOK ==
  /\ used \in 0 .. MaxTasks /\ DOMAIN tasks \subseteq 1 .. used
  /\ tasks \in [DOMAIN tasks -> [status : Statuses, order : Nat, priority : Priorities,
                                recurs : BOOLEAN]]
  /\ at \in [Requests -> {"new", "max", "shift", "insert", "set", "reorder", "done",
                          "failed"}]
  /\ of \in [Requests -> 0 .. used] /\ draft \in [Requests -> Draft]
  /\ pos \in [Requests -> Nat]
  /\ DOMAIN ids = Requests
  /\ \A r \in Requests : \A i \in DOMAIN ids[r] : ids[r][i] \in 1 .. used
  /\ job \in {"idle", "listed"} /\ listed \subseteq 1 .. used

\* A recurring task that was completed lives on in a successor, unless the
\* call that completed it failed, or an edit made it recur too late: when it
\* was completed already, while Complete was at work on it, or when the job was
\* about to archive it.
SeriesGoesOn ==
  \A t \in DOMAIN tasks :
    tasks[t].recurs /\ t \notin Open =>
      t \in succeeded \cup faulty \cup late \/ Completing(t)

\* A new task comes after every open task of its priority or of one before
\* it, when nothing else changed the tasks since its place was computed.
PlacedAfterPeers ==
  [][\A r \in Requests \ stale : InsertTask(r) =>
       \A s \in Open : EffPriority(tasks[s].priority) <= EffPriority(draft[r].priority)
                         => Before(s, used)']_vars

\* Nothing but a reorder call changes which of two open tasks comes first:
\* creating makes room without disturbing the order made by hand.
OnlyReorderReorders ==
  [][\A s, t \in Open \cap Open' :
       Before(s, t) => Before(s, t)' \/ \E r \in Requests : ReorderOne(r)]_vars

\* The places of a list at which an open task stands for the last time.
LastPlaces(list) ==
  {i \in DOMAIN list :
     list[i] \in Open /\ \A k \in DOMAIN list : list[k] = list[i] => k <= i}

\* A reorder call that nothing disturbed leaves the open tasks it was given in
\* the order it was given them, whichever tasks the list leaves out, whatever
\* closed or deleted ones it names; a task named twice is where it stood last.
ReorderedAsAsked ==
  [][\A r \in Requests \ stale : at[r] = "reorder" /\ at'[r] = "done" =>
       \A i, j \in LastPlaces(ids[r]) : i < j => Before(ids[r][i], ids[r][j])]_vars

\* The job archives what is done; a task it takes from the user's open list
\* was reopened between its two statements.
ArchivedOnlyWhenDone ==
  [][\A t \in DOMAIN tasks : Exists(t)' =>
       (tasks[t].status = "open" /\ tasks'[t].status = "archived" => t \in reopened)]_vars
=============================================================================
