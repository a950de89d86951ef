------------------------------ MODULE JobQueue ------------------------------
(***************************************************************************)
(* jobqueue.JobQueue: recurring jobs over a worker pool, with the history  *)
(* observability.TrackedJob writes to global.job_runs as the record of     *)
(* when a job last succeeded.  The pool is the abstract one, WorkDispatch; *)
(* its items are the closures runIfNotRunning enqueues, one Runs value     *)
(* each.                                                                   *)
(*                                                                         *)
(* Time is kept as ages: how long ago an instant was, in units that stop   *)
(* counting at MaxAge (every job is due by then).                          *)
(***************************************************************************)
EXTENDS Naturals, FiniteSets

CONSTANTS Jobs,        \* job IDs
          Scheduled,   \* the jobs that implement threading.Scheduled
          RunEvery,    \* their periods
          MaxAge,      \* ages are counted up to here
          Runs,        \* names for outstanding closures
          None,        \* neither a job nor a closure
          ChannelSize, NumWorkers,
          MayCrash     \* whether the process may stop and start again

ASSUME JobsAssumption == Scheduled \subseteq Jobs
ASSUME PeriodAssumption == MaxAge \in Nat /\ RunEvery \in [Jobs -> 1..MaxAge]
ASSUME RunsAssumption == IsFiniteSet(Runs) /\ None \notin Runs \cup Jobs
ASSUME PoolAssumption == ChannelSize \in Nat \ {0} /\ NumWorkers \in Nat \ {0}
ASSUME CrashAssumption == MayCrash \in BOOLEAN

VARIABLES
  recorded,    \* per job, the age of LastSuccessAt in global.job_runs
  registered,  \* the keys of q.jobs
  running,     \* the jobs with qj.running set
  lastRun,     \* the age of qj.lastRun
  announced,   \* the jobs whose callback was last told they run
  status,      \* the pool: where each closure is
  job,         \* the job of each closure
  at,          \* how far a worker is in the closure
  began,       \* the age of TrackedJob.Run's start
  phase,       \* the scheduler goroutine: idle, inspecting or enqueueing
  todo,        \* jobs tick has still to inspect
  seen,        \* the job isDue saw idle, between its two loads
  due,         \* jobs tick collected and has not enqueued yet
  sending      \* the closure tick is blocked on, if any

scheduler == <<phase, todo, seen, due, sending>>
closures == <<status, job, at, began>>
memory == <<registered, running, lastRun, announced>>
jobsVars == <<recorded, memory, closures, scheduler>>

Pool == INSTANCE WorkDispatch WITH
  Items <- Runs, Waiters <- {}, Capacity <- ChannelSize,
  Parallelism <- NumWorkers, waiting <- {}, owed <- <<>>

Never == MaxAge + 1

Ages == 0..Never

\* A time that was never set, or whose age is no longer counted, stays as is.
Older(age) == IF age < MaxAge THEN age + 1 ELSE age

\* The closure's own progress: callback, job.Run with the record of the run,
\* lastRun.Store, callback, and the deferred running.Store(false).
Places == {"announce", "run", "store", "retract", "release"}

Shapes ==
  /\ recorded \in [Jobs -> Ages]
  /\ registered \subseteq Jobs
  /\ running \subseteq Jobs
  /\ lastRun \in [Jobs -> Ages]
  /\ announced \subseteq Jobs
  /\ status \in [Runs -> {"idle", "offered", "queued", "running"}]
  /\ job \in [Runs -> Jobs \cup {None}]
  /\ at \in [Runs -> Places]
  /\ began \in [Runs -> Ages]
  /\ phase \in {"idle", "inspect", "enqueue"}
  /\ todo \subseteq Jobs
  /\ seen \in Jobs \cup {None}
  /\ due \subseteq Jobs
  /\ sending \in Runs \cup {None}

\* The channel of the pool holds no more than it can.
WithinCapacity == Cardinality(Pool!InStatus("queued")) <= ChannelSize

JobsTypeOK == Shapes /\ WithinCapacity

JobsInit ==
  /\ recorded = [j \in Jobs |-> Never]
  /\ registered = {}
  /\ running = {}
  /\ lastRun = [j \in Jobs |-> Never]
  /\ announced = {}
  /\ status = [r \in Runs |-> "idle"]
  /\ job = [r \in Runs |-> None]
  /\ at = [r \in Runs |-> "announce"]
  /\ began = [r \in Runs |-> 0]
  /\ phase = "idle"
  /\ todo = {}
  /\ seen = None
  /\ due = {}
  /\ sending = None

-----------------------------------------------------------------------------
(* Plausible bugs, used only to show that the properties can fail. *)

\* The scheduler this one replaced: a restart forgets when a job ran.
RegisterForgetful(j) ==
  /\ j \notin registered
  /\ registered' = registered \cup {j}
  /\ UNCHANGED <<recorded, running, lastRun, announced, closures, scheduler>>

\* A store where the compare-and-swap is.
ClaimUnchecked(j, r) ==
  /\ running' = running \cup {j}
  /\ Pool!Offer(r)
  /\ job' = [job EXCEPT ![r] = j]
  /\ UNCHANGED <<recorded, registered, lastRun, announced, at, began>>

StoreNothing(r) ==
  /\ status[r] = "running" /\ at[r] = "store"
  /\ at' = [at EXCEPT ![r] = "retract"]
  /\ began' = [began EXCEPT ![r] = 0]
  /\ UNCHANGED <<status, job, recorded, memory, scheduler>>

EndUnannounced(r) ==
  /\ status[r] = "running" /\ at[r] = "retract"
  /\ at' = [at EXCEPT ![r] = "release"]
  /\ UNCHANGED <<status, job, recorded, memory, began, scheduler>>

ReleaseWithoutReset(r) ==
  /\ at[r] = "release"
  /\ Pool!Finish(r)
  /\ at' = [at EXCEPT ![r] = "announce"]
  /\ job' = [job EXCEPT ![r] = None]
  /\ UNCHANGED <<recorded, memory, began, scheduler>>

-----------------------------------------------------------------------------
(* AddJob. *)

Register(j) ==
  /\ j \notin registered
  /\ registered' = registered \cup {j}
  /\ lastRun' = [lastRun EXCEPT ![j] = recorded[j]]
  /\ UNCHANGED <<recorded, running, announced, closures, scheduler>>

-----------------------------------------------------------------------------
(* runIfNotRunning: the compare-and-swap and the start of EnqueueWork. *)

Claim(j, r) ==
  /\ j \notin running
  /\ running' = running \cup {j}
  /\ Pool!Offer(r)
  /\ job' = [job EXCEPT ![r] = j]
  /\ UNCHANGED <<recorded, registered, lastRun, announced, at, began>>

ForceRun(j) ==
  /\ j \in registered
  /\ \E r \in Runs : Claim(j, r)
  /\ UNCHANGED scheduler

\* The send of EnqueueWork succeeds; tick goes on if it was the sender.
Admit(r) ==
  /\ Pool!Admit(r)
  /\ sending' = IF sending = r THEN None ELSE sending
  /\ UNCHANGED <<recorded, memory, job, at, began, phase, todo, seen, due>>

-----------------------------------------------------------------------------
(* scheduleLoop and tick. *)

\* The ticker goroutine exists once a job was added.
TickBegins ==
  /\ phase = "idle" /\ registered # {}
  /\ phase' = "inspect"
  /\ todo' = registered
  /\ UNCHANGED <<recorded, memory, closures, seen, due, sending>>

\* isDue loads running; a job that runs, or has no schedule, is passed over.
InspectRunning(j) ==
  /\ phase = "inspect" /\ seen = None /\ j \in todo
  /\ todo' = todo \ {j}
  /\ seen' = IF j \notin running /\ j \in Scheduled THEN j ELSE None
  /\ UNCHANGED <<recorded, memory, closures, phase, due, sending>>

\* isDue loads lastRun: the job may have been claimed since.
InspectLastRun(j) ==
  /\ phase = "inspect" /\ seen = j
  /\ seen' = None
  /\ due' = IF lastRun[j] >= RunEvery[j] THEN due \cup {j} ELSE due
  /\ UNCHANGED <<recorded, memory, closures, phase, todo, sending>>

Inspect(j) == InspectRunning(j) \/ InspectLastRun(j)

InspectEnds ==
  /\ phase = "inspect" /\ seen = None /\ todo = {}
  /\ phase' = "enqueue"
  /\ UNCHANGED <<recorded, memory, closures, todo, seen, due, sending>>

TickClaims(j) ==
  /\ phase = "enqueue" /\ sending = None /\ j \in due
  /\ due' = due \ {j}
  /\ \E r \in Runs : Claim(j, r) /\ sending' = r
  /\ UNCHANGED <<phase, todo, seen>>

TickSkips(j) ==
  /\ phase = "enqueue" /\ sending = None /\ j \in due
  /\ j \in running
  /\ due' = due \ {j}
  /\ UNCHANGED <<recorded, memory, closures, phase, todo, seen, sending>>

TickEnds ==
  /\ phase = "enqueue" /\ sending = None /\ due = {}
  /\ phase' = "idle"
  /\ UNCHANGED <<recorded, memory, closures, todo, seen, due, sending>>

-----------------------------------------------------------------------------
(* The closure, on a worker. *)

Start(r) ==
  /\ Pool!Start(r)
  /\ UNCHANGED <<recorded, memory, job, at, began, scheduler>>

Advance(r, from, to) ==
  /\ status[r] = "running" /\ at[r] = from
  /\ at' = [at EXCEPT ![r] = to]
  /\ UNCHANGED <<status, job>>

AnnounceStart(r) ==
  /\ Advance(r, "announce", "run")
  /\ announced' = announced \cup {job[r]}
  /\ began' = [began EXCEPT ![r] = 0]
  /\ UNCHANGED <<recorded, registered, running, lastRun, scheduler>>

\* The job succeeds and its row is stored.
RunRecorded(r) ==
  /\ Advance(r, "run", "store")
  /\ recorded' = [recorded EXCEPT ![job[r]] = began[r]]
  /\ UNCHANGED <<memory, began, scheduler>>

\* The job fails or panics (a row that LastSuccessAt ignores), or inserting
\* the row fails, which is logged only.
RunUnrecorded(r) ==
  /\ Advance(r, "run", "store")
  /\ UNCHANGED <<recorded, memory, began, scheduler>>

StoreLastRun(r) ==
  /\ Advance(r, "store", "retract")
  /\ lastRun' = [lastRun EXCEPT ![job[r]] = 0]
  /\ began' = [began EXCEPT ![r] = 0]
  /\ UNCHANGED <<recorded, registered, running, announced, scheduler>>

AnnounceEnd(r) ==
  /\ Advance(r, "retract", "release")
  /\ announced' = announced \ {job[r]}
  /\ UNCHANGED <<recorded, registered, running, lastRun, began, scheduler>>

\* The deferred running.Store(false), with which the closure returns.
Release(r) ==
  /\ at[r] = "release"
  /\ Pool!Finish(r)
  /\ at' = [at EXCEPT ![r] = "announce"]
  /\ running' = running \ {job[r]}
  /\ job' = [job EXCEPT ![r] = None]
  /\ UNCHANGED <<recorded, registered, lastRun, announced, began, scheduler>>

ClosureStep(r) ==
  \/ Start(r) \/ AnnounceStart(r) \/ RunRecorded(r) \/ RunUnrecorded(r)
  \/ StoreLastRun(r) \/ AnnounceEnd(r) \/ Release(r)

-----------------------------------------------------------------------------
(* The environment. *)

TimePasses ==
  /\ recorded' = [j \in Jobs |-> Older(recorded[j])]
  /\ lastRun' = [j \in Jobs |-> Older(lastRun[j])]
  /\ began' = [r \in Runs |-> IF at[r] = "run" THEN Older(began[r]) ELSE began[r]]
  /\ UNCHANGED <<registered, running, announced, status, job, at, scheduler>>

\* A deploy, a panic outside the jobs or a failed AddJob ends the process;
\* nothing but the database is left.
Crash ==
  /\ MayCrash
  /\ registered' = {}
  /\ running' = {}
  /\ lastRun' = [j \in Jobs |-> Never]
  /\ announced' = {}
  /\ status' = [r \in Runs |-> "idle"]
  /\ job' = [r \in Runs |-> None]
  /\ at' = [r \in Runs |-> "announce"]
  /\ began' = [r \in Runs |-> 0]
  /\ phase' = "idle"
  /\ todo' = {}
  /\ seen' = None
  /\ due' = {}
  /\ sending' = None
  /\ UNCHANGED recorded

SchedulerStep ==
  \/ TickBegins \/ InspectEnds \/ TickEnds
  \/ \E j \in Jobs : Inspect(j) \/ TickClaims(j) \/ TickSkips(j)

JobsNext ==
  \/ SchedulerStep
  \/ \E j \in Jobs : Register(j) \/ ForceRun(j)
  \/ \E r \in Runs : Admit(r) \/ ClosureStep(r)
  \/ TimePasses
  \/ Crash

JobsSpec == JobsInit /\ [][JobsNext]_jobsVars

\* Goroutines run, jobs end, time passes, and the channel serves blocked
\* senders and queued closures in order.
JobsFairSpec ==
  /\ JobsSpec
  /\ WF_jobsVars(SchedulerStep)
  /\ WF_jobsVars(TimePasses)
  /\ \A j \in Jobs : WF_jobsVars(Register(j))
  /\ \A r \in Runs : SF_jobsVars(Admit(r)) /\ SF_jobsVars(Start(r)) /\ WF_jobsVars(ClosureStep(r))

-----------------------------------------------------------------------------
(* Properties. *)

Outstanding == {r \in Runs : status[r] # "idle"}

\* A job never has two closures outstanding, however ForceRun, tick and the
\* workers interleave, and qj.running says whether it has one.
OneRunAtATime ==
  /\ \A r, s \in Outstanding : job[r] = job[s] => r = s
  /\ \A j \in Jobs : j \in running <=> \E r \in Outstanding : job[r] = j

\* While a job is not running, the scheduler's in-memory time is at least as
\* recent as the record a restart would start from.
MemoryAtLeastAsRecent ==
  \A j \in registered : j \notin running => lastRun[j] <= recorded[j]

\* A run of the job was recorded and is about to be stored in memory.
Storing(j) == \E r \in Outstanding : job[r] = j /\ at[r] = "store"

\* tick collects a job only when its last recorded success is a full period
\* old, in every process that serves the same database; or when somebody
\* claimed it since isDue saw it idle, and its run is between its record and
\* lastRun.Store.
CollectedWhenDue ==
  [][\A j \in Jobs : j \in due' \ due => recorded[j] >= RunEvery[j] \/ Storing(j)]_jobsVars

\* The states passed to the callback alternate, and "running" is never the
\* last word once the job has stopped.
AnnouncedOnlyWhileRunning ==
  /\ announced \subseteq running
  /\ \A r \in Outstanding : at[r] = "announce" => job[r] \notin announced

\* "the scheduler only runs it once it's due, per global.job_runs": a run
\* tick starts is at least a period after the last recorded success.  Not so:
\* tick blocks on a full channel after it collected what is due, and a
\* ForceRun of the job ends before tick comes to it.
ScheduledRunIsDue ==
  [][\A j \in Jobs : TickClaims(j) => recorded[j] >= RunEvery[j]]_jobsVars

\* Unless the process crashes again and again, every scheduled job is run, to
\* its end, again and again, even when tick blocks on a full channel.
ScheduledJobsKeepRunning ==
  []<><<Crash>>_jobsVars
    \/ \A j \in Scheduled : []<>(j \in running) /\ []<>(j \notin running)
=============================================================================
