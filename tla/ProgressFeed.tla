---------------------------- MODULE ProgressFeed ----------------------------
(***************************************************************************)
(* progressws.Service: the topic of one job, fed by the callback that      *)
(* JobQueue's closure calls (UpdateState) and by the job itself            *)
(* (UpdateProgress), and read by new subscribers through FetchState.  A    *)
(* message is reduced to isRefreshing.                                     *)
(*                                                                         *)
(* The job is one of JobQueue's, with its scheduling reduced to Claim: it  *)
(* may be claimed whenever it is not running.                              *)
(***************************************************************************)
EXTENDS Topic

ASSUME MessagesAssumption == NoValue \notin BOOLEAN

VARIABLES running,  \* qj.running
          at,       \* how far the worker is in the closure
          present   \* clients subscribed since before the run

job == <<running, at>>
progressVars == <<topicVars, job, present>>

ProgressInit ==
  /\ TopicInit
  /\ running = FALSE
  /\ at = "none"
  /\ present = {}

-----------------------------------------------------------------------------
JobGoes(from, to) == at = from /\ at' = to

Claim ==
  /\ ~running
  /\ running' = TRUE
  /\ JobGoes("none", "queued")
  /\ present' = {c \in Conns : Subscribed(c)}
  /\ UNCHANGED topicVars

Start == JobGoes("queued", "announce") /\ UNCHANGED <<topicVars, running, present>>

\* UpdateState(id, true, ...): blocks while the topic's channel is full.
AnnounceStart ==
  JobGoes("announce", "run") /\ Publish(TRUE) /\ UNCHANGED <<running, present>>

\* UpdateProgress carries isRefreshing: true.
Progress ==
  at = "run" /\ Publish(TRUE) /\ UNCHANGED <<job, present>>

RunEnds == JobGoes("run", "retract") /\ UNCHANGED <<topicVars, running, present>>

AnnounceEnd ==
  JobGoes("retract", "release") /\ Publish(FALSE) /\ UNCHANGED <<running, present>>

Release ==
  /\ JobGoes("release", "none")
  /\ running' = FALSE
  /\ UNCHANGED <<topicVars, present>>

JobStep == Start \/ AnnounceStart \/ RunEnds \/ AnnounceEnd \/ Release

-----------------------------------------------------------------------------
FetchState(c) == Fetch(c, running) /\ UNCHANGED <<job, present>>

TopicWorks == WorkerStep /\ UNCHANGED <<job, present>>

HandlerRuns(c) == HandlerStep(c) /\ UNCHANGED <<job, present>>

\* A client that subscribes again is a new subscriber.
ClientActs(c) ==
  /\ ClientStep(c)
  /\ present' = IF handler'[c] = "read" THEN present ELSE present \ {c}
  /\ UNCHANGED job

ProgressNext ==
  \/ Claim \/ Progress \/ JobStep \/ TopicWorks
  \/ \E c \in Conns : FetchState(c) \/ HandlerRuns(c) \/ ClientActs(c)

ProgressSpec == ProgressInit /\ [][ProgressNext]_progressVars

\* The job's closure, the topic's worker and the handlers keep running.
ProgressFairSpec ==
  /\ ProgressSpec
  /\ SF_progressVars(JobStep) /\ WF_progressVars(RunEnds) /\ WF_progressVars(TopicWorks)
  /\ \A c \in Conns : SF_progressVars(HandlerRuns(c)) /\ WF_progressVars(FetchState(c))

-----------------------------------------------------------------------------
(* Properties. *)

ProgressTypeOK ==
  /\ TopicTypeOK(BOOLEAN)
  /\ running \in BOOLEAN
  /\ at \in {"none", "queued", "announce", "run", "retract", "release"}
  /\ present \subseteq Conns

\* The run is over and every event about it was delivered: until the next
\* run, no client is told anything more.
Quiet == ~running /\ queue = <<>> /\ worker = "idle"

\* A client that was subscribed when the run began and stays connected ends
\* up showing that it is over.
WatchersSeeCompletion ==
  Quiet => \A c \in present : link[c] = "open" => shown[c] = FALSE

\* "the reconnect's initial state message still delivers the completion": a
\* client that subscribes during the run ends up showing that it is over.  Not
\* so: the message read before the run ended is written after the event.
ReconnectDeliversCompletion ==
  Quiet => \A c \in Conns : Subscribed(c) => shown[c] = FALSE

\* However many clients come and go, their sockets hold up the job only in one
\* way: a write that fails with a close status, whose UnSubscribe blocks the
\* topic's worker for good, and with it, once the channel is full, the job.
JobsEnd == running ~> ~running \/ worker = "unsubscribe"
=============================================================================
