----------------------------- MODULE Notifier -----------------------------
(***************************************************************************)
(* IssueNotifierJob and the notifications service it mails through: every  *)
(* five minutes the job lists the open issues of its providers in turn and *)
(* queues a mail for each that is not in global.notified_issues; one       *)
(* worker sends the mails in order and records an issue once its mail was  *)
(* accepted.  Other services' mails only take up the worker's time and are *)
(* left out, as is a provider or mailer that is not configured.            *)
(***************************************************************************)
EXTENDS Naturals, Sequences

CONSTANTS Issues, ProviderOf,
          Providers,  \* 1 .. Providers, in the order the job asks them
          QueueSize

ASSUME NotifierAssumption ==
  /\ Providers \in Nat \ {0} /\ ProviderOf \in [Issues -> 1 .. Providers]
  /\ QueueSize \in Nat \ {0}

VARIABLES
  open,      \* issues the providers report
  provider,  \* the provider whose issues the run is at, 0 between runs
  todo,      \* its issues the run has still to look at
  offered,   \* the issue whose mail EnqueueWork is offering to the queue
  queue,     \* mails waiting for the worker
  sending,   \* the mail it is sending
  accepted,  \* the mail whose OnResult it is running
  notified,  \* global.notified_issues
  mailed,    \* history: issues a mail of which was accepted
  raced,     \* history: issues offered while a mail of theirs was under way,
             \* or mailed and not recorded
  again      \* history: other issues mailed more than once

run == <<provider, todo, offered>>
worker == <<queue, sending, accepted>>
histories == <<mailed, raced, again>>
notifierVars == <<open, run, worker, notified, histories>>

\* offered, sending and accepted hold at most one issue.
UnderWay == {queue[i] : i \in DOMAIN queue} \cup sending \cup accepted

NotifierInit ==
  /\ open \in SUBSET Issues
  /\ provider = 0 /\ todo = {} /\ offered = {}
  /\ queue = <<>> /\ sending = {} /\ accepted = {}
  /\ notified = {} /\ mailed = {} /\ raced = {} /\ again = {}

-----------------------------------------------------------------------------
(* Plausible bugs, used only to show that the properties can fail. *)

\* A mail is queued whether the issue was notified or not.
QueuesAgain(k) ==
  /\ offered = {} /\ k \in todo
  /\ todo' = todo \ {k} /\ offered' = {k}
  /\ raced' = raced \cup ({k} \cap UnderWay)
  /\ UNCHANGED <<open, provider, worker, notified, mailed, again>>

\* The run stops at the first issue that was notified already.
StopsAtKnown(k) ==
  /\ offered = {} /\ k \in todo
  /\ todo' = IF k \in notified THEN {} ELSE todo \ {k}
  /\ provider' = IF k \in notified THEN 0 ELSE provider
  /\ offered' = {k} \ notified
  /\ raced' = raced \cup ({k} \cap UnderWay)
  /\ UNCHANGED <<open, worker, notified, mailed, again>>

-----------------------------------------------------------------------------
(* The providers. *)

Appears(k) ==
  /\ k \notin open /\ open' = open \cup {k}
  /\ UNCHANGED <<run, worker, notified, histories>>

IsResolved(k) ==
  /\ k \in open /\ open' = open \ {k}
  /\ UNCHANGED <<run, worker, notified, histories>>

-----------------------------------------------------------------------------
(* A run of the job. *)

Lists(p) ==
  /\ provider' = p
  /\ todo' = {k \in open : ProviderOf[k] = p}
  /\ UNCHANGED <<open, offered, worker, notified, histories>>

RunBegins == provider = 0 /\ Lists(1)

NextProvider ==
  /\ provider \in 1 .. Providers - 1 /\ todo = {} /\ offered = {}
  /\ Lists(provider + 1)

\* A provider that cannot be listed is logged and passed over.
ListingFails ==
  /\ provider \in 0 .. Providers - 1 /\ todo = {} /\ offered = {}
  /\ provider' = provider + 1
  /\ UNCHANGED <<open, todo, offered, worker, notified, histories>>

\* notifyOnce: Exists, then Enqueue.
NotifyOnce(k) ==
  /\ offered = {} /\ k \in todo
  /\ todo' = todo \ {k}
  /\ offered' = {k} \ notified
  /\ raced' = raced \cup ({k} \cap UnderWay)
  /\ UNCHANGED <<open, provider, worker, notified, mailed, again>>

\* EnqueueWork blocks while the queue is full.
Enqueue ==
  /\ \E k \in offered : queue' = Append(queue, k)
  /\ Len(queue) < QueueSize
  /\ offered' = {}
  /\ UNCHANGED <<open, provider, todo, sending, accepted, notified, histories>>

\* A query that fails ends the run, and with it the providers that follow.
ExistsFails ==
  /\ offered = {} /\ todo # {}
  /\ provider' = 0 /\ todo' = {}
  /\ UNCHANGED <<open, offered, worker, notified, histories>>

RunEnds ==
  /\ provider = Providers /\ todo = {} /\ offered = {}
  /\ provider' = 0
  /\ UNCHANGED <<open, todo, offered, worker, notified, histories>>

-----------------------------------------------------------------------------
(* The delivery worker. *)

Takes ==
  /\ queue # <<>> /\ sending = {} /\ accepted = {}
  /\ sending' = {Head(queue)} /\ queue' = Tail(queue)
  /\ UNCHANGED <<open, run, accepted, notified, histories>>

SendAccepted(k) ==
  /\ k \in sending
  /\ mailed' = mailed \cup {k}
  /\ again' = again \cup (({k} \cap mailed) \ raced)
  /\ accepted' = {k} /\ sending' = {}
  /\ UNCHANGED <<open, run, queue, notified, raced>>

\* Nothing is recorded, so the next run finds the issue again; the mail may be
\* out although its answer was lost.
SendFails ==
  /\ sending # {} /\ sending' = {}
  /\ \E out \in SUBSET sending : mailed' = mailed \cup out /\ raced' = raced \cup out
  /\ UNCHANGED <<open, run, queue, accepted, notified, again>>

InsertNotified(k) ==
  /\ k \in accepted /\ accepted' = {}
  /\ notified' = notified \cup {k}
  /\ UNCHANGED <<open, run, queue, sending, histories>>

InsertFails ==
  /\ accepted # {} /\ accepted' = {}
  /\ raced' = raced \cup accepted
  /\ UNCHANGED <<open, run, queue, sending, notified, mailed, again>>

\* The process stops: the queue is lost, and a mail may be out unrecorded.
NotifierStops ==
  /\ provider' = 0 /\ todo' = {} /\ offered' = {}
  /\ queue' = <<>> /\ sending' = {} /\ accepted' = {}
  /\ raced' = raced \cup accepted
  /\ UNCHANGED <<open, notified, mailed, again>>

-----------------------------------------------------------------------------
JobStep ==
  \/ RunBegins \/ NextProvider \/ Enqueue \/ RunEnds
  \/ \E k \in Issues : NotifyOnce(k)

WorkerStep == Takes \/ \E k \in Issues : SendAccepted(k) \/ InsertNotified(k)

NotifierNext ==
  \/ \E k \in Issues : Appears(k) \/ IsResolved(k)
  \/ JobStep \/ WorkerStep

NotifierFails == ListingFails \/ ExistsFails \/ SendFails \/ InsertFails

\* The job comes round every five minutes and the worker never stops.
NotifierFairness == WF_notifierVars(JobStep) /\ WF_notifierVars(WorkerStep)

-----------------------------------------------------------------------------
(* Properties. *)

NotifierTypeOK ==
  /\ open \subseteq Issues /\ provider \in 0 .. Providers
  /\ todo \subseteq Issues /\ offered \subseteq Issues
  /\ queue \in Seq(Issues) /\ Len(queue) <= QueueSize
  /\ sending \subseteq Issues /\ accepted \subseteq Issues /\ notified \subseteq Issues
  /\ mailed \subseteq Issues /\ raced \subseteq Issues /\ again \subseteq Issues

\* An issue that counts as notified was mailed, and mailed once however often
\* it is listed and whatever comes in between, unless the job came round again
\* before the mail was delivered and recorded, or recording it failed.
MailedOnce == notified \cup accepted \subseteq mailed /\ again = {}

\* An issue that stays open is mailed about in the end: this is
\* k \in open ~> k \in notified \/ k \notin open, in a form TLC checks faster.
OpenIssueIsNotified ==
  \A k \in Issues : []<>(k \in notified \/ k \notin open)
=============================================================================
