-------------------------- MODULE MonitoringProofs --------------------------
(***************************************************************************)
(* Proofs about Monitoring, for any keys, issues and providers, any length *)
(* of the queue and any number of faults: counts are neither lost nor      *)
(* repeated while the process runs, and an issue is mailed about once.     *)
(***************************************************************************)
EXTENDS Monitoring, TLAPS

-----------------------------------------------------------------------------
(* The usage recorder. *)

UsageInv == UsageTypeOK /\ CountsSurvive

LEMMA UsageInitially ==
  ASSUME UsageInit
  PROVE  UsageInv
<1>1. UsageTypeOK
  <2>1. flushing \in BOOLEAN
    BY DEF UsageInit
  <2>. QED
    BY <2>1 DEF UsageInit, UsageTypeOK, Zero
<1>2. ASSUME NEW k \in Keys
      PROVE  recorded[k] = 0 /\ daily[k] = 0 /\ OnTheWay(k) = 0
  BY DEF UsageInit, OnTheWay, Zero
<1>. QED
  BY <1>1, <1>2 DEF UsageInv, CountsSurvive

LEMMA RecordStep ==
  ASSUME UsageInv, NEW k \in Keys, Record(k)
  PROVE  UsageInv'
BY MaxRecordsAssumption
   DEF Record, UsageInv, UsageTypeOK, CountsSurvive, OnTheWay

\* What is swapped out is on its way, and nothing was before.
LEMMA TakeBatchStep ==
  ASSUME UsageInv, TakeBatch
  PROVE  UsageInv'
BY DEF TakeBatch, UsageInv, UsageTypeOK, CountsSurvive, OnTheWay, Zero

LEMMA AddEntryStep ==
  ASSUME UsageInv, NEW k \in Keys, AddEntry(k), flushing
  PROVE  UsageInv'
BY DEF AddEntry, UsageInv, UsageTypeOK, CountsSurvive, OnTheWay

LEMMA FlushEndsStep ==
  ASSUME UsageInv, FlushEnds
  PROVE  UsageInv'
BY DEF FlushEnds, UsageInv, UsageTypeOK, CountsSurvive, OnTheWay, Zero

\* Merging back puts every entry of the batch on its way once more.
LEMMA FlushFailsStep ==
  ASSUME UsageInv, FlushFails
  PROVE  UsageInv'
<1>1. PICK k \in unwritten :
        daily' \in {daily, [daily EXCEPT ![k] = @ + batch[k]]}
  BY DEF FlushFails
<1>2. /\ daily' \in [Keys -> Nat]
      /\ \A j \in Keys : daily'[j] = daily[j] \/ daily'[j] = daily[j] + batch[j]
  BY <1>1 DEF UsageInv, UsageTypeOK
<1>3. UsageTypeOK'
  <2>1. flushing' \in BOOLEAN
    BY DEF FlushFails, UsageInv, UsageTypeOK
  <2>2. counts' \in [Keys -> Nat] /\ batch' \in [Keys -> Nat] /\ failed' \subseteq Keys
    BY DEF FlushFails, UsageInv, UsageTypeOK, Zero
  <2>. QED
    BY <1>2, <2>1, <2>2 DEF FlushFails, UsageInv, UsageTypeOK
<1>4. ASSUME NEW j \in Keys
      PROVE  /\ OnTheWay(j)' = counts[j] + batch[j]
             /\ batch[j] > 0 => j \in failed'
             /\ recorded' = recorded /\ lost' = lost /\ failed \subseteq failed'
             /\ counts[j] \in Nat /\ batch[j] \in Nat /\ daily[j] \in Nat
             /\ recorded[j] \in Nat
             /\ OnTheWay(j) \in {counts[j], counts[j] + batch[j]}
  BY DEF FlushFails, OnTheWay, UsageInv, UsageTypeOK
<1>. QED
  BY <1>2, <1>3, <1>4 DEF UsageInv, CountsSurvive

\* A panic takes from memory what was not written of the batch.
LEMMA FlushPanicsStep ==
  ASSUME UsageInv, FlushPanics
  PROVE  UsageInv'
<1>1. PICK k \in unwritten :
        daily' \in {daily, [daily EXCEPT ![k] = @ + batch[k]]}
  BY DEF FlushPanics
<1>2. /\ daily' \in [Keys -> Nat]
      /\ \A j \in Keys : \/ daily'[j] = daily[j]
                         \/ j \in unwritten /\ daily'[j] = daily[j] + batch[j]
  <2>1. /\ daily \in [Keys -> Nat] /\ batch \in [Keys -> Nat]
        /\ k \in unwritten /\ k \in Keys
    BY <1>1 DEF UsageInv, UsageTypeOK
  <2>2. CASE daily' = daily
    BY <2>1, <2>2
  <2>3. CASE daily' = [daily EXCEPT ![k] = @ + batch[k]]
    BY <2>1, <2>3
  <2>. QED
    BY <1>1, <2>2, <2>3
<1>3. UsageTypeOK'
  <2>1. flushing' \in BOOLEAN
    BY DEF FlushPanics
  <2>2. batch' \in [Keys -> Nat] /\ lost' \subseteq Keys /\ unwritten' = {}
    BY DEF FlushPanics, UsageInv, UsageTypeOK, Zero
  <2>. QED
    BY <1>2, <2>1, <2>2 DEF FlushPanics, UsageInv, UsageTypeOK
<1>4. ASSUME NEW j \in Keys
      PROVE  /\ OnTheWay(j)' = counts[j]
             /\ j \in unwritten => j \in lost' /\ OnTheWay(j) = counts[j] + batch[j]
             /\ j \notin unwritten => OnTheWay(j) = counts[j]
             /\ lost \subseteq lost' /\ UNCHANGED <<recorded, failed>>
             /\ counts[j] \in Nat /\ batch[j] \in Nat /\ daily[j] \in Nat
             /\ recorded[j] \in Nat
  BY DEF FlushPanics, OnTheWay, UsageInv, UsageTypeOK
<1>. QED
  BY <1>2, <1>3, <1>4 DEF UsageInv, CountsSurvive

\* A stop takes all of them.
LEMMA UsageStopsStep ==
  ASSUME UsageInv, UsageStops
  PROVE  UsageInv'
<1>1. UsageTypeOK'
  <2>1. flushing' \in BOOLEAN
    BY DEF UsageStops
  <2>2. counts' \in [Keys -> Nat] /\ batch' \in [Keys -> Nat] /\ lost' \subseteq Keys
    BY DEF UsageStops, UsageInv, UsageTypeOK, Zero
  <2>. QED
    BY <2>1, <2>2 DEF UsageStops, UsageInv, UsageTypeOK
<1>2. ASSUME NEW k \in Keys
      PROVE  /\ OnTheWay(k)' = 0 /\ OnTheWay(k) \in Nat
             /\ daily'[k] = daily[k] /\ recorded'[k] = recorded[k] /\ failed' = failed
             /\ daily[k] \in Nat /\ recorded[k] \in Nat
  BY DEF UsageStops, OnTheWay, UsageInv, UsageTypeOK, Zero
<1>3. ASSUME NEW k \in Keys
      PROVE  k \in failed' \/ daily'[k] + OnTheWay(k)' <= recorded'[k]
  BY <1>2 DEF UsageInv, CountsSurvive
<1>4. ASSUME NEW k \in Keys
      PROVE  k \in lost' \/ recorded'[k] <= daily'[k] + OnTheWay(k)'
  <2>1. CASE OnTheWay(k) = 0
    BY <1>2, <2>1 DEF UsageInv, CountsSurvive, UsageStops
  <2>2. CASE OnTheWay(k) # 0
    <3>1. k \in unwritten \/ counts[k] > 0
      BY <2>2 DEF OnTheWay, UsageInv, UsageTypeOK
    <3>. QED
      BY <3>1 DEF UsageStops
  <2>. QED
    BY <2>1, <2>2
<1>. QED
  BY <1>1, <1>3, <1>4 DEF UsageInv, CountsSurvive

LEMMA UsageStep ==
  ASSUME UsageInv, [Next]_vars
  PROVE  UsageInv'
<1>1. CASE UNCHANGED usageVars
  BY <1>1 DEF usageVars, memory, UsageInv, UsageTypeOK, CountsSurvive, OnTheWay
<1>2. CASE UsageNext
  <2>1. ASSUME NEW k \in Keys, AddEntry(k)
        PROVE  flushing
    BY <2>1 DEF AddEntry, UsageInv, UsageTypeOK
  <2>. QED
    BY <1>2, <2>1, RecordStep, TakeBatchStep, AddEntryStep, FlushEndsStep
       DEF UsageNext, Flush
<1>. QED
  BY <1>1, <1>2, FlushFailsStep, FlushPanicsStep, UsageStopsStep DEF Next, Fault, Restart, vars

-----------------------------------------------------------------------------
(* The issue notifier. *)

\* A mail under way for an issue that was mailed before is a raced one, and so
\* is the second of two mails under way for one issue; what was mailed is
\* recorded, about to be, or raced.
NotifierInv ==
  /\ NotifierTypeOK
  /\ MailedOnce
  /\ mailed \subseteq notified \cup accepted \cup raced
  /\ sending = {} \/ accepted = {}
  /\ \A j, k \in accepted : j = k
  /\ (offered \cup sending) \cap mailed \subseteq raced
  /\ offered \cap sending \subseteq raced
  /\ \A i \in DOMAIN queue :
       queue[i] \in offered \cup sending \cup mailed => queue[i] \in raced
  /\ \A i, j \in DOMAIN queue : i # j /\ queue[i] = queue[j] => queue[i] \in raced

LEMMA NotifierInitially ==
  ASSUME NotifierInit
  PROVE  NotifierInv
BY NotifierAssumption DEF NotifierInit, NotifierInv, NotifierTypeOK, MailedOnce

LEMMA ProvidersStep ==
  ASSUME NotifierInv, NEW k \in Issues, Appears(k) \/ IsResolved(k)
  PROVE  NotifierInv'
BY DEF Appears, IsResolved, run, worker, histories, NotifierInv, NotifierTypeOK, MailedOnce

\* The steps of the job that only move it along its list.
LEMMA JobMovesStep ==
  ASSUME NotifierInv,
         RunBegins \/ NextProvider \/ ListingFails \/ ExistsFails \/ RunEnds
  PROVE  NotifierInv'
<1>1. /\ UNCHANGED <<open, worker, notified, histories>>
      /\ offered' = offered /\ todo' \subseteq Issues /\ provider' \in 0 .. Providers
  BY NotifierAssumption
     DEF RunBegins, NextProvider, ListingFails, ExistsFails, RunEnds, Lists, worker, histories,
         NotifierInv, NotifierTypeOK
<1>. QED
  BY <1>1 DEF worker, histories, NotifierInv, NotifierTypeOK, MailedOnce

LEMMA NotifyOnceStep ==
  ASSUME NotifierInv, NEW k \in Issues, NotifyOnce(k)
  PROVE  NotifierInv'
<1>1. NotifierTypeOK' /\ MailedOnce'
  BY DEF NotifyOnce, worker, NotifierInv, NotifierTypeOK, MailedOnce
<1>2. raced \subseteq raced' /\ (k \in UnderWay => k \in raced') /\ offered' \subseteq {k} \ notified
  BY DEF NotifyOnce
<1>3. UNCHANGED <<worker, notified, mailed>>
  BY DEF NotifyOnce
<1>. QED
  BY <1>1, <1>2, <1>3 DEF UnderWay, worker, NotifierInv

\* What Append and Tail keep of the queue.
LEMMA AppendKeeps ==
  ASSUME NEW q \in Seq(Issues), NEW k \in Issues
  PROVE  /\ Append(q, k) \in Seq(Issues) /\ Len(Append(q, k)) = Len(q) + 1
         /\ \A i \in DOMAIN Append(q, k) :
              \/ i \in DOMAIN q /\ Append(q, k)[i] = q[i]
              \/ i = Len(q) + 1 /\ Append(q, k)[i] = k
OBVIOUS

LEMMA TailKeeps ==
  ASSUME NEW q \in Seq(Issues), q # <<>>
  PROVE  /\ Tail(q) \in Seq(Issues) /\ Len(Tail(q)) = Len(q) - 1
         /\ Head(q) = q[1] /\ 1 \in DOMAIN q /\ Head(q) \in Issues
         /\ \A i \in DOMAIN Tail(q) :
              i + 1 \in DOMAIN q /\ i + 1 # 1 /\ Tail(q)[i] = q[i + 1] /\ i \in Nat
OBVIOUS

LEMMA EnqueueStep ==
  ASSUME NotifierInv, Enqueue
  PROVE  NotifierInv'
<1>1. PICK k \in offered : queue' = Append(queue, k)
  BY DEF Enqueue
<1>2. k \in Issues /\ queue \in Seq(Issues) /\ Len(queue) \in Nat
  BY <1>1 DEF NotifierInv, NotifierTypeOK
<1>3. /\ queue' \in Seq(Issues) /\ Len(queue') = Len(queue) + 1
      /\ \A i \in DOMAIN queue' :
           (i \in DOMAIN queue /\ queue'[i] = queue[i]) \/ (i = Len(queue) + 1 /\ queue'[i] = k)
  BY <1>1, <1>2, AppendKeeps
<1>4. NotifierTypeOK'
  BY <1>2, <1>3, NotifierAssumption DEF Enqueue, histories, NotifierInv, NotifierTypeOK
<1>5. offered' = {} /\ UNCHANGED <<sending, accepted, notified, mailed, raced, again>>
  BY DEF Enqueue, histories
<1>. QED
  BY <1>3, <1>4, <1>5 DEF NotifierInv, MailedOnce

LEMMA TakesStep ==
  ASSUME NotifierInv, Takes
  PROVE  NotifierInv'
<1>1. queue \in Seq(Issues) /\ queue # <<>> /\ queue' = Tail(queue)
  BY DEF Takes, NotifierInv, NotifierTypeOK
<1>2. /\ queue' \in Seq(Issues) /\ Len(queue') = Len(queue) - 1
      /\ Head(queue) = queue[1] /\ 1 \in DOMAIN queue /\ Head(queue) \in Issues
      /\ \A i \in DOMAIN queue' :
           i + 1 \in DOMAIN queue /\ i + 1 # 1 /\ queue'[i] = queue[i + 1] /\ i \in Nat
  BY <1>1, TailKeeps
<1>3. NotifierTypeOK'
  BY <1>1, <1>2, NotifierAssumption DEF Takes, run, histories, NotifierInv, NotifierTypeOK
<1>4. /\ sending = {} /\ accepted = {} /\ sending' = {queue[1]} /\ offered' = offered
      /\ UNCHANGED <<accepted, notified, mailed, raced, again>>
  BY <1>2 DEF Takes, run, histories
<1>5. \A i, j \in DOMAIN queue' : i # j => i + 1 # j + 1
  BY <1>2
<1>6. \A i, j \in DOMAIN queue' : i # j /\ queue'[i] = queue'[j] => queue'[i] \in raced'
  BY <1>2, <1>4, <1>5 DEF NotifierInv
<1>7. \A i \in DOMAIN queue' :
        queue'[i] \in offered' \cup sending' \cup mailed' => queue'[i] \in raced'
  BY <1>2, <1>4 DEF NotifierInv
<1>. QED
  BY <1>2, <1>3, <1>4, <1>6, <1>7 DEF NotifierInv, MailedOnce

LEMMA SendAcceptedStep ==
  ASSUME NotifierInv, NEW k \in Issues, SendAccepted(k)
  PROVE  NotifierInv'
<1>1. NotifierTypeOK'
  BY DEF SendAccepted, run, NotifierInv, NotifierTypeOK
<1>2. /\ k \in sending /\ accepted = {} /\ mailed' = mailed \cup {k}
      /\ accepted' = {k} /\ sending' = {}
      /\ UNCHANGED <<offered, queue, notified, raced>>
  BY DEF SendAccepted, run, NotifierInv
<1>3. MailedOnce'
  BY DEF SendAccepted, NotifierInv, MailedOnce
<1>. QED
  BY <1>1, <1>2, <1>3 DEF NotifierInv

LEMMA SendFailsStep ==
  ASSUME NotifierInv, SendFails
  PROVE  NotifierInv'
<1>1. PICK out \in SUBSET sending : mailed' = mailed \cup out /\ raced' = raced \cup out
  BY DEF SendFails
<1>2. sending' = {} /\ UNCHANGED <<open, run, queue, accepted, notified, again>>
  BY DEF SendFails
<1>. QED
  BY <1>1, <1>2 DEF run, NotifierInv, NotifierTypeOK, MailedOnce

LEMMA InsertStep ==
  ASSUME NotifierInv, InsertFails \/ \E k \in Issues : InsertNotified(k)
  PROVE  NotifierInv'
<1>1. CASE InsertFails
  BY <1>1 DEF InsertFails, run, NotifierInv, NotifierTypeOK, MailedOnce
<1>2. ASSUME NEW k \in Issues, InsertNotified(k)
      PROVE  NotifierInv'
  BY <1>2 DEF InsertNotified, run, histories, NotifierInv, NotifierTypeOK, MailedOnce
<1>. QED
  BY <1>1, <1>2

LEMMA NotifierStopsStep ==
  ASSUME NotifierInv, NotifierStops
  PROVE  NotifierInv'
<1>1. <<>> \in Seq(Issues) /\ Len(<<>>) = 0 /\ DOMAIN <<>> = {}
  OBVIOUS
<1>. QED
  BY <1>1, NotifierAssumption DEF NotifierStops, NotifierInv, NotifierTypeOK, MailedOnce

LEMMA NotifierStep ==
  ASSUME NotifierInv, [Next]_vars
  PROVE  NotifierInv'
<1>1. CASE UNCHANGED notifierVars
  BY <1>1 DEF notifierVars, run, worker, histories, NotifierInv, NotifierTypeOK, MailedOnce
<1>2. CASE NotifierNext
  BY <1>2, ProvidersStep, JobMovesStep, EnqueueStep, NotifyOnceStep, TakesStep,
     SendAcceptedStep, InsertStep
     DEF NotifierNext, JobStep, WorkerStep
<1>3. CASE NotifierFails
  BY <1>3, JobMovesStep, SendFailsStep, InsertStep DEF NotifierFails
<1>. QED
  BY <1>1, <1>2, <1>3, NotifierStopsStep DEF Next, Fault, Restart, vars

-----------------------------------------------------------------------------
(* Both, in any behaviour of the process. *)

\* The recorder's state has its type.
THEOREM UsageTypeCorrect == Spec => []UsageTypeOK
<1>1. Init => UsageInv
  BY UsageInitially DEF Init
<1>2. UsageInv /\ [Next]_vars => UsageInv'
  BY UsageStep
<1>3. UsageInv => UsageTypeOK
  BY DEF UsageInv
<1>. QED
  BY <1>1, <1>2, <1>3, PTL DEF Spec

\* No request is lost between the counts, a batch and the rows unless a stop of
\* the process or a panic of a flush took it from memory, and none is counted
\* twice unless a flush of its key failed.
THEOREM CountsAreKept == Spec => []CountsSurvive
<1>1. Init => UsageInv
  BY UsageInitially DEF Init
<1>2. UsageInv /\ [Next]_vars => UsageInv'
  BY UsageStep
<1>3. UsageInv => CountsSurvive
  BY DEF UsageInv
<1>. QED
  BY <1>1, <1>2, <1>3, PTL DEF Spec

\* The notifier's state has its type, and its queue its bound.
THEOREM NotifierTypeCorrect == Spec => []NotifierTypeOK
<1>1. Init => NotifierInv
  BY NotifierInitially DEF Init
<1>2. NotifierInv /\ [Next]_vars => NotifierInv'
  BY NotifierStep
<1>3. NotifierInv => NotifierTypeOK
  BY DEF NotifierInv
<1>. QED
  BY <1>1, <1>2, <1>3, PTL DEF Spec

\* An issue is mailed about once, however its runs, its mails and the faults of
\* the mailer and the database interleave, unless a run raced with a mail.
THEOREM IssuesAreMailedOnce == Spec => []MailedOnce
<1>1. Init => NotifierInv
  BY NotifierInitially DEF Init
<1>2. NotifierInv /\ [Next]_vars => NotifierInv'
  BY NotifierStep
<1>3. NotifierInv => MailedOnce
  BY DEF NotifierInv
<1>. QED
  BY <1>1, <1>2, <1>3, PTL DEF Spec
=============================================================================
