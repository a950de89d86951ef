----------------------------- MODULE TopicFeed -----------------------------
(***************************************************************************)
(* A topic whose events are numbered in the order they are published, and  *)
(* whose onSubscribeCallback returns the number of the newest one: what a  *)
(* subscriber of any topic can rely on.                                    *)
(***************************************************************************)
EXTENDS Topic

CONSTANT MaxEvents  \* bound on the events of a behaviour

Numbers == 0..MaxEvents

ASSUME EventsAssumption == MaxEvents \in Nat /\ NoValue \notin Numbers

VARIABLES published,  \* the newest event
          processed,  \* the newest event the worker has finished with
          got         \* every message each client received

vars == <<topicVars, published, processed, got>>

Init ==
  /\ TopicInit
  /\ published = 0
  /\ processed = 0
  /\ got = [c \in Conns |-> {}]

\* What a client is shown it has received.
Received == got' = [c \in Conns |-> got[c] \cup ({shown'[c]} \ {NoValue})]

PublishNext ==
  /\ published < MaxEvents
  /\ Publish(published + 1)
  /\ published' = published + 1
  /\ UNCHANGED <<processed, got>>

FetchNewest(c) == Fetch(c, published) /\ UNCHANGED <<published, processed, got>>

Work ==
  /\ WorkerStep
  /\ processed' = IF EndDelivery THEN event ELSE processed
  /\ Received
  /\ UNCHANGED published

Handle(c) == HandlerStep(c) /\ Received /\ UNCHANGED <<published, processed>>

Client(c) == ClientStep(c) /\ UNCHANGED <<published, processed, got>>

Next ==
  \/ PublishNext
  \/ Work
  \/ \E c \in Conns : FetchNewest(c) \/ Handle(c) \/ Client(c)

Spec == Init /\ [][Next]_vars

\* The worker and the handlers run; a write to an open connection returns.
FairSpec ==
  /\ Spec
  /\ WF_vars(Work)
  /\ \A c \in Conns : SF_vars(Handle(c)) /\ WF_vars(FetchNewest(c))

-----------------------------------------------------------------------------
(* Properties. *)

TypeOK ==
  /\ TopicTypeOK(Numbers)
  /\ published \in Numbers
  /\ processed \in Numbers
  /\ got \in [Conns -> SUBSET Numbers]

\* A subscriber misses nothing: of every event the worker is done with, it
\* received that event or a first message that already accounts for it.
NothingMissed ==
  \A c \in Conns : Subscribed(c) /\ processed > 0
    => \E v \in got[c] : v >= processed

\* A subscriber is in the list once, whoever was removed around it, and a
\* client whose subscription is complete is in the list.
ListedOnce ==
  /\ \A m, n \in DOMAIN subscribers : subscribers[m] = subscribers[n] => m = n
  /\ \A c \in Conns : Subscribed(c) => InList(sub[c])

\* A closed client does not keep the others from the events after it; only a
\* worker that unsubscribes one does.
EventsKeepFlowing ==
  \A v \in 1..MaxEvents : published = v ~> processed >= v \/ worker = "unsubscribe"

\* "If the connection would be closed, [UnSubscribe] will be called": a
\* subscriber whose connection is found closed by a delivery leaves the list.
\* Not so: UnSubscribe waits for the lock its own worker holds.
ClosedSubscribersLeave ==
  \A s \in Subs :
    (worker = "deliver" /\ left # <<>> /\ Head(left) = s /\ link[connOf[s]] = "closed")
      ~> ~InList(s)
=============================================================================
