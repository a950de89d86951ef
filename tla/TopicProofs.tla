---------------------------- MODULE TopicProofs ----------------------------
(***************************************************************************)
(* Proofs about topics, for any connections, subscribers and capacity and  *)
(* either kind of write error.  What TopicFeed and ProgressFeed share is   *)
(* proved once, for a step of a topic that carries any messages: who is in *)
(* the list of subscribers.  From it follow what a subscriber of a topic   *)
(* can rely on, and that the clients of a job see its end.                 *)
(***************************************************************************)
EXTENDS TopicFeed, ProgressFeed, SequenceTheorems, TLAPS

-----------------------------------------------------------------------------
(* A step of a topic. *)

TopicStep(Messages) ==
  \/ WorkerStep
  \/ \E c \in Conns : HandlerStep(c) \/ ClientStep(c) \/ \E v \in Messages : Fetch(c, v)
  \/ \E v \in Messages : Publish(v)
  \/ UNCHANGED topicVars

\* Where a handler is and what it holds fit each other; the worker has an
\* event unless it is idle.
Consistent(Messages) ==
  /\ \A c \in Conns :
       /\ sub[c] # NoValue => connOf[sub[c]] = c
       /\ handler[c] \in {"add", "fetch", "write", "remove"} => sub[c] # NoValue
       /\ handler[c] \in {"remove", "returned"} => link[c] = "closed"
       /\ IF handler[c] = "write" THEN first[c] \in Messages ELSE first[c] = NoValue
       /\ link[c] = "unopened" => sub[c] = NoValue
  /\ worker = "idle" <=> event = NoValue

\* Only subscribers of a connection are listed, and none before it is added.
Listed ==
  /\ \A s \in Subs : InList(s) => connOf[s] # NoValue
  /\ \A c \in Conns :
       /\ handler[c] = "add" => ~InList(sub[c])
       /\ handler[c] \in {"fetch", "write", "remove"} => InList(sub[c])

TopicInv(Messages) == TopicTypeOK(Messages) /\ Consistent(Messages) /\ Listed /\ ListedOnce

LEMMA TopicInitially ==
  ASSUME NEW Messages, TopicInit
  PROVE  TopicInv(Messages)
BY BufferAssumption
   DEF TopicInit, TopicInv, TopicTypeOK, Consistent, Listed, ListedOnce, Subscribed, InList

-----------------------------------------------------------------------------
(* The list. *)

LEMMA AppendLists ==
  ASSUME subscribers \in Seq(Subs), NEW s \in Subs, ~InList(s), ListedOnce,
         subscribers' = Append(subscribers, s)
  PROVE  /\ subscribers' \in Seq(Subs)
         /\ \A r : InList(r)' <=> InList(r) \/ r = s
         /\ \A m, n \in DOMAIN subscribers' : subscribers'[m] = subscribers'[n] => m = n
<1>1. DOMAIN subscribers' = 1..Len(subscribers) + 1 /\ DOMAIN subscribers = 1..Len(subscribers)
  OBVIOUS
<1>2. \A m \in DOMAIN subscribers : subscribers'[m] = subscribers[m]
  OBVIOUS
<1>3. subscribers'[Len(subscribers) + 1] = s
  OBVIOUS
<1>4. \A m \in DOMAIN subscribers' : m = Len(subscribers) + 1 \/ m \in DOMAIN subscribers
  BY <1>1
<1>. QED
  BY <1>1, <1>2, <1>3, <1>4 DEF InList, ListedOnce

\* RemoveSubscriber takes out the subscriber asked for and nobody else.
LEMMA RemovedUnlists ==
  ASSUME subscribers \in Seq(Subs), NEW s \in Subs, InList(s), ListedOnce,
         subscribers' = Removed(s)
  PROVE  /\ subscribers' \in Seq(Subs)
         /\ \A r : InList(r)' <=> InList(r) /\ r # s
         /\ \A m, n \in DOMAIN subscribers' : subscribers'[m] = subscribers'[n] => m = n
<1>. DEFINE last == Len(subscribers)
            i == CHOOSE n \in DOMAIN subscribers : subscribers[n] = s
<1>1. i \in DOMAIN subscribers /\ subscribers[i] = s
  BY DEF InList
<1>2. last \in Nat /\ DOMAIN subscribers = 1..last /\ i \in 1..last
  BY <1>1
<1>3. subscribers' = [m \in 1 .. last - 1 |-> IF m = i THEN subscribers[last] ELSE subscribers[m]]
  BY DEF Removed
<1>6. subscribers' \in Seq(Subs)
  BY <1>2, <1>3
<1>. HIDE DEF i, last
<1>4. DOMAIN subscribers' = 1 .. last - 1
  BY <1>3
<1>5. /\ i \in 1 .. last - 1 => subscribers'[i] = subscribers[last]
      /\ \A m \in 1 .. last - 1 : m # i => subscribers'[m] = subscribers[m]
  BY <1>3
<1>7. \A m, n \in DOMAIN subscribers' : subscribers'[m] = subscribers'[n] => m = n
  BY <1>1, <1>2, <1>4, <1>5 DEF ListedOnce
<1>8. ASSUME NEW r, InList(r)'
      PROVE  InList(r) /\ r # s
  <2>1. PICK m \in 1 .. last - 1 : subscribers'[m] = r
    BY <1>4, <1>8 DEF InList
  <2>. QED
    BY <1>1, <1>2, <1>5, <2>1 DEF InList, ListedOnce
<1>9. ASSUME NEW r, InList(r), r # s
      PROVE  InList(r)'
  <2>1. PICK m \in 1 .. last : subscribers[m] = r /\ m # i
    BY <1>1, <1>2, <1>9 DEF InList
  <2>2. CASE m = last
    <3>1. i \in DOMAIN subscribers' /\ subscribers'[i] = r
      BY <1>2, <1>4, <1>5, <2>1, <2>2
    <3>. QED
      BY <3>1 DEF InList
  <2>3. CASE m # last
    <3>1. m \in DOMAIN subscribers' /\ subscribers'[m] = r
      BY <1>2, <1>4, <1>5, <2>1, <2>3
    <3>. QED
      BY <3>1 DEF InList
  <2>. QED
    BY <2>2, <2>3
<1>. QED
  BY <1>6, <1>7, <1>8, <1>9

-----------------------------------------------------------------------------
(* The invariant of a topic. *)

LEMMA SubsApart ==
  ASSUME NEW Messages, TopicInv(Messages), NEW c \in Conns, NEW d \in Conns,
         sub[c] = sub[d], sub[c] # NoValue
  PROVE  c = d
BY DEF TopicInv, Consistent

\* What the handler of a connection and its client do to the list.
LEMMA ListSteps ==
  ASSUME NEW Messages, TopicInv(Messages), TopicStep(Messages)
  PROVE  \/ UNCHANGED subscribers
         \/ \E c \in Conns : AddSubscriber(c) \/ UnSubscribe(c)
BY DEF TopicStep, topicVars, delivery, WorkerStep, Dequeue, BeginDelivery, Deliver,
   DeliveryFails, DeliveryUnsubscribes, EndDelivery, HandlerStep, ReadFails, WriteFirst,
   WriteFirstFails, ClientStep, Connect, Disconnect, ReadSubscribe, Fetch, Publish

LEMMA TopicTypeStep ==
  ASSUME NEW Messages, NoValue \notin Messages, TopicInv(Messages), TopicStep(Messages)
  PROVE  TopicTypeOK(Messages)'
<1>. USE DEF TopicInv, TopicTypeOK
<1>1. CASE WorkerStep
  <2>1. CASE Dequeue
    <3>1. Head(queue) \in Messages /\ Tail(queue) \in Seq(Messages) /\ Len(Tail(queue)) = Len(queue) - 1
      BY <2>1, HeadTailProperties DEF Dequeue
    <3>. QED
      BY <2>1, <3>1, BufferAssumption DEF Dequeue, connections
  <2>2. CASE BeginDelivery \/ EndDelivery \/ DeliveryUnsubscribes
    BY <1>1, <2>2 DEF BeginDelivery, EndDelivery, DeliveryUnsubscribes, connections
  <2>3. CASE Deliver \/ DeliveryFails
    <3>1. Tail(left) \in Seq(Subs)
      BY <2>3, HeadTailProperties DEF Deliver, DeliveryFails
    <3>2. CASE Deliver
      BY <3>1, <3>2 DEF Deliver, Receives, connections
    <3>3. CASE DeliveryFails
      BY <3>1, <3>3 DEF DeliveryFails, connections
    <3>. QED
      BY <2>3, <3>2, <3>3
  <2>. QED
    BY <1>1, <2>1, <2>2, <2>3 DEF WorkerStep
<1>2. ASSUME NEW c \in Conns, ReadFails(c) \/ WriteFirst(c) \/ WriteFirstFails(c)
      PROVE  TopicTypeOK(Messages)'
  BY <1>2 DEF ReadFails, WriteFirst, WriteFirstFails, HandlerAt, Receives, delivery
<1>3. ASSUME NEW c \in Conns, AddSubscriber(c)
      PROVE  TopicTypeOK(Messages)'
  <2>1. sub[c] \in Subs
    BY <1>3 DEF AddSubscriber, HandlerAt, Consistent
  <2>. QED
    BY <1>3, <2>1 DEF AddSubscriber, HandlerAt, delivery
<1>4. ASSUME NEW c \in Conns, UnSubscribe(c)
      PROVE  TopicTypeOK(Messages)'
  <2>1. sub[c] \in Subs /\ InList(sub[c])
    BY <1>4 DEF UnSubscribe, HandlerAt, Consistent, Listed
  <2>2. subscribers' \in Seq(Subs)
    BY <1>4, <2>1, RemovedUnlists DEF UnSubscribe
  <2>. QED
    BY <1>4, <2>2 DEF UnSubscribe, HandlerAt, delivery
<1>5. ASSUME NEW c \in Conns, ClientStep(c) \/ \E v \in Messages : Fetch(c, v)
      PROVE  TopicTypeOK(Messages)'
  <2>1. CASE Connect(c) \/ Disconnect(c)
    BY <2>1 DEF Connect, Disconnect, delivery
  <2>2. CASE \E s \in Subs : ReadSubscribe(c, s)
    BY <2>2 DEF ReadSubscribe, HandlerAt, delivery
  <2>3. CASE \E v \in Messages : Fetch(c, v)
    BY <2>3 DEF Fetch, HandlerAt, delivery
  <2>. QED
    BY <1>5, <2>1, <2>2, <2>3 DEF ClientStep
<1>6. ASSUME NEW v \in Messages, Publish(v)
      PROVE  TopicTypeOK(Messages)'
  BY <1>6, BufferAssumption DEF Publish, connections
<1>7. CASE UNCHANGED topicVars
  BY <1>7 DEF topicVars, delivery, connections
<1>. QED
  BY <1>1, <1>2, <1>3, <1>4, <1>5, <1>6, <1>7 DEF TopicStep, HandlerStep

LEMMA ConsistentStep ==
  ASSUME NEW Messages, NoValue \notin Messages, TopicInv(Messages), TopicStep(Messages)
  PROVE  Consistent(Messages)'
<1>. USE DEF TopicInv, TopicTypeOK, Consistent
<1>1. CASE WorkerStep
  <2>1. CASE Dequeue
    <3>1. Head(queue) \in Messages
      BY <2>1, HeadTailProperties DEF Dequeue
    <3>. QED
      BY <2>1, <3>1 DEF Dequeue, connections
  <2>2. CASE BeginDelivery \/ EndDelivery \/ DeliveryUnsubscribes
    BY <2>2, ZenonT(30) DEF BeginDelivery, EndDelivery, DeliveryUnsubscribes, connections
  <2>3. CASE Deliver \/ DeliveryFails
    BY <2>3 DEF Deliver, DeliveryFails, connections
  <2>. QED
    BY <1>1, <2>1, <2>2, <2>3 DEF WorkerStep
<1>2. ASSUME NEW c \in Conns, HandlerStep(c)
      PROVE  Consistent(Messages)'
  <2>1. CASE ReadFails(c) \/ AddSubscriber(c) \/ UnSubscribe(c)
    BY <2>1 DEF ReadFails, AddSubscriber, UnSubscribe, HandlerAt, delivery
  <2>2. CASE WriteFirst(c) \/ WriteFirstFails(c)
    <3>1. /\ first' = [first EXCEPT ![c] = NoValue]
          /\ handler[c] = "write" /\ UNCHANGED <<worker, event, link, sub, connOf>>
          /\ \/ handler' = [handler EXCEPT ![c] = "read"]
             \/ handler' = [handler EXCEPT ![c] = "remove"] /\ link[c] = "closed"
      BY <2>2 DEF WriteFirst, WriteFirstFails, HandlerAt, delivery
    <3>2. /\ first'[c] = NoValue /\ handler'[c] # "write"
          /\ \A d \in Conns \ {c} : first'[d] = first[d] /\ handler'[d] = handler[d]
      BY <3>1
    <3>. QED
      BY <3>1, <3>2
  <2>. QED
    BY <1>2, <2>1, <2>2 DEF HandlerStep
<1>3. ASSUME NEW c \in Conns, Connect(c) \/ Disconnect(c)
      PROVE  Consistent(Messages)'
  BY <1>3 DEF Connect, Disconnect, delivery
<1>4. ASSUME NEW c \in Conns, NEW s \in Subs, ReadSubscribe(c, s)
      PROVE  Consistent(Messages)'
  BY <1>4, NoValueAssumption DEF ReadSubscribe, HandlerAt, delivery
<1>5. ASSUME NEW c \in Conns, NEW v \in Messages, Fetch(c, v)
      PROVE  Consistent(Messages)'
  BY <1>5 DEF Fetch, HandlerAt, delivery
<1>6. ASSUME NEW v \in Messages, Publish(v)
      PROVE  Consistent(Messages)'
  BY <1>6 DEF Publish, connections
<1>7. CASE UNCHANGED topicVars
  BY <1>7 DEF topicVars, delivery, connections
<1>. QED
  BY <1>1, <1>2, <1>3, <1>4, <1>5, <1>6, <1>7 DEF TopicStep, ClientStep

\* While the list stays as it is, so does who is to be in it: a handler has
\* added its subscriber before it goes on.
LEMMA ListedStep ==
  ASSUME NEW Messages, NoValue \notin Messages, TopicInv(Messages), TopicStep(Messages)
  PROVE  Listed' /\ ListedOnce'
<1>. USE DEF TopicInv, TopicTypeOK
<1>0. TopicTypeOK(Messages)' /\ Consistent(Messages)'
  BY TopicTypeStep, ConsistentStep
<1>1. ASSUME NEW c \in Conns, AddSubscriber(c)
      PROVE  Listed' /\ ListedOnce'
  <2>1. sub[c] \in Subs /\ connOf[sub[c]] = c /\ ~InList(sub[c])
    BY <1>1 DEF AddSubscriber, HandlerAt, Consistent, Listed
  <2>2. /\ \A r : InList(r)' <=> InList(r) \/ r = sub[c]
        /\ \A m, n \in DOMAIN subscribers' : subscribers'[m] = subscribers'[n] => m = n
    BY <1>1, <2>1, AppendLists DEF AddSubscriber
  <2>3. /\ handler[c] = "add" /\ handler' = [handler EXCEPT ![c] = "fetch"]
        /\ UNCHANGED <<link, sub, connOf>>
    BY <1>1 DEF AddSubscriber, HandlerAt
  <2>4. \A d \in Conns : sub[d] = sub[c] => d = c
    BY <2>1, SubsApart, NoValueAssumption
  <2>5. Listed'
    BY <2>1, <2>2, <2>3, <2>4, NoValueAssumption DEF Listed
  <2>6. \A d \in Conns : (Subscribed(d) => InList(sub[d]))'
    BY <2>2, <2>3 DEF Subscribed, ListedOnce
  <2>. QED
    BY <2>2, <2>5, <2>6 DEF ListedOnce
<1>2. ASSUME NEW c \in Conns, UnSubscribe(c)
      PROVE  Listed' /\ ListedOnce'
  <2>1. sub[c] \in Subs /\ InList(sub[c]) /\ link[c] = "closed"
    BY <1>2 DEF UnSubscribe, HandlerAt, Consistent, Listed
  <2>2. /\ \A r : InList(r)' <=> InList(r) /\ r # sub[c]
        /\ \A m, n \in DOMAIN subscribers' : subscribers'[m] = subscribers'[n] => m = n
    BY <1>2, <2>1, RemovedUnlists DEF UnSubscribe
  <2>3. /\ handler[c] = "remove" /\ handler' = [handler EXCEPT ![c] = "read"]
        /\ UNCHANGED <<link, sub, connOf>>
    BY <1>2 DEF UnSubscribe, HandlerAt
  <2>4. \A d \in Conns : sub[d] = sub[c] => d = c
    BY <2>1, SubsApart, NoValueAssumption
  <2>5. Listed'
    BY <2>1, <2>2, <2>3, <2>4 DEF Listed
  <2>6. \A d \in Conns : (Subscribed(d) => InList(sub[d]))'
    BY <2>1, <2>2, <2>3, <2>4 DEF Subscribed, ListedOnce
  <2>. QED
    BY <2>2, <2>5, <2>6 DEF ListedOnce
<1>3. CASE UNCHANGED subscribers
  <2>0. \A r : InList(r)' <=> InList(r)
    BY <1>3 DEF InList
  <2>1. \A m, n \in DOMAIN subscribers' : subscribers'[m] = subscribers'[n] => m = n
    BY <1>3 DEF ListedOnce
  <2>2. Listed' /\ \A d \in Conns : (Subscribed(d) => InList(sub[d]))'
    <3>1. CASE WorkerStep
      BY <2>0, <3>1
         DEF WorkerStep, Dequeue, BeginDelivery, Deliver, DeliveryFails, DeliveryUnsubscribes,
             EndDelivery, connections, Listed, ListedOnce, Subscribed
    <3>2. ASSUME NEW c \in Conns, ReadFails(c) \/ WriteFirst(c) \/ WriteFirstFails(c)
          PROVE  Listed' /\ \A d \in Conns : (Subscribed(d) => InList(sub[d]))'
      BY <2>0, <3>2
         DEF ReadFails, WriteFirst, WriteFirstFails, HandlerAt, delivery, Listed, ListedOnce, Subscribed
    <3>3. ASSUME NEW c \in Conns, AddSubscriber(c) \/ UnSubscribe(c)
          PROVE  Listed' /\ \A d \in Conns : (Subscribed(d) => InList(sub[d]))'
      BY <1>1, <1>2, <3>3 DEF ListedOnce
    <3>4. ASSUME NEW c \in Conns, Connect(c) \/ Disconnect(c)
          PROVE  Listed' /\ \A d \in Conns : (Subscribed(d) => InList(sub[d]))'
      BY <2>0, <3>4
         DEF Connect, Disconnect, delivery, Listed, ListedOnce, Subscribed, Consistent
    <3>5. ASSUME NEW c \in Conns, NEW s \in Subs, ReadSubscribe(c, s)
          PROVE  Listed' /\ \A d \in Conns : (Subscribed(d) => InList(sub[d]))'
      BY <2>0, <3>5, NoValueAssumption
         DEF ReadSubscribe, HandlerAt, delivery, Listed, ListedOnce, Subscribed
    <3>6. ASSUME NEW c \in Conns, NEW v \in Messages, Fetch(c, v)
          PROVE  Listed' /\ \A d \in Conns : (Subscribed(d) => InList(sub[d]))'
      BY <2>0, <3>6 DEF Fetch, HandlerAt, delivery, Listed, ListedOnce, Subscribed
    <3>7. ASSUME (\E v \in Messages : Publish(v)) \/ UNCHANGED topicVars
          PROVE  Listed' /\ \A d \in Conns : (Subscribed(d) => InList(sub[d]))'
      BY <2>0, <3>7 DEF Publish, topicVars, connections, Listed, ListedOnce, Subscribed
    <3>. QED
      BY <3>1, <3>2, <3>3, <3>4, <3>5, <3>6, <3>7 DEF TopicStep, HandlerStep, ClientStep
  <2>. QED
    BY <2>1, <2>2 DEF ListedOnce
<1>. QED
  BY <1>1, <1>2, <1>3, ListSteps

LEMMA TopicInvStep ==
  ASSUME NEW Messages, NoValue \notin Messages, TopicInv(Messages), TopicStep(Messages)
  PROVE  TopicInv(Messages)'
BY TopicTypeStep, ConsistentStep, ListedStep DEF TopicInv

-----------------------------------------------------------------------------
(* TopicFeed: what subscribers receive. *)

\* The newest event that left the channel.
Taken == IF worker = "idle" THEN processed ELSE event

\* Events go through the channel in the order of their numbers, none left out.
InSequence ==
  /\ worker # "idle" => event = processed + 1
  /\ published = Taken + Len(queue)
  /\ \A n \in DOMAIN queue : queue[n] = Taken + n

\* During a delivery everyone in the list is still to be called, gone, or has
\* been told: nobody joins or leaves the list meanwhile.
DeliveryCovers ==
  worker = "deliver" =>
    \A s \in Subs : InList(s) =>
      \/ \E n \in DOMAIN left : left[n] = s
      \/ link[connOf[s]] = "closed"
      \/ event \in got[connOf[s]]

\* NothingMissed, and the first message that is about to be written counts.
UpToDate ==
  \A c \in Conns :
    (handler[c] = "write" \/ Subscribed(c)) /\ link[c] = "open" /\ processed > 0
      => \E v \in got[c] \cup ({first[c]} \ {NoValue}) : v >= processed

FeedInv ==
  /\ TypeOK /\ TopicInv(Numbers)
  /\ InSequence /\ DeliveryCovers /\ UpToDate

LEMMA FeedSteps ==
  ASSUME FeedInv, [Next]_vars
  PROVE  TopicStep(Numbers)
<1>1. ASSUME PublishNext
      PROVE  TopicStep(Numbers)
  <2>1. published + 1 \in Numbers
    BY <1>1, EventsAssumption DEF PublishNext, FeedInv, TypeOK, Numbers
  <2>. QED
    BY <1>1, <2>1 DEF PublishNext, TopicStep
<1>2. ASSUME NEW c \in Conns, FetchNewest(c) \/ Handle(c) \/ Client(c)
      PROVE  TopicStep(Numbers)
  BY <1>2 DEF FetchNewest, Handle, Client, TopicStep, FeedInv, TypeOK
<1>. QED
  BY <1>1, <1>2 DEF Next, Work, TopicStep, vars

\* Clients only receive more, and what they are shown they have received.
LEMMA GotGrows ==
  ASSUME FeedInv, [Next]_vars
  PROVE  /\ got' \in [Conns -> SUBSET Numbers]
         /\ \A c \in Conns : got[c] \subseteq got'[c]
         /\ Received => \A c \in Conns : shown'[c] # NoValue => shown'[c] \in got'[c]
<1>0. got \in [Conns -> SUBSET Numbers]
  BY DEF FeedInv, TypeOK
<1>1. CASE Received
  <2>1. shown' \in [Conns -> Numbers \cup {NoValue}]
    BY FeedSteps, TopicTypeStep, EventsAssumption DEF TopicTypeOK, FeedInv
  <2>2. \A c \in Conns : got'[c] = got[c] \cup ({shown'[c]} \ {NoValue})
    BY <1>0, <1>1 DEF Received
  <2>3. got' = [c \in Conns |-> got'[c]]
    BY <1>1 DEF Received
  <2>. QED
    BY <1>0, <2>1, <2>2, <2>3
<1>2. CASE UNCHANGED got
  <2>1. Received => \A c \in Conns : shown'[c] # NoValue => shown'[c] \in got'[c]
    BY <1>0 DEF Received
  <2>. QED
    BY <1>0, <1>2, <2>1
<1>. QED
  BY <1>1, <1>2 DEF Next, PublishNext, FetchNewest, Work, Handle, Client, vars

LEMMA SequenceStep ==
  ASSUME FeedInv, [Next]_vars
  PROVE  InSequence'
<1>. USE DEF InSequence, Taken
<1>0. /\ queue \in Seq(Numbers) /\ event \in Numbers \cup {NoValue}
      /\ published \in Nat /\ processed \in Nat
      /\ InSequence
      /\ worker \in {"idle", "lock", "deliver", "unsubscribe"}
      /\ worker # "idle" => event \in Nat
  BY EventsAssumption DEF FeedInv, TypeOK, TopicTypeOK, Numbers, TopicInv, Consistent
<1>1. CASE PublishNext
  <2>1. /\ queue' = Append(queue, published + 1) /\ published' = published + 1
        /\ UNCHANGED <<processed, worker, event>>
    BY <1>1 DEF PublishNext, Publish
  <2>2. Taken' = Taken /\ Len(queue') = Len(queue) + 1
    BY <1>0, <2>1
  <2>3. Taken \in Nat /\ Len(queue) \in Nat
    BY <1>0
  <2>4. ASSUME NEW n \in DOMAIN queue'
        PROVE  queue'[n] = Taken + n
    <3>1. n = Len(queue) + 1 \/ n \in DOMAIN queue
      BY <1>0, <2>1
    <3>2. CASE n = Len(queue) + 1
      <4>1. queue'[n] = published + 1
        BY <1>0, <2>1, <3>2
      <4>. QED
        BY <1>0, <2>3, <3>2, <4>1
    <3>3. CASE n \in DOMAIN queue
      BY <1>0, <2>1, <3>3
    <3>. QED
      BY <3>1, <3>2, <3>3
  <2>. HIDE DEF Taken
  <2>5. published' = Taken' + Len(queue')
    BY <1>0, <2>1, <2>2, <2>3
  <2>. QED
    BY <1>0, <2>1, <2>2, <2>4, <2>5
<1>2. CASE Work
  <2>0. processed' = (IF EndDelivery THEN event ELSE processed) /\ published' = published
    BY <1>2 DEF Work
  <2>1. CASE Dequeue
    <3>1. /\ worker = "idle" /\ worker' = "lock" /\ event' = Head(queue) /\ queue' = Tail(queue)
          /\ processed' = processed /\ queue # <<>>
      BY <2>0, <2>1 DEF Dequeue, EndDelivery
    <3>2. Head(queue) = queue[1] /\ Len(Tail(queue)) = Len(queue) - 1 /\ Len(queue) > 0
      BY <1>0, <3>1, HeadTailProperties
    <3>3. \A n \in DOMAIN Tail(queue) : Tail(queue)[n] = queue[n + 1] /\ n + 1 \in DOMAIN queue
      BY <1>0, <3>1, HeadTailProperties
    <3>4. event' = processed + 1
      BY <1>0, <3>1, <3>2
    <3>5. \A n \in DOMAIN queue' : n \in Nat /\ queue'[n] = processed + (n + 1)
      BY <1>0, <3>1, <3>3
    <3>. QED
      BY <1>0, <2>0, <3>1, <3>2, <3>4, <3>5
  <2>2. CASE EndDelivery
    BY <1>0, <2>0, <2>2 DEF EndDelivery
  <2>3. CASE BeginDelivery \/ Deliver \/ DeliveryFails \/ DeliveryUnsubscribes
    <3>1. processed' = processed
      BY <2>0, <2>3 DEF EndDelivery, BeginDelivery, Deliver, DeliveryFails, DeliveryUnsubscribes
    <3>. QED
      BY <1>0, <2>0, <2>3, <3>1 DEF BeginDelivery, Deliver, DeliveryFails, DeliveryUnsubscribes
  <2>. QED
    BY <1>2, <2>1, <2>2, <2>3 DEF Work, WorkerStep
<1>3. ASSUME NEW c \in Conns, FetchNewest(c) \/ Handle(c) \/ Client(c)
      PROVE  InSequence'
  <2>1. UNCHANGED <<delivery, published, processed>>
    BY <1>3 DEF FetchNewest, Fetch, Handle, HandlerStep, ReadFails, AddSubscriber, WriteFirst,
       WriteFirstFails, UnSubscribe, Client, ClientStep, Connect, Disconnect, ReadSubscribe
  <2>. QED
    BY <1>0, <2>1 DEF delivery
<1>4. CASE UNCHANGED vars
  BY <1>0, <1>4 DEF vars, topicVars, delivery
<1>. QED
  BY <1>1, <1>2, <1>3, <1>4 DEF Next

LEMMA CoversStep ==
  ASSUME FeedInv, [Next]_vars
  PROVE  DeliveryCovers'
<1>. USE DEF DeliveryCovers
<1>0. /\ TopicTypeOK(Numbers) /\ Consistent(Numbers) /\ Listed /\ DeliveryCovers
      /\ got' \in [Conns -> SUBSET Numbers]
      /\ \A c \in Conns : got[c] \subseteq got'[c]
  BY GotGrows DEF FeedInv, TopicInv
<1>1. \A s \in Subs : InList(s) => connOf[s] \in Conns
  BY <1>0 DEF TopicTypeOK, Listed
<1>2. CASE Work
  <2>1. CASE Dequeue \/ EndDelivery \/ DeliveryUnsubscribes
    BY <2>1 DEF Dequeue, EndDelivery, DeliveryUnsubscribes
  <2>2. CASE BeginDelivery
    BY <2>2 DEF BeginDelivery, InList
  <2>3. CASE Deliver \/ DeliveryFails
    <3>1. /\ worker = "deliver" /\ left' = Tail(left) /\ left # <<>> /\ left \in Seq(Subs)
          /\ UNCHANGED <<subscribers, link, connOf, event>>
      BY <1>0, <2>3 DEF Deliver, DeliveryFails, connections, TopicTypeOK
    <3>2. ASSUME NEW n \in DOMAIN left
          PROVE  left[n] = Head(left) \/ \E m \in DOMAIN left' : left'[m] = left[n]
      <4>1. CASE n = 1
        BY <3>1, <4>1, HeadTailProperties
      <4>2. CASE n # 1
        <5>1. n - 1 \in DOMAIN Tail(left) /\ Tail(left)[n - 1] = left[n]
          BY <3>1, <4>2, HeadTailProperties
        <5>. QED
          BY <3>1, <5>1
      <4>. QED
        BY <4>1, <4>2
    <3>3. link[Target] = "closed" \/ (Target \in Conns => event \in got'[Target])
      <4>1. CASE Deliver
        <5>1. shown' = [shown EXCEPT ![Target] = event] /\ shown \in [Conns -> Numbers \cup {NoValue}]
          BY <1>0, <4>1 DEF Deliver, Receives, TopicTypeOK
        <5>2. event # NoValue
          BY <1>0, <3>1 DEF Consistent
        <5>. QED
          BY <1>2, <5>1, <5>2, GotGrows DEF Work
      <4>2. CASE DeliveryFails
        BY <4>2 DEF DeliveryFails
      <4>. QED
        BY <2>3, <4>1, <4>2
    <3>. SUFFICES ASSUME NEW s \in Subs, InList(s)
                  PROVE  \/ \E n \in DOMAIN left' : left'[n] = s
                         \/ link[connOf[s]] = "closed"
                         \/ event \in got'[connOf[s]]
      BY <3>1 DEF InList
    <3>4. CASE \E n \in DOMAIN left : left[n] = s
      <4>1. s = Head(left) \/ \E m \in DOMAIN left' : left'[m] = s
        BY <3>2, <3>4
      <4>. QED
        BY <1>1, <3>3, <4>1 DEF Target
    <3>. QED
      BY <1>0, <1>1, <3>1, <3>4
  <2>. QED
    BY <1>2, <2>1, <2>2, <2>3 DEF Work, WorkerStep
<1>3. ASSUME NEW c \in Conns, Handle(c) \/ FetchNewest(c)
      PROVE  DeliveryCovers'
  <2>1. UNCHANGED <<delivery, link, connOf>>
    BY <1>3 DEF FetchNewest, Fetch, Handle, HandlerStep, ReadFails, AddSubscriber, WriteFirst,
       WriteFirstFails, UnSubscribe
  <2>2. worker = "deliver" => subscribers' = subscribers
    BY <1>3 DEF FetchNewest, Fetch, Handle, HandlerStep, ReadFails, AddSubscriber, WriteFirst,
       WriteFirstFails, UnSubscribe, ReadLocked
  <2>. QED
    BY <1>0, <1>1, <2>1, <2>2 DEF InList, delivery
<1>4. ASSUME NEW c \in Conns, Connect(c) \/ Disconnect(c), Client(c)
      PROVE  DeliveryCovers'
  <2>1. UNCHANGED <<delivery, subscribers, connOf, got>> /\ \A d \in Conns : link[d] = "closed" => link'[d] = "closed"
    BY <1>0, <1>4 DEF Client, Connect, Disconnect, TopicTypeOK
  <2>. QED
    BY <1>0, <1>1, <2>1 DEF InList, delivery
<1>5. ASSUME NEW c \in Conns, NEW s \in Subs, ReadSubscribe(c, s), Client(c)
      PROVE  DeliveryCovers'
  <2>1. /\ UNCHANGED <<delivery, subscribers, link, got>>
        /\ \A r \in Subs : InList(r) => connOf'[r] = connOf[r]
    BY <1>0, <1>5 DEF Client, ReadSubscribe, TopicTypeOK, Listed
  <2>. QED
    BY <1>0, <1>1, <2>1 DEF InList, delivery
<1>6. CASE PublishNext \/ UNCHANGED vars
  BY <1>0, <1>6 DEF PublishNext, Publish, vars, topicVars, delivery, connections, InList
<1>. QED
  BY <1>2, <1>3, <1>4, <1>5, <1>6 DEF Next, Client, ClientStep

LEMMA UpToDateStep ==
  ASSUME FeedInv, [Next]_vars
  PROVE  UpToDate'
<1>0. /\ TopicTypeOK(Numbers) /\ Consistent(Numbers) /\ Listed /\ ListedOnce
      /\ InSequence /\ DeliveryCovers /\ UpToDate
      /\ processed \in Nat /\ published \in Numbers /\ published \in Nat /\ NoValue \notin Numbers
      /\ got' \in [Conns -> SUBSET Numbers]
      /\ \A c \in Conns : got[c] \subseteq got'[c]
  BY GotGrows, EventsAssumption DEF FeedInv, TopicInv, TypeOK, Numbers
<1>1. \A c \in Conns : handler[c] = "write" \/ Subscribed(c) =>
        sub[c] \in Subs /\ InList(sub[c]) /\ connOf[sub[c]] = c
  BY <1>0 DEF TopicTypeOK, Consistent, Listed, ListedOnce, Subscribed
<1>2. CASE Work
  <2>0. /\ UNCHANGED connections
        /\ processed' = IF EndDelivery THEN event ELSE processed
    BY <1>2 DEF Work, WorkerStep, Dequeue, BeginDelivery, Deliver, DeliveryFails,
       DeliveryUnsubscribes, EndDelivery
  <2>1. CASE EndDelivery
    <3>1. worker = "deliver" /\ left = <<>> /\ processed' = event /\ event \in Nat
      BY <1>0, <2>0, <2>1 DEF EndDelivery, InSequence
    <3>2. \A c \in Conns : (handler[c] = "write" \/ Subscribed(c)) /\ link[c] = "open"
            => event \in got[c]
      BY <1>0, <1>1, <3>1 DEF DeliveryCovers
    <3>. QED
      BY <1>0, <2>0, <3>1, <3>2 DEF UpToDate, Subscribed, connections
  <2>2. CASE ~EndDelivery
    BY <1>0, <2>0, <2>2 DEF UpToDate, Subscribed, connections
  <2>. QED
    BY <2>1, <2>2
<1>3. ASSUME NEW c \in Conns, FetchNewest(c)
      PROVE  UpToDate'
  <2>1. /\ handler' = [handler EXCEPT ![c] = "write"] /\ first' = [first EXCEPT ![c] = published]
        /\ UNCHANGED <<link, sub, processed>>
    BY <1>3 DEF FetchNewest, Fetch, HandlerAt
  <2>2. published >= processed
    BY <1>0 DEF InSequence, Taken, TopicTypeOK
  <2>. QED
    BY <1>0, <2>1, <2>2 DEF UpToDate, Subscribed, TopicTypeOK
<1>4. ASSUME NEW c \in Conns, Handle(c), WriteFirst(c)
      PROVE  UpToDate'
  <2>1. /\ handler[c] = "write" /\ handler' = [handler EXCEPT ![c] = "read"]
        /\ first' = [first EXCEPT ![c] = NoValue] /\ shown' = [shown EXCEPT ![c] = first[c]]
        /\ UNCHANGED <<link, sub, processed>>
    BY <1>4 DEF Handle, WriteFirst, HandlerAt, Receives
  <2>2. first[c] \in Numbers /\ first[c] \in got'[c]
    BY <1>0, <1>4, <2>1, GotGrows DEF Consistent, TopicTypeOK, Handle
  <2>. QED
    BY <1>0, <2>1, <2>2, ZenonT(30) DEF UpToDate, Subscribed, TopicTypeOK
<1>5. ASSUME NEW c \in Conns, Handle(c), ~WriteFirst(c)
      PROVE  UpToDate'
  <2>1. /\ UNCHANGED <<link, sub, processed>>
        /\ \A d \in Conns : link[d] = "open" =>
              first'[d] = first[d] /\ (handler'[d] \in {"read", "write"} => handler'[d] = handler[d])
    BY <1>0, <1>5 DEF Handle, HandlerStep, ReadFails, AddSubscriber, WriteFirstFails, UnSubscribe,
       HandlerAt, TopicTypeOK, Consistent
  <2>. QED
    BY <1>0, <2>1 DEF UpToDate, Subscribed
<1>6. ASSUME NEW c \in Conns, Client(c)
      PROVE  UpToDate'
  <2>1. /\ UNCHANGED <<first, processed, got>>
        /\ \A d \in Conns : handler'[d] = "write" => handler[d] = "write"
    BY <1>0, <1>6 DEF Client, ClientStep, Connect, Disconnect, ReadSubscribe, HandlerAt, TopicTypeOK
  <2>2. \A d \in Conns : handler[d] = "write" /\ link'[d] = "open" => link[d] = "open"
    BY <1>0, <1>6 DEF Client, ClientStep, Connect, Disconnect, ReadSubscribe, TopicTypeOK, Consistent
  <2>3. \A d \in Conns : Subscribed(d)' => Subscribed(d)
    BY <1>0, <1>6 DEF Client, ClientStep, Connect, Disconnect, ReadSubscribe, HandlerAt,
       TopicTypeOK, Consistent, Subscribed
  <2>. QED
    BY <1>0, <2>1, <2>2, <2>3 DEF UpToDate, Subscribed
<1>7. CASE PublishNext \/ UNCHANGED vars
  BY <1>0, <1>7 DEF PublishNext, Publish, vars, topicVars, connections, UpToDate, Subscribed
<1>. QED
  BY <1>2, <1>3, <1>4, <1>5, <1>6, <1>7 DEF Next

LEMMA FeedTypeStep ==
  ASSUME FeedInv, [Next]_vars
  PROVE  TypeOK'
<1>1. TopicTypeOK(Numbers)' /\ got' \in [Conns -> SUBSET Numbers]
  BY FeedSteps, TopicTypeStep, GotGrows, EventsAssumption DEF FeedInv
<1>2. published' \in Numbers /\ processed' \in Numbers
  <2>. USE DEF FeedInv, TypeOK
  <2>1. CASE PublishNext
    BY <2>1, EventsAssumption DEF PublishNext, Numbers
  <2>2. CASE Work
    <3>1. CASE EndDelivery
      BY <2>2, <3>1 DEF Work, EndDelivery, TopicTypeOK, TopicInv, Consistent
    <3>2. CASE ~EndDelivery
      BY <2>2, <3>2 DEF Work
    <3>. QED
      BY <3>1, <3>2
  <2>3. CASE UNCHANGED <<published, processed>>
    BY <2>3
  <2>. QED
    BY <2>1, <2>2, <2>3 DEF Next, FetchNewest, Handle, Client, vars
<1>. QED
  BY <1>1, <1>2 DEF TypeOK

LEMMA FeedInductive == Spec => []FeedInv
<1>1. Init => FeedInv
  BY TopicInitially, EventsAssumption, BufferAssumption
     DEF Init, TopicInit, FeedInv, TypeOK, TopicInv, InSequence, Taken, DeliveryCovers, UpToDate,
         Subscribed, Numbers
<1>2. FeedInv /\ [Next]_vars => FeedInv'
  <2>. SUFFICES ASSUME FeedInv, [Next]_vars PROVE FeedInv'
    OBVIOUS
  <2>1. TopicInv(Numbers)'
    BY FeedSteps, TopicInvStep, EventsAssumption DEF FeedInv
  <2>. QED
    BY <2>1, FeedTypeStep, SequenceStep, CoversStep, UpToDateStep DEF FeedInv
<1>. QED
  BY <1>1, <1>2, PTL DEF Spec

\* The topic keeps its types, and its channel its bound.
THEOREM FeedTypeCorrect == Spec => []TypeOK
BY FeedInductive, PTL DEF FeedInv

\* Subscribing and unsubscribing around a delivery, and around each other,
\* nobody falls out of the list or gets into it twice.
THEOREM SubscribersListedOnce == Spec => []ListedOnce
BY FeedInductive, PTL DEF FeedInv, TopicInv

\* Whenever a client subscribed, it has been told of every event the worker is
\* done with, by the event or by the first message.
THEOREM SubscribersMissNothing == Spec => []NothingMissed
<1>1. FeedInv => NothingMissed
  BY DEF FeedInv, UpToDate, NothingMissed, Subscribed, Consistent, TopicInv
<1>. QED
  BY <1>1, FeedInductive, PTL

-----------------------------------------------------------------------------
(* ProgressFeed: what the clients of a job see of its end. *)

\* The clients that were there when the run began have not subscribed again.
PresentSubscribed ==
  \A c \in present : link[c] # "unopened" /\ (link[c] = "open" => Subscribed(c))

\* Those that are connected show that the run is over, or are still to be called.
Shown(c) == link[c] = "open" => shown[c] = FALSE

ToBeShown(c) == Shown(c) \/ \E n \in DOMAIN left : left[n] = sub[c]

\* Once the end is announced it is the last message there is: in the channel,
\* in the hands of the worker, or with every client.
EndIsLast ==
  at \in {"none", "release"} =>
    /\ queue # <<>> => queue[Len(queue)] = FALSE
    /\ queue = <<>> =>
         /\ worker = "idle" => \A c \in present : Shown(c)
         /\ worker # "idle" => event = FALSE
         /\ worker = "deliver" => \A c \in present : ToBeShown(c)

ProgressInv ==
  /\ ProgressTypeOK /\ TopicInv(BOOLEAN)
  /\ running <=> at # "none"
  /\ PresentSubscribed /\ EndIsLast

LEMMA ProgressSteps ==
  ASSUME ProgressInv, [ProgressNext]_progressVars
  PROVE  TopicStep(BOOLEAN)
<1>1. ASSUME NEW c \in Conns, FetchState(c) \/ HandlerRuns(c) \/ ClientActs(c)
      PROVE  TopicStep(BOOLEAN)
  BY <1>1 DEF FetchState, HandlerRuns, ClientActs, TopicStep, ProgressInv, ProgressTypeOK
<1>2. CASE Claim \/ Start \/ RunEnds \/ Release \/ UNCHANGED progressVars
  BY <1>2 DEF Claim, Start, RunEnds, Release, TopicStep, progressVars
<1>3. CASE AnnounceStart \/ Progress \/ AnnounceEnd
  BY <1>3 DEF AnnounceStart, Progress, AnnounceEnd, TopicStep
<1>. QED
  BY <1>1, <1>2, <1>3 DEF ProgressNext, JobStep, TopicWorks, TopicStep

LEMMA ProgressTypeStep ==
  ASSUME ProgressInv, [ProgressNext]_progressVars
  PROVE  ProgressTypeOK' /\ (running <=> at # "none")'
<1>. USE DEF ProgressInv, ProgressTypeOK
<1>0. TopicTypeOK(BOOLEAN)'
  BY ProgressSteps, TopicTypeStep, MessagesAssumption
<1>1. CASE Claim \/ Progress \/ JobStep
  <2>1. CASE Claim
    BY <1>0, <2>1 DEF Claim, JobGoes
  <2>2. CASE Progress
    BY <1>0, <2>2 DEF Progress, job
  <2>3. CASE JobStep
    BY <1>0, <2>3 DEF JobStep, Start, AnnounceStart, RunEnds, AnnounceEnd, Release, JobGoes
  <2>. QED
    BY <1>1, <2>1, <2>2, <2>3
<1>2. CASE UNCHANGED job /\ present' \subseteq present
  BY <1>0, <1>2 DEF job
<1>. QED
  BY <1>1, <1>2 DEF ProgressNext, TopicWorks, FetchState, HandlerRuns, ClientActs, progressVars

LEMMA PresentStep ==
  ASSUME ProgressInv, [ProgressNext]_progressVars
  PROVE  PresentSubscribed'
<1>. USE DEF PresentSubscribed
<1>0. TopicTypeOK(BOOLEAN) /\ Consistent(BOOLEAN) /\ present \subseteq Conns /\ PresentSubscribed
  BY DEF ProgressInv, ProgressTypeOK, TopicInv
<1>1. CASE Claim
  BY <1>0, <1>1 DEF Claim, topicVars, connections, Subscribed
<1>2. CASE Progress \/ JobStep \/ TopicWorks \/ UNCHANGED progressVars
  <2>1. UNCHANGED <<connections, present>>
    BY <1>2 DEF Progress, JobStep, Start, AnnounceStart, RunEnds, AnnounceEnd, Release, Publish,
       TopicWorks, WorkerStep, Dequeue, BeginDelivery, Deliver, DeliveryFails,
       DeliveryUnsubscribes, EndDelivery, topicVars, progressVars
  <2>. QED
    BY <1>0, <2>1 DEF connections, Subscribed
<1>3. ASSUME NEW c \in Conns, FetchState(c) \/ HandlerRuns(c)
      PROVE  PresentSubscribed'
  <2>1. /\ UNCHANGED <<link, sub, present>>
        /\ \A d \in Conns : handler[d] = "read" /\ link[d] = "open" => handler'[d] = "read"
    BY <1>0, <1>3 DEF FetchState, Fetch, HandlerRuns, HandlerStep, ReadFails, AddSubscriber,
       WriteFirst, WriteFirstFails, UnSubscribe, HandlerAt, TopicTypeOK
  <2>. QED
    BY <1>0, <2>1 DEF Subscribed
<1>4. ASSUME NEW c \in Conns, ClientActs(c), Connect(c) \/ Disconnect(c)
      PROVE  PresentSubscribed'
  <2>1. /\ UNCHANGED <<handler, sub>> /\ present' \subseteq present
        /\ \A d \in Conns : link[d] # "unopened" =>
              link'[d] # "unopened" /\ (link'[d] = "open" => link[d] = "open")
    BY <1>0, <1>4 DEF ClientActs, Connect, Disconnect, TopicTypeOK
  <2>. QED
    BY <1>0, <2>1 DEF Subscribed
<1>5. ASSUME NEW c \in Conns, NEW s \in Subs, ClientActs(c), ReadSubscribe(c, s)
      PROVE  PresentSubscribed'
  <2>1. /\ present' = present \ {c} /\ UNCHANGED link
        /\ \A d \in Conns \ {c} : handler'[d] = handler[d] /\ sub'[d] = sub[d]
    BY <1>0, <1>5 DEF ClientActs, ReadSubscribe, HandlerAt, TopicTypeOK
  <2>. QED
    BY <1>0, <2>1 DEF Subscribed
<1>. QED
  BY <1>1, <1>2, <1>3, <1>4, <1>5 DEF ProgressNext, ClientActs, ClientStep

\* A delivery of the end to whoever is present.
LEMMA DeliveryShows ==
  ASSUME ProgressInv, Deliver \/ DeliveryFails, event = FALSE,
         \A c \in present : ToBeShown(c)
  PROVE  \A c \in present : ToBeShown(c)'
<1>0. /\ TopicTypeOK(BOOLEAN) /\ Consistent(BOOLEAN) /\ present \subseteq Conns
      /\ PresentSubscribed
  BY DEF ProgressInv, ProgressTypeOK, TopicInv
<1>1. /\ left # <<>> /\ left' = Tail(left) /\ left \in Seq(Subs)
      /\ UNCHANGED <<link, sub>>
  BY <1>0 DEF Deliver, DeliveryFails, connections, TopicTypeOK
<1>2. ASSUME NEW n \in DOMAIN left
      PROVE  left[n] = Head(left) \/ \E m \in DOMAIN left' : left'[m] = left[n]
  <2>1. CASE n = 1
    BY <1>1, <2>1, HeadTailProperties
  <2>2. CASE n # 1
    <3>1. n - 1 \in DOMAIN Tail(left) /\ Tail(left)[n - 1] = left[n]
      BY <1>1, <2>2, HeadTailProperties
    <3>. QED
      BY <1>1, <3>1
  <2>. QED
    BY <2>1, <2>2
<1>3. ASSUME NEW c \in Conns, Shown(c)
      PROVE  Shown(c)'
  BY <1>0, <1>1, <1>3 DEF Deliver, DeliveryFails, Receives, Shown, TopicTypeOK
<1>4. ASSUME NEW c \in present, sub[c] = Head(left)
      PROVE  Shown(c)'
  <2>1. CASE link[c] = "open"
    <3>1. Target = c
      BY <1>0, <1>4, <2>1 DEF PresentSubscribed, Subscribed, Consistent, Target
    <3>. QED
      BY <1>0, <1>1, <2>1, <3>1 DEF Deliver, DeliveryFails, Receives, Shown, TopicTypeOK
  <2>2. CASE link[c] # "open"
    BY <1>1, <2>2 DEF Shown
  <2>. QED
    BY <2>1, <2>2
<1>5. ASSUME NEW c \in present
      PROVE  ToBeShown(c)'
  <2>1. CASE Shown(c)
    BY <1>0, <1>3, <2>1 DEF ToBeShown
  <2>2. CASE \E n \in DOMAIN left : left[n] = sub[c]
    <3>1. sub[c] = Head(left) \/ \E m \in DOMAIN left' : left'[m] = sub'[c]
      BY <1>1, <1>2, <2>2
    <3>. QED
      BY <1>4, <3>1 DEF ToBeShown
  <2>. QED
    BY <1>5, <2>1, <2>2 DEF ToBeShown
<1>. QED
  BY <1>5

\* The last message of the channel.
LEMMA LastAppended ==
  ASSUME NEW Messages, NEW q \in Seq(Messages), NEW v \in Messages
  PROVE  Append(q, v) # <<>> /\ Append(q, v)[Len(Append(q, v))] = v
BY AppendProperties

LEMMA LastKept ==
  ASSUME NEW Messages, NEW q \in Seq(Messages), q # <<>>, Len(q) # 1
  PROVE  Tail(q) # <<>> /\ Tail(q)[Len(Tail(q))] = q[Len(q)]
<1>1. Len(q) \in Nat /\ Len(q) # 0
  BY EmptySeq
<1>2. Len(Tail(q)) = Len(q) - 1
  BY HeadTailProperties
<1>3. \A i \in 1 .. Len(Tail(q)) : Tail(q)[i] = q[i + 1]
  BY HeadTailProperties
<1>4. Tail(q) # <<>>
  <2>1. ASSUME Tail(q) = <<>>
        PROVE  Len(Tail(q)) = 0
    BY <2>1, EmptySeq
  <2>2. Len(Tail(q)) # 0
    BY ONLY <1>1, <1>2, Len(q) # 1
  <2>. QED
    BY <2>1, <2>2
<1>. QED
  BY <1>1, <1>2, <1>3, <1>4

LEMMA EndStep ==
  ASSUME ProgressInv, [ProgressNext]_progressVars
  PROVE  EndIsLast'
<1>0. /\ TopicTypeOK(BOOLEAN) /\ Consistent(BOOLEAN) /\ ListedOnce /\ present \subseteq Conns
      /\ PresentSubscribed /\ EndIsLast
  BY DEF ProgressInv, ProgressTypeOK, TopicInv
<1>1. CASE Claim \/ Start \/ AnnounceStart \/ Progress \/ RunEnds
  BY <1>1 DEF EndIsLast, Claim, Start, AnnounceStart, Progress, RunEnds, JobGoes, job
<1>2. CASE AnnounceEnd
  <2>1. queue' = Append(queue, FALSE) /\ queue \in Seq(BOOLEAN)
    BY <1>0, <1>2 DEF AnnounceEnd, Publish, TopicTypeOK
  <2>2. queue' # <<>> /\ queue'[Len(queue')] = FALSE
    BY <2>1, LastAppended, Zenon
  <2>. QED
    BY <2>2 DEF EndIsLast
<1>3. CASE Release
  <2>1. at = "release" /\ UNCHANGED <<topicVars, present>>
    BY <1>3 DEF Release, JobGoes
  <2>. QED
    BY <1>0, <2>1 DEF EndIsLast, topicVars, delivery, connections, Shown, ToBeShown
<1>4. CASE UNCHANGED progressVars
  BY <1>0, <1>4 DEF progressVars, job, topicVars, delivery, connections, EndIsLast, Shown, ToBeShown
<1>5. ASSUME TopicWorks, at \in {"none", "release"}
      PROVE  EndIsLast'
  <2>0. UNCHANGED <<job, connections, subscribers, present>>
    BY <1>5 DEF TopicWorks, WorkerStep, Dequeue, BeginDelivery, Deliver, DeliveryFails,
       DeliveryUnsubscribes, EndDelivery
  <2>1. CASE Dequeue
    <3>1. /\ queue \in Seq(BOOLEAN) /\ queue # <<>> /\ queue' = Tail(queue)
          /\ event' = Head(queue) /\ worker' = "lock" /\ queue[Len(queue)] = FALSE
      BY <1>0, <1>5, <2>1 DEF Dequeue, TopicTypeOK, EndIsLast
    <3>2. CASE Len(queue) = 1
      BY <3>1, <3>2, HeadTailProperties DEF EndIsLast
    <3>3. CASE Len(queue) # 1
      <4>1. queue' # <<>> /\ queue'[Len(queue')] = queue[Len(queue)]
        BY <3>1, <3>3, LastKept, Zenon
      <4>. QED
        BY <3>1, <4>1 DEF EndIsLast
    <3>. QED
      BY <3>2, <3>3
  <2>2. CASE BeginDelivery
    <3>1. \A c \in present : ToBeShown(c)'
      <4>1. left' = subscribers /\ UNCHANGED <<link, sub, shown>>
        BY <2>2 DEF BeginDelivery, connections
      <4>. QED
        BY <1>0, <4>1 DEF ToBeShown, Shown, PresentSubscribed, ListedOnce, InList
    <3>. QED
      BY <1>0, <1>5, <2>0, <2>2, <3>1 DEF BeginDelivery, EndIsLast
  <2>3. CASE Deliver \/ DeliveryFails
    <3>1. worker' = "deliver" /\ worker = "deliver" /\ UNCHANGED <<queue, event>>
      BY <2>3 DEF Deliver, DeliveryFails
    <3>2. CASE queue = <<>>
      BY <1>0, <1>5, <2>0, <2>3, <3>1, <3>2, DeliveryShows DEF EndIsLast
    <3>3. CASE queue # <<>>
      BY <1>0, <1>5, <2>0, <3>1, <3>3 DEF EndIsLast
    <3>. QED
      BY <3>2, <3>3
  <2>4. CASE DeliveryUnsubscribes
    BY <1>0, <1>5, <2>4 DEF DeliveryUnsubscribes, EndIsLast
  <2>5. CASE EndDelivery
    <3>1. /\ worker = "deliver" /\ worker' = "idle" /\ left = <<>>
          /\ UNCHANGED <<queue, link, shown>>
      BY <2>5 DEF EndDelivery, connections
    <3>2. queue = <<>> => \A c \in present : Shown(c)'
      BY <1>0, <1>5, <3>1 DEF EndIsLast, ToBeShown, Shown
    <3>. QED
      BY <1>0, <1>5, <2>0, <3>1, <3>2 DEF EndIsLast
  <2>. QED
    BY <1>5, <2>1, <2>2, <2>3, <2>4, <2>5 DEF TopicWorks, WorkerStep
<1>6. ASSUME NEW c \in Conns, FetchState(c) \/ HandlerRuns(c) \/ ClientActs(c)
      PROVE  EndIsLast'
  <2>1. UNCHANGED <<at, delivery>> /\ present' \subseteq present
    BY <1>6 DEF FetchState, Fetch, HandlerRuns, HandlerStep, ReadFails, AddSubscriber, WriteFirst,
       WriteFirstFails, UnSubscribe, ClientActs, ClientStep, Connect, Disconnect, ReadSubscribe, job
  <2>2. \A d \in present' : link'[d] = "open" =>
          link[d] = "open" /\ shown'[d] = shown[d] /\ sub'[d] = sub[d]
    <3>1. CASE FetchState(c) \/ HandlerRuns(c)
      BY <1>0, <2>1, <3>1 DEF PresentSubscribed, Subscribed, FetchState, Fetch, HandlerRuns,
         HandlerStep, ReadFails, AddSubscriber, WriteFirst, WriteFirstFails, UnSubscribe,
         HandlerAt, Receives, TopicTypeOK
    <3>2. ASSUME ClientActs(c), Connect(c) \/ Disconnect(c)
          PROVE  \A d \in present' : link'[d] = "open" =>
                   link[d] = "open" /\ shown'[d] = shown[d] /\ sub'[d] = sub[d]
      BY <1>0, <2>1, <3>2 DEF PresentSubscribed, Connect, Disconnect, TopicTypeOK
    <3>3. ASSUME NEW s \in Subs, ClientActs(c), ReadSubscribe(c, s)
          PROVE  \A d \in present' : link'[d] = "open" =>
                   link[d] = "open" /\ shown'[d] = shown[d] /\ sub'[d] = sub[d]
      <4>1. present' = present \ {c} /\ UNCHANGED <<link, shown>> /\ sub' = [sub EXCEPT ![c] = s]
        BY <1>0, <3>3 DEF ClientActs, ReadSubscribe, HandlerAt, TopicTypeOK
      <4>. QED
        BY <1>0, <4>1 DEF TopicTypeOK
    <3>. QED
      BY <1>6, <3>1, <3>2, <3>3 DEF ClientActs, ClientStep
  <2>3. /\ \A d \in present' : Shown(d) => Shown(d)'
        /\ \A d \in present' : ToBeShown(d) => ToBeShown(d)'
    BY <2>1, <2>2 DEF Shown, ToBeShown, delivery
  <2>. QED
    BY <1>0, <2>1, <2>3 DEF EndIsLast, delivery
<1>7. CASE TopicWorks /\ at \notin {"none", "release"}
  BY <1>7 DEF TopicWorks, job, EndIsLast
<1>. QED
  BY <1>1, <1>2, <1>3, <1>4, <1>5, <1>6, <1>7 DEF ProgressNext, JobStep

LEMMA ProgressInductive == ProgressSpec => []ProgressInv
<1>1. ProgressInit => ProgressInv
  BY TopicInitially, BufferAssumption
     DEF ProgressInit, TopicInit, ProgressInv, ProgressTypeOK, TopicInv, PresentSubscribed, EndIsLast
<1>2. ProgressInv /\ [ProgressNext]_progressVars => ProgressInv'
  <2>. SUFFICES ASSUME ProgressInv, [ProgressNext]_progressVars PROVE ProgressInv'
    OBVIOUS
  <2>1. TopicInv(BOOLEAN)'
    BY ProgressSteps, TopicInvStep, MessagesAssumption DEF ProgressInv
  <2>. QED
    BY <2>1, ProgressTypeStep, PresentStep, EndStep DEF ProgressInv
<1>. QED
  BY <1>1, <1>2, PTL DEF ProgressSpec

\* The topic of a job and the job itself keep their types.
THEOREM ProgressTypeCorrect == ProgressSpec => []ProgressTypeOK
BY ProgressInductive, PTL DEF ProgressInv

\* However runs, deliveries, new subscriptions and closed sockets interleave,
\* a client that watched a run from its beginning is left showing its end.
THEOREM CompletionSeen == ProgressSpec => []WatchersSeeCompletion
<1>1. ProgressInv => WatchersSeeCompletion
  BY DEF ProgressInv, EndIsLast, WatchersSeeCompletion, Quiet, Shown
<1>. QED
  BY <1>1, ProgressInductive, PTL
=============================================================================
