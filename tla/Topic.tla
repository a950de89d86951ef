------------------------------- MODULE Topic -------------------------------
(***************************************************************************)
(* wstools.Topic with its threading.EventQueue, the WebSocket handler that *)
(* subscribes connections to it and wstools.Subscriber, which writes to    *)
(* them.  The event queue is a worker pool with one worker (topicWorkers   *)
(* in progressws), so its channel is a bounded sequence here.              *)
(*                                                                         *)
(* What is published, and what a new subscriber is told first, is up to    *)
(* the module that uses the topic: TopicFeed and ProgressFeed.             *)
(***************************************************************************)
EXTENDS Naturals, Sequences

CONSTANTS Conns,       \* WebSocket connections, each opened once
          Subs,        \* subscriber IDs
          NoValue,     \* no connection, no subscriber, no message yet
          BufferSize,  \* capacity of the event queue's channel
          WriteErrors  \* what writing to a closed connection reports

ASSUME BufferAssumption == BufferSize \in Nat \ {0}
ASSUME ErrorsAssumption == WriteErrors \subseteq {"close status", "other"}
ASSUME NoValueAssumption == NoValue \notin Conns \cup Subs

VARIABLES
  queue,        \* events waiting for the worker
  subscribers,  \* EventQueue.subscribers
  worker,       \* where the worker is in processEvent
  event,        \* the event it processes
  left,         \* the subscribers it has still to call
  link,         \* whether each connection is open
  handler,      \* where the handler of each connection is
  sub,          \* the subscriber each handler is adding
  connOf,       \* the connection each subscriber writes to
  first,        \* the message a handler fetched for its new subscriber
  shown         \* the last message each client received

delivery == <<queue, worker, event, left>>
connections == <<link, handler, sub, connOf, first>>
topicVars == <<delivery, subscribers, connections, shown>>

InList(s) == \E n \in DOMAIN subscribers : subscribers[n] = s

\* processEvent holds the read lock while it calls the subscribers.
ReadLocked == worker \in {"deliver", "unsubscribe"}

\* Messages is what the module that uses the topic sends through it.
TopicTypeOK(Messages) ==
  /\ queue \in Seq(Messages) /\ Len(queue) <= BufferSize
  /\ subscribers \in Seq(Subs)
  /\ worker \in {"idle", "lock", "deliver", "unsubscribe"}
  /\ event \in Messages \cup {NoValue}
  /\ left \in Seq(Subs)
  /\ link \in [Conns -> {"unopened", "open", "closed"}]
  /\ handler \in [Conns -> {"read", "add", "fetch", "write", "remove", "returned"}]
  /\ sub \in [Conns -> Subs \cup {NoValue}]
  /\ connOf \in [Subs -> Conns \cup {NoValue}]
  /\ first \in [Conns -> Messages \cup {NoValue}]
  /\ shown \in [Conns -> Messages \cup {NoValue}]

TopicInit ==
  /\ queue = <<>>
  /\ subscribers = <<>>
  /\ worker = "idle"
  /\ event = NoValue
  /\ left = <<>>
  /\ link = [c \in Conns |-> "unopened"]
  /\ handler = [c \in Conns |-> "read"]
  /\ sub = [c \in Conns |-> NoValue]
  /\ connOf = [s \in Subs |-> NoValue]
  /\ first = [c \in Conns |-> NoValue]
  /\ shown = [c \in Conns |-> NoValue]

-----------------------------------------------------------------------------
(* Plausible bugs, used only to show that the properties can fail. *)

\* A send that gives up when the channel is full.
PublishOrDrop(v) ==
  /\ queue' = IF Len(queue) < BufferSize THEN Append(queue, v) ELSE queue
  /\ UNCHANGED <<worker, event, left, subscribers, connections, shown>>

\* A return where the loop over the subscribers goes on.
DeliveryAborts ==
  /\ worker = "deliver" /\ left # <<>>
  /\ link[connOf[Head(left)]] = "closed"
  /\ left' = <<>>
  /\ UNCHANGED <<queue, worker, event, subscribers, connections, shown>>

\* The event is delivered over and over.
DeliveryRepeats ==
  /\ worker = "deliver" /\ left = <<>>
  /\ worker' = "lock"
  /\ UNCHANGED <<queue, event, left, subscribers, connections, shown>>

\* What is removed when no index matches.
WithoutTheLast(s) == SubSeq(subscribers, 1, Len(subscribers) - 1)

-----------------------------------------------------------------------------
(* The client side of a connection. *)

Connect(c) ==
  /\ link[c] = "unopened"
  /\ link' = [link EXCEPT ![c] = "open"]
  /\ UNCHANGED <<delivery, subscribers, handler, sub, connOf, first, shown>>

Disconnect(c) ==
  /\ link[c] = "open"
  /\ link' = [link EXCEPT ![c] = "closed"]
  /\ UNCHANGED <<delivery, subscribers, handler, sub, connOf, first, shown>>

Receives(c, v) == shown' = [shown EXCEPT ![c] = v]

-----------------------------------------------------------------------------
(* WebSocketHandler.Handler and Topic.Subscribe, one per connection. *)

HandlerAt(c, from, to) ==
  /\ handler[c] = from
  /\ handler' = [handler EXCEPT ![c] = to]

\* A subscribe message arrives and NewSubscriber gives it an ID.  A client of
\* another origin is told Forbidden and subscribed all the same.
ReadSubscribe(c, s) ==
  /\ link[c] = "open"
  /\ connOf[s] = NoValue
  /\ HandlerAt(c, "read", "add")
  /\ sub' = [sub EXCEPT ![c] = s]
  /\ connOf' = [connOf EXCEPT ![s] = c]
  /\ UNCHANGED <<delivery, subscribers, link, first, shown>>

\* The read fails once the connection is closed; the handler returns and
\* leaves the subscribers it added where they are.
ReadFails(c) ==
  /\ link[c] = "closed"
  /\ HandlerAt(c, "read", "returned")
  /\ UNCHANGED <<delivery, subscribers, link, sub, connOf, first, shown>>

AddSubscriber(c) ==
  /\ ~ReadLocked
  /\ HandlerAt(c, "add", "fetch")
  /\ subscribers' = Append(subscribers, sub[c])
  /\ UNCHANGED <<delivery, link, sub, connOf, first, shown>>

\* onSubscribeCallback: v is the state of the moment.
Fetch(c, v) ==
  /\ HandlerAt(c, "fetch", "write")
  /\ first' = [first EXCEPT ![c] = v]
  /\ UNCHANGED <<delivery, subscribers, link, sub, connOf, shown>>

\* sub.OnEventCallback on the handler's goroutine, without any lock.
WriteFirst(c) ==
  /\ link[c] = "open"
  /\ HandlerAt(c, "write", "read")
  /\ Receives(c, first[c])
  /\ first' = [first EXCEPT ![c] = NoValue]
  /\ UNCHANGED <<delivery, subscribers, link, sub, connOf>>

WriteFirstFails(c) ==
  /\ link[c] = "closed"
  /\ \/ "close status" \in WriteErrors /\ HandlerAt(c, "write", "remove")
     \/ "other" \in WriteErrors /\ HandlerAt(c, "write", "read")
  /\ first' = [first EXCEPT ![c] = NoValue]
  /\ UNCHANGED <<delivery, subscribers, link, sub, connOf, shown>>

\* RemoveSubscriber: the last subscriber takes the place of the removed one.
Removed(s) ==
  LET i == CHOOSE n \in DOMAIN subscribers : subscribers[n] = s
      n == Len(subscribers)
  IN  [m \in 1 .. n - 1 |-> IF m = i THEN subscribers[n] ELSE subscribers[m]]

UnSubscribe(c) ==
  /\ ~ReadLocked
  /\ HandlerAt(c, "remove", "read")
  /\ subscribers' = Removed(sub[c])
  /\ UNCHANGED <<delivery, link, sub, connOf, first, shown>>

-----------------------------------------------------------------------------
(* EventQueue. *)

\* EnqueueEvent; it blocks while the channel is full.
Publish(v) ==
  /\ Len(queue) < BufferSize
  /\ queue' = Append(queue, v)
  /\ UNCHANGED <<worker, event, left, subscribers, connections, shown>>

Dequeue ==
  /\ worker = "idle" /\ queue # <<>>
  /\ worker' = "lock"
  /\ event' = Head(queue)
  /\ queue' = Tail(queue)
  /\ UNCHANGED <<left, subscribers, connections, shown>>

BeginDelivery ==
  /\ worker = "lock"
  /\ worker' = "deliver"
  /\ left' = subscribers
  /\ UNCHANGED <<queue, event, subscribers, connections, shown>>

Target == connOf[Head(left)]

Deliver ==
  /\ worker = "deliver" /\ left # <<>>
  /\ link[Target] = "open"
  /\ Receives(Target, event)
  /\ left' = Tail(left)
  /\ UNCHANGED <<queue, worker, event, subscribers, connections>>

\* A write error without a close status is answered with one more message.
DeliveryFails ==
  /\ worker = "deliver" /\ left # <<>>
  /\ link[Target] = "closed"
  /\ "other" \in WriteErrors
  /\ left' = Tail(left)
  /\ UNCHANGED <<queue, worker, event, subscribers, connections, shown>>

\* With one, the callback calls UnSubscribe. RemoveSubscriber asks for the
\* write lock on the goroutine that holds the read lock: no step follows.
DeliveryUnsubscribes ==
  /\ worker = "deliver" /\ left # <<>>
  /\ link[Target] = "closed"
  /\ "close status" \in WriteErrors
  /\ worker' = "unsubscribe"
  /\ UNCHANGED <<queue, event, left, subscribers, connections, shown>>

EndDelivery ==
  /\ worker = "deliver" /\ left = <<>>
  /\ worker' = "idle"
  /\ event' = NoValue
  /\ UNCHANGED <<queue, left, subscribers, connections, shown>>

WorkerStep ==
  \/ Dequeue \/ BeginDelivery \/ Deliver \/ DeliveryFails
  \/ DeliveryUnsubscribes \/ EndDelivery

HandlerStep(c) ==
  \/ ReadFails(c) \/ AddSubscriber(c) \/ WriteFirst(c) \/ WriteFirstFails(c)
  \/ UnSubscribe(c)

ClientStep(c) ==
  \/ Connect(c) \/ Disconnect(c)
  \/ \E s \in Subs : ReadSubscribe(c, s)

-----------------------------------------------------------------------------
\* The client is connected, and its subscription is complete.
Subscribed(c) ==
  /\ link[c] = "open" /\ handler[c] = "read"
  /\ sub[c] # NoValue
=============================================================================
