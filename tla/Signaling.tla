----------------------------- MODULE Signaling -----------------------------
(***************************************************************************)
(* The signaling WebSocket of the watch party: the read loops of           *)
(* handlePresenter and handleViewer, one per connection, and the room of   *)
(* models.Room they relay messages through.  Every operation of            *)
(* RoomService holds its mutex, so it is one step.                         *)
(*                                                                         *)
(* There is one room; another one shares nothing with it but the mutex.    *)
(* An answer and an ICE candidate are the same to the server, which only   *)
(* tells offers apart: both have type "other".                             *)
(***************************************************************************)
EXTENDS Naturals, Sequences, FiniteSets, Functions

CONSTANTS PresenterConns, ViewerConns, \* connections, each opened once
          NoConn, NoMsg,
          Tracks,                      \* "cam" and "screen"
          MaxSent,                     \* bound on the messages clients send
          MayLeave                     \* whether the viewer calls LeaveRoom

Conns == PresenterConns \cup ViewerConns
Sides == {"presenter", "viewer"}
Other(s) == IF s = "presenter" THEN "viewer" ELSE "presenter"
SideOf(c) == IF c \in PresenterConns THEN "presenter" ELSE "viewer"

Types == {"offer", "other"}

\* A TrackMessage, told apart by when it was sent and over what connection.
Msgs == [conn : Conns, n : 1..MaxSent, type : Types, track : Tracks]

ASSUME ConnsAssumption ==
  PresenterConns \cap ViewerConns = {} /\ NoConn \notin Conns
ASSUME MsgAssumption == MaxSent \in Nat /\ NoMsg \notin Msgs
ASSUME TracksAssumption == IsFiniteSet(Tracks)
ASSUME LeaveAssumption == MayLeave \in BOOLEAN

VARIABLES
  exists,     \* whether activeRooms has the room
  ws,         \* Presenter.WS and Viewer.WS
  pending,    \* pendingForPresenter and pendingForViewer
  lastOffer,  \* lastOfferFromPresenter and lastOfferFromViewer
  link,       \* whether each connection is open
  handler,    \* where the handler of each connection is
  holding,    \* the message it has read and not passed on yet
  inbox,      \* what the client of each connection received
  sent        \* how many messages the clients sent

room == <<exists, ws, pending, lastOffer>>
vars == <<room, link, handler, holding, inbox, sent>>

TypeOK ==
  /\ exists \in BOOLEAN
  /\ ws \in [Sides -> Conns \cup {NoConn}]
  /\ \A s \in Sides : ws[s] # NoConn => SideOf(ws[s]) = s
  /\ pending \in [Sides -> Seq(Msgs)]
  /\ lastOffer \in [Sides -> [Tracks -> Msgs \cup {NoMsg}]]
  /\ link \in [Conns -> {"unopened", "open", "closed"}]
  /\ handler \in [Conns -> {"join", "read", "relay", "leave", "returned"}]
  /\ holding \in [Conns -> Msgs \cup {NoMsg}]
  /\ inbox \in [Conns -> Seq(Msgs)]
  /\ sent \in 0..MaxSent

Init ==
  /\ exists = TRUE
  /\ ws = [s \in Sides |-> NoConn]
  /\ pending = [s \in Sides |-> <<>>]
  /\ lastOffer = [s \in Sides |-> [t \in Tracks |-> NoMsg]]
  /\ link = [c \in Conns |-> "unopened"]
  /\ handler = [c \in Conns |-> "join"]
  /\ holding = [c \in Conns |-> NoMsg]
  /\ inbox = [c \in Conns |-> <<>>]
  /\ sent = 0

HandlerAt(c, from, to) ==
  /\ handler[c] = from
  /\ handler' = [handler EXCEPT ![c] = to]

-----------------------------------------------------------------------------
(* models.Room. *)

\* The room remembers the last offer of each side and track.
Remembers(s, m) ==
  lastOffer' = IF m.type = "offer"
               THEN [lastOffer EXCEPT ![s][m.track] = m]
               ELSE lastOffer

\* A write to a connection that is gone fails, and is logged only.
Written(c, msgs) ==
  inbox' = IF link[c] = "open" THEN [inbox EXCEPT ![c] = @ \o msgs] ELSE inbox

\* The offers of the other side, and the orders a map may yield them in.
Offers(s) == {lastOffer[Other(s)][t] : t \in Tracks} \ {NoMsg}

Orders(S) == {q \in [1..Cardinality(S) -> S] : Range(q) = S}

-----------------------------------------------------------------------------
(* Plausible bugs, used only to show that the properties can fail. *)

\* The buffer is flushed and not emptied.
SetWSKeepingBuffer(s, c) ==
  /\ ws' = [ws EXCEPT ![s] = c]
  /\ link' = [d \in Conns |-> IF d = ws[s] /\ d # c THEN "closed" ELSE link[d]]
  /\ \E order \in Orders(Offers(s)) : Written(c, pending[s] \o order)
  /\ UNCHANGED <<exists, pending, lastOffer>>

\* The last offers are not sent again.
SetWSWithoutOffers(s, c) ==
  /\ ws' = [ws EXCEPT ![s] = c]
  /\ link' = [d \in Conns |-> IF d = ws[s] /\ d # c THEN "closed" ELSE link[d]]
  /\ Written(c, pending[s])
  /\ pending' = [pending EXCEPT ![s] = <<>>]
  /\ UNCHANGED <<exists, lastOffer>>

\* Messages are put in front of the buffer.
BufferedInFront(s, m) ==
  /\ ws[s] = NoConn
  /\ pending' = [pending EXCEPT ![s] = <<m>> \o @]
  /\ UNCHANGED inbox

-----------------------------------------------------------------------------
\* SetPresenterWS and SetViewerWS: the connection of a reconnecting peer
\* replaces the old one, and gets the buffered messages and the last offers.
SetWS(s, c) ==
  /\ ws' = [ws EXCEPT ![s] = c]
  /\ link' = [d \in Conns |-> IF d = ws[s] /\ d # c THEN "closed" ELSE link[d]]
  /\ \E order \in Orders(Offers(s)) : Written(c, pending[s] \o order)
  /\ pending' = [pending EXCEPT ![s] = <<>>]
  /\ UNCHANGED <<exists, lastOffer>>

Buffered(s, m) ==
  /\ ws[s] = NoConn
  /\ pending' = [pending EXCEPT ![s] = Append(@, m)]
  /\ UNCHANGED inbox

WrittenTo(s, m) ==
  /\ ws[s] # NoConn
  /\ Written(ws[s], <<m>>)
  /\ UNCHANGED pending

\* SendToPresenter and SendToViewer.
SendTo(s, m) ==
  /\ Remembers(Other(s), m)
  /\ Buffered(s, m) \/ WrittenTo(s, m)
  /\ UNCHANGED <<exists, ws, link>>

RemoveViewer ==
  /\ ws' = [ws EXCEPT !["viewer"] = NoConn]
  /\ UNCHANGED <<exists, pending, lastOffer>>

-----------------------------------------------------------------------------
(* handlePresenter and handleViewer. *)

Join(c) ==
  /\ link[c] # "unopened"
  /\ exists
  /\ HandlerAt(c, "join", "read")
  /\ SetWS(SideOf(c), c)
  /\ UNCHANGED <<holding, sent>>

\* Without the room a presenter is turned away; a viewer is not told.
JoinFails(c) ==
  /\ link[c] # "unopened"
  /\ ~exists
  /\ IF SideOf(c) = "presenter"
     THEN /\ HandlerAt(c, "join", "returned")
          /\ link' = [link EXCEPT ![c] = "closed"]
     ELSE /\ HandlerAt(c, "join", "read")
          /\ UNCHANGED link
  /\ UNCHANGED <<room, holding, inbox, sent>>

\* The client sends a message and the loop reads it.
Read(c, type, track) ==
  /\ link[c] = "open"
  /\ sent < MaxSent
  /\ HandlerAt(c, "read", "relay")
  /\ sent' = sent + 1
  /\ holding' = [holding EXCEPT ![c] =
       [conn |-> c, n |-> sent + 1, type |-> type, track |-> track]]
  /\ UNCHANGED <<room, link, inbox>>

Relay(c) ==
  /\ exists
  /\ HandlerAt(c, "relay", "read")
  /\ SendTo(Other(SideOf(c)), holding[c])
  /\ holding' = [holding EXCEPT ![c] = NoMsg]
  /\ UNCHANGED sent

RelayFails(c) ==
  /\ ~exists
  /\ HandlerAt(c, "relay", "read")
  /\ holding' = [holding EXCEPT ![c] = NoMsg]
  /\ UNCHANGED <<room, link, inbox, sent>>

\* The read fails: a presenter's handler returns and leaves Presenter.WS as
\* it is, a viewer's has LeaveViewer deferred.
ReadFails(c) ==
  /\ link[c] = "closed"
  /\ HandlerAt(c, "read", IF SideOf(c) = "presenter" THEN "returned" ELSE "leave")
  /\ UNCHANGED <<room, link, holding, inbox, sent>>

\* LeaveViewer, whoever the viewer is by now.
Leave(c) ==
  /\ HandlerAt(c, "leave", "returned")
  /\ IF exists THEN RemoveViewer ELSE UNCHANGED room
  /\ UNCHANGED <<link, holding, inbox, sent>>

HandlerStep(c) ==
  \/ Join(c) \/ JoinFails(c) \/ Relay(c) \/ RelayFails(c)
  \/ ReadFails(c) \/ Leave(c)
  \/ \E type \in Types, track \in Tracks : Read(c, type, track)

-----------------------------------------------------------------------------
(* The clients, and what the rest of RoomService does to the room. *)

Open(c) ==
  /\ link[c] = "unopened"
  /\ link' = [link EXCEPT ![c] = "open"]
  /\ UNCHANGED <<room, handler, holding, inbox, sent>>

\* The page is closed, or the network drops the connection.
Drop(c) ==
  /\ link[c] = "open"
  /\ link' = [link EXCEPT ![c] = "closed"]
  /\ UNCHANGED <<room, handler, holding, inbox, sent>>

\* LeaveRoom of the viewer: its connection stays open.
ViewerLeaves ==
  /\ MayLeave /\ exists
  /\ RemoveViewer
  /\ UNCHANGED <<link, handler, holding, inbox, sent>>

\* What the room knew goes with it: its code is never used again.
Delete ==
  /\ exists
  /\ exists' = FALSE
  /\ ws' = [s \in Sides |-> NoConn]
  /\ pending' = [s \in Sides |-> <<>>]
  /\ lastOffer' = [s \in Sides |-> [t \in Tracks |-> NoMsg]]

\* LeaveRoom of the presenter.
PresenterLeaves ==
  /\ Delete
  /\ UNCHANGED <<link, handler, holding, inbox, sent>>

\* cleanupOldRooms, once the room was inactive for roomMaxAge.
Expire ==
  /\ Delete
  /\ link' = [c \in Conns |-> IF c = ws["viewer"] THEN "closed" ELSE link[c]]
  /\ UNCHANGED <<handler, holding, inbox, sent>>

Next ==
  \/ \E c \in Conns : HandlerStep(c) \/ Open(c) \/ Drop(c)
  \/ ViewerLeaves \/ PresenterLeaves \/ Expire

Spec == Init /\ [][Next]_vars

-----------------------------------------------------------------------------
(* Properties. *)

IsOffer(m, t) == m.type = "offer" /\ m.track = t

LastOfferIs(m, t, msgs) ==
  \E i \in DOMAIN msgs :
    /\ msgs[i] = m
    /\ \A j \in DOMAIN msgs : IsOffer(msgs[j], t) => j <= i

\* Whoever is connected negotiates with the offer the room remembers: on
\* every track it is the last one the installed connection received, however
\* buffering, reconnects and late relays of replaced handlers interleave.
OffersInSync ==
  \A s \in Sides, t \in Tracks :
    /\ ws[s] # NoConn /\ link[ws[s]] = "open"
    /\ lastOffer[Other(s)][t] # NoMsg
    => LastOfferIs(lastOffer[Other(s)][t], t, inbox[ws[s]])

\* Messages wait in a buffer only as long as nobody is installed to read them.
BufferedForNobody ==
  \A s \in Sides : pending[s] # <<>> => ws[s] = NoConn

\* Where the messages to a side are: in its buffer, which NoConn stands for
\* here, or with the client of one of its connections.
Places(s) == {NoConn} \cup {c \in Conns : SideOf(c) = s}

At(s, p) == IF p = NoConn THEN pending[s] ELSE inbox[p]

\* Only offers are repeated: an answer or a candidate is in one place, once.
OthersAtMostOnce ==
  \A s \in Sides : \A p, q \in Places(s) :
    \A i \in DOMAIN At(s, p), j \in DOMAIN At(s, q) :
      At(s, p)[i] = At(s, q)[j] /\ At(s, p)[i].type = "other" => p = q /\ i = j

InSendingOrder(msgs) ==
  \A i, j \in DOMAIN msgs :
    /\ i < j /\ msgs[i].conn = msgs[j].conn /\ msgs[j].type = "other"
    => msgs[i].n < msgs[j].n

\* The messages of one connection are passed on in the order they were sent,
\* offers sent again aside.
InOrder == \A s \in Sides : \A p \in Places(s) : InSendingOrder(At(s, p))

\* "buffered messages sent while the target has no WS connection": nothing
\* stays in the viewer's buffer while a viewer that never left is connected
\* and has joined.  Not so: the LeaveViewer deferred by the handler of a
\* replaced connection removes its replacement.
ConnectedViewerIsServed ==
  pending["viewer"] # <<>> =>
    ~\E c \in ViewerConns : link[c] = "open" /\ handler[c] = "read"

\* The same comment, on the presenter's side: what is sent while every
\* presenter connection is gone, its handler returned, is buffered.  Not so:
\* the handler leaves its connection in place when it returns.
AbsentPresenterIsBuffered ==
  [][\A c \in ViewerConns :
       Relay(c) /\ (\A d \in PresenterConns : handler[d] \in {"join", "returned"})
         => holding[c] \in Range(pending'["presenter"])]_vars
=============================================================================
