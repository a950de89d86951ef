-------------------------- MODULE WatchPartyProofs --------------------------
(***************************************************************************)
(* Proofs about the watch party, for any connections, tracks and messages, *)
(* any tabs, users and codes.                                              *)
(*                                                                         *)
(* Signaling: a buffer only fills while nobody is installed to read it,    *)
(* the peer that is connected has the offer the room remembers as its last *)
(* one, and what is not an offer is passed on once, in the order it was    *)
(* sent.  Rooms: the requests keep the registry well formed, a room is     *)
(* only removed by the user who presents in it or by the cleanup, and no   *)
(* late request revives one.                                               *)
(***************************************************************************)
EXTENDS Signaling, Rooms, FiniteSetTheorems, SequenceTheorems, TLAPS

-----------------------------------------------------------------------------
(* Signaling: the invariant. *)

\* A handler that relays has read a message.
Carries == \A c \in Conns : handler[c] = "relay" => holding[c] # NoMsg

\* What is remembered for a track is an offer for that track.
Remembered ==
  \A s \in Sides, t \in Tracks :
    lastOffer[s][t] # NoMsg => IsOffer(lastOffer[s][t], t)

\* A connection is opened before it is installed, and never again.
Opened == \A s \in Sides : ws[s] # NoConn => link[ws[s]] # "unopened"

IInv ==
  TypeOK /\ Carries /\ Remembered /\ Opened /\ BufferedForNobody /\ OffersInSync

-----------------------------------------------------------------------------
(* Sides. *)

LEMMA SideFacts ==
  /\ \A c \in Conns : SideOf(c) \in Sides
  /\ \A s \in Sides : Other(s) \in Sides /\ Other(s) # s /\ Other(Other(s)) = s
  /\ \A s, r \in Sides : r # s => r = Other(s)
BY DEF SideOf, Sides, Other

-----------------------------------------------------------------------------
(* The last offer in a sequence of messages. *)

\* Messages without an offer for the track do not change which one is last.
LEMMA LastOfferKept ==
  ASSUME NEW p \in Seq(Msgs), NEW q \in Seq(Msgs), NEW m, NEW t,
         LastOfferIs(m, t, p), \A j \in 1..Len(q) : ~IsOffer(q[j], t)
  PROVE  LastOfferIs(m, t, p \o q)
<1>1. PICK i \in 1..Len(p) :
        p[i] = m /\ \A j \in 1..Len(p) : IsOffer(p[j], t) => j <= i
  BY DEF LastOfferIs
<1>2. /\ Len(p \o q) = Len(p) + Len(q) /\ DOMAIN (p \o q) = 1..Len(p \o q)
      /\ \A j \in 1..Len(p) : (p \o q)[j] = p[j]
      /\ \A j \in 1..Len(p) + Len(q) : j > Len(p) =>
           /\ (p \o q)[j] = q[j - Len(p)] /\ j - Len(p) \in 1..Len(q)
  OBVIOUS
<1>3. i \in DOMAIN (p \o q) /\ (p \o q)[i] = m
  BY <1>1, <1>2
<1>4. ASSUME NEW j \in DOMAIN (p \o q), IsOffer((p \o q)[j], t)
      PROVE  j <= i
  <2>1. CASE j \in 1..Len(p)
    BY <1>1, <1>2, <1>4, <2>1
  <2>2. CASE j > Len(p)
    BY <1>2, <1>4, <2>2
  <2>. QED
    BY <1>2, <2>1, <2>2
<1>. QED
  BY <1>3, <1>4 DEF LastOfferIs

\* What comes later decides.
LEMMA LastOfferLater ==
  ASSUME NEW p \in Seq(Msgs), NEW q \in Seq(Msgs), NEW m, NEW t,
         LastOfferIs(m, t, q)
  PROVE  LastOfferIs(m, t, p \o q)
<1>1. PICK i \in 1..Len(q) :
        q[i] = m /\ \A j \in 1..Len(q) : IsOffer(q[j], t) => j <= i
  BY DEF LastOfferIs
<1>2. /\ Len(p \o q) = Len(p) + Len(q) /\ DOMAIN (p \o q) = 1..Len(p \o q)
      /\ \A j \in 1..Len(p) + Len(q) : j > Len(p) =>
           /\ (p \o q)[j] = q[j - Len(p)] /\ j - Len(p) \in 1..Len(q)
  OBVIOUS
<1>3. Len(p) + i \in DOMAIN (p \o q) /\ (p \o q)[Len(p) + i] = m
  BY <1>1, <1>2
<1>4. ASSUME NEW j \in DOMAIN (p \o q), IsOffer((p \o q)[j], t)
      PROVE  j <= Len(p) + i
  <2>1. CASE j > Len(p)
    BY <1>1, <1>2, <1>4, <2>1
  <2>. QED
    BY <1>1, <1>2, <2>1
<1>. QED
  BY <1>3, <1>4 DEF LastOfferIs

\* One message: an offer for its own track, nothing for another one.
LEMMA LastOfferOfOne ==
  ASSUME NEW m \in Msgs, NEW t
  PROVE  IF IsOffer(m, t) THEN LastOfferIs(m, t, <<m>>)
         ELSE \A j \in 1..Len(<<m>>) : ~IsOffer(<<m>>[j], t)
BY DEF LastOfferIs

-----------------------------------------------------------------------------
(* The offers that are sent again. *)

LEMMA OffersTyped ==
  ASSUME TypeOK, NEW s \in Sides
  PROVE  /\ Offers(s) \subseteq Msgs
         /\ IsFiniteSet(Offers(s)) /\ Cardinality(Offers(s)) \in Nat
<1>1. Offers(s) \subseteq Msgs
  BY SideFacts DEF Offers, TypeOK
<1>. DEFINE All == {lastOffer[Other(s)][t] : t \in Tracks}
<1>2. IsFiniteSet(All)
  <2>. DEFINE f == [t \in Tracks |-> lastOffer[Other(s)][t]]
  <2>1. f \in Surjection(Tracks, All)
    BY DEF Surjection
  <2>. QED
    BY <2>1, TracksAssumption, FS_Surjection
<1>3. IsFiniteSet(Offers(s))
  <2>1. Offers(s) \subseteq All
    BY DEF Offers
  <2>. QED
    BY <1>2, <2>1, FS_Subset
<1>. QED
  BY <1>1, <1>3, FS_CardinalityType

LEMMA OrderedOffers ==
  ASSUME TypeOK, Remembered, NEW s \in Sides, NEW order \in Orders(Offers(s))
  PROVE  /\ order \in Seq(Msgs)
         /\ \A t \in Tracks : lastOffer[Other(s)][t] # NoMsg =>
              LastOfferIs(lastOffer[Other(s)][t], t, order)
<1>1. /\ order \in [1..Cardinality(Offers(s)) -> Offers(s)]
      /\ Range(order) = Offers(s)
  BY DEF Orders
<1>2. order \in Seq(Msgs) /\ DOMAIN order = 1..Len(order)
  BY <1>1, OffersTyped
<1>3. ASSUME NEW t \in Tracks, lastOffer[Other(s)][t] # NoMsg
      PROVE  LastOfferIs(lastOffer[Other(s)][t], t, order)
  <2>. DEFINE m == lastOffer[Other(s)][t]
  <2>1. m \in Range(order)
    BY <1>1, <1>3 DEF Offers
  <2>2. \A j \in DOMAIN order : IsOffer(order[j], t) => order[j] = m
    <3>1. ASSUME NEW j \in DOMAIN order, IsOffer(order[j], t)
          PROVE  order[j] = m
      <4>1. PICK r \in Tracks : order[j] = lastOffer[Other(s)][r] /\ order[j] # NoMsg
        BY <1>1 DEF Offers
      <4>2. r = t
        BY <3>1, <4>1, SideFacts DEF Remembered, IsOffer
      <4>. QED
        BY <4>1, <4>2
    <3>. QED
      BY <3>1
  <2>3. \A i, j \in DOMAIN order : order[i] = order[j] => i = j
    <3>. DEFINE n == Cardinality(Offers(s))
    <3>1. order \in Surjection(1..n, Offers(s))
      BY <1>1 DEF Surjection, Range
    <3>2. IsFiniteSet(1..n) /\ Cardinality(1..n) = n
      BY OffersTyped, FS_Interval
    <3>3. order \in Injection(1..n, Offers(s))
      BY <3>1, <3>2, FS_Surjection
    <3>. QED
      BY <3>3 DEF Injection, IsInjective
  <2>. QED
    BY <1>2, <2>1, <2>2, <2>3 DEF LastOfferIs, Range
<1>. QED
  BY <1>2, <1>3

-----------------------------------------------------------------------------
(* The messages a step writes. *)

LEMMA WrittenTyped ==
  ASSUME TypeOK, NEW c \in Conns, NEW msgs \in Seq(Msgs), Written(c, msgs)
  PROVE  /\ inbox' \in [Conns -> Seq(Msgs)]
         /\ \A d \in Conns \ {c} : inbox'[d] = inbox[d]
         /\ inbox'[c] = IF link[c] = "open" THEN inbox[c] \o msgs ELSE inbox[c]
<1>1. inbox[c] \o msgs \in Seq(Msgs)
  BY DEF TypeOK
<1>. QED
  BY <1>1 DEF Written, TypeOK

\* A connection that is installed gets what was buffered and the last offers.
LEMMA SetWSStep ==
  ASSUME TypeOK, Remembered, NEW s \in Sides, NEW c \in Conns, SideOf(c) = s,
         link[c] # "unopened", SetWS(s, c)
  PROVE  /\ inbox' \in [Conns -> Seq(Msgs)]
         /\ \A d \in Conns \ {c} : inbox'[d] = inbox[d]
         /\ link[c] = "open" => \A t \in Tracks :
              lastOffer[Other(s)][t] # NoMsg =>
                LastOfferIs(lastOffer[Other(s)][t], t, inbox'[c])
<1>1. PICK order \in Orders(Offers(s)) : Written(c, pending[s] \o order)
  BY DEF SetWS
<1>2. order \in Seq(Msgs) /\ pending[s] \in Seq(Msgs) /\ inbox[c] \in Seq(Msgs)
  BY OrderedOffers DEF TypeOK
<1>3. pending[s] \o order \in Seq(Msgs)
  BY <1>2
<1>4. ASSUME link[c] = "open", NEW t \in Tracks, lastOffer[Other(s)][t] # NoMsg
      PROVE  LastOfferIs(lastOffer[Other(s)][t], t, inbox'[c])
  <2>1. LastOfferIs(lastOffer[Other(s)][t], t, order)
    BY <1>4, OrderedOffers
  <2>2. LastOfferIs(lastOffer[Other(s)][t], t, pending[s] \o order)
    BY <1>2, <2>1, LastOfferLater
  <2>3. LastOfferIs(lastOffer[Other(s)][t], t, inbox[c] \o (pending[s] \o order))
    BY <1>2, <1>3, <2>2, LastOfferLater
  <2>. QED
    BY <1>1, <1>3, <1>4, <2>3, WrittenTyped
<1>. QED
  BY <1>1, <1>3, <1>4, WrittenTyped

\* A relayed message is remembered if it is an offer.
LEMMA RemembersStep ==
  ASSUME TypeOK, Remembered, NEW s \in Sides, NEW m \in Msgs, Remembers(s, m)
  PROVE  /\ lastOffer' \in [Sides -> [Tracks -> Msgs \cup {NoMsg}]]
         /\ Remembered'
         /\ lastOffer'[Other(s)] = lastOffer[Other(s)]
         /\ \A t \in Tracks :
              lastOffer'[s][t] = IF IsOffer(m, t) THEN m ELSE lastOffer[s][t]
<1>1. m.track \in Tracks /\ m.type \in Types
  BY DEF Msgs
<1>2. CASE m.type = "offer"
  BY <1>1, <1>2, SideFacts DEF Remembers, Remembered, IsOffer, TypeOK
<1>3. CASE m.type # "offer"
  BY <1>3 DEF Remembers, Remembered, IsOffer, TypeOK
<1>. QED
  BY <1>2, <1>3

-----------------------------------------------------------------------------
(* The steps that only concern connections and their handlers. *)

LEMMA HandlerAtTyped ==
  ASSUME TypeOK, NEW c \in Conns, NEW from,
         NEW to \in {"join", "read", "relay", "leave", "returned"},
         HandlerAt(c, from, to)
  PROVE  /\ handler' \in [Conns -> {"join", "read", "relay", "leave", "returned"}]
         /\ handler'[c] = to
         /\ \A d \in Conns \ {c} : handler'[d] = handler[d]
BY DEF HandlerAt, TypeOK

\* Connections only open for the first time and close; what is installed
\* stays, or goes and leaves nobody.
Quiet ==
  /\ UNCHANGED <<pending, lastOffer, inbox>>
  /\ ws' \in [Sides -> Conns \cup {NoConn}]
  /\ \A s \in Sides : ws'[s] \in {ws[s], NoConn}
  /\ \A c \in Conns : link[c] # "unopened" => link'[c] \in {link[c], "closed"}

Emptied ==
  /\ UNCHANGED inbox
  /\ ws' = [s \in Sides |-> NoConn]
  /\ pending' = [s \in Sides |-> <<>>]
  /\ lastOffer' = [s \in Sides |-> [t \in Tracks |-> NoMsg]]

LEMMA QuietKeeps ==
  ASSUME IInv, Quiet \/ Emptied
  PROVE  Remembered' /\ Opened' /\ BufferedForNobody' /\ OffersInSync'
<1>. USE DEF IInv, TypeOK
<1>1. CASE Quiet
  <2>1. Remembered' /\ BufferedForNobody'
    BY <1>1 DEF Quiet, Remembered, BufferedForNobody
  <2>2. ASSUME NEW s \in Sides, ws'[s] # NoConn
        PROVE  /\ ws'[s] = ws[s] /\ ws[s] \in Conns
               /\ link'[ws[s]] \in {link[ws[s]], "closed"}
    BY <1>1, <2>2 DEF Quiet, Opened
  <2>3. Opened'
    BY <2>2 DEF Opened
  <2>4. OffersInSync'
    <3>. SUFFICES ASSUME NEW s \in Sides, NEW t \in Tracks,
                         ws'[s] # NoConn, link'[ws'[s]] = "open",
                         lastOffer'[Other(s)][t] # NoMsg
                  PROVE  LastOfferIs(lastOffer'[Other(s)][t], t, inbox'[ws'[s]])
      BY DEF OffersInSync, LastOfferIs
    <3>1. ws'[s] = ws[s] /\ link[ws[s]] = "open"
      BY <2>2
    <3>2. lastOffer' = lastOffer /\ inbox' = inbox
      BY <1>1 DEF Quiet
    <3>. QED
      BY <3>1, <3>2 DEF OffersInSync
  <2>. QED
    BY <2>1, <2>3, <2>4
<1>2. CASE Emptied
  BY <1>2, SideFacts DEF Emptied, Remembered, Opened, BufferedForNobody, OffersInSync
<1>. QED
  BY <1>1, <1>2

LEMMA QuietSteps ==
  ASSUME TypeOK,
         \/ \E c \in Conns :
              \/ JoinFails(c) \/ RelayFails(c) \/ ReadFails(c) \/ Leave(c)
              \/ \E type \in Types, track \in Tracks : Read(c, type, track)
              \/ Open(c) \/ Drop(c)
         \/ ViewerLeaves \/ PresenterLeaves \/ Expire
         \/ UNCHANGED vars
  PROVE  Quiet \/ Emptied
<1>1. ASSUME NEW c \in Conns,
             \/ JoinFails(c) \/ RelayFails(c) \/ ReadFails(c)
             \/ \E type \in Types, track \in Tracks : Read(c, type, track)
      PROVE  Quiet
  BY <1>1 DEF JoinFails, RelayFails, ReadFails, Read, room, Quiet, TypeOK
<1>2. ASSUME NEW c \in Conns, Leave(c)
      PROVE  Quiet
  BY <1>2 DEF Leave, RemoveViewer, room, Quiet, TypeOK, Sides
<1>3. ASSUME NEW c \in Conns, Open(c) \/ Drop(c)
      PROVE  Quiet
  BY <1>3 DEF Open, Drop, room, Quiet, TypeOK
<1>4. CASE ViewerLeaves
  BY <1>4 DEF ViewerLeaves, RemoveViewer, Quiet, TypeOK, Sides
<1>5. CASE PresenterLeaves \/ Expire
  BY <1>5 DEF PresenterLeaves, Expire, Delete, Emptied
<1>6. CASE UNCHANGED vars
  BY <1>6 DEF vars, room, Quiet, TypeOK
<1>. QED
  BY <1>1, <1>2, <1>3, <1>4, <1>5, <1>6

-----------------------------------------------------------------------------
(* The invariant. *)

LEMMA JoinKeeps ==
  ASSUME IInv, NEW c \in Conns, Join(c)
  PROVE  IInv'
<1>. USE DEF IInv
<1>. DEFINE s == SideOf(c)
<1>1. s \in Sides /\ Other(s) \in Sides /\ Other(s) # s
  BY SideFacts
<1>2. /\ link[c] # "unopened" /\ SetWS(s, c)
      /\ UNCHANGED <<holding, sent>> /\ HandlerAt(c, "join", "read")
  BY DEF Join
<1>3. /\ ws' = [ws EXCEPT ![s] = c]
      /\ link' = [d \in Conns |-> IF d = ws[s] /\ d # c THEN "closed" ELSE link[d]]
      /\ pending' = [pending EXCEPT ![s] = <<>>]
      /\ UNCHANGED <<exists, lastOffer>>
  BY <1>2 DEF SetWS
<1>4. /\ inbox' \in [Conns -> Seq(Msgs)]
      /\ \A d \in Conns \ {c} : inbox'[d] = inbox[d]
      /\ link[c] = "open" => \A t \in Tracks :
           lastOffer[Other(s)][t] # NoMsg =>
             LastOfferIs(lastOffer[Other(s)][t], t, inbox'[c])
  BY <1>1, <1>2, SetWSStep
<1>5. TypeOK'
  BY <1>1, <1>2, <1>3, <1>4, HandlerAtTyped, SideFacts DEF TypeOK
<1>6. Carries'
  BY <1>2, HandlerAtTyped DEF Carries
<1>7. Remembered'
  BY <1>3 DEF Remembered
<1>8. Opened'
  BY <1>1, <1>2, <1>3 DEF Opened, TypeOK
<1>9. BufferedForNobody'
  BY <1>1, <1>3 DEF BufferedForNobody, TypeOK
<1>10. OffersInSync'
  <2>. SUFFICES ASSUME NEW r \in Sides, NEW t \in Tracks,
                       ws'[r] # NoConn, link'[ws'[r]] = "open",
                       lastOffer'[Other(r)][t] # NoMsg
                PROVE  LastOfferIs(lastOffer'[Other(r)][t], t, inbox'[ws'[r]])
    BY DEF OffersInSync, LastOfferIs
  <2>1. CASE r = s
    BY <1>1, <1>3, <1>4, <2>1 DEF TypeOK
  <2>2. CASE r # s
    <3>1. ws'[r] = ws[r] /\ ws[r] \in Conns \ {c}
      BY <1>3, <2>2 DEF TypeOK
    <3>2. link[ws[r]] = "open"
      BY <1>3, <3>1 DEF TypeOK
    <3>. QED
      BY <1>3, <1>4, <3>1, <3>2 DEF OffersInSync
  <2>. QED
    BY <2>1, <2>2
<1>. QED
  BY <1>5, <1>6, <1>7, <1>8, <1>9, <1>10

LEMMA RelayKeeps ==
  ASSUME IInv, NEW c \in Conns, Relay(c)
  PROVE  IInv'
<1>. USE DEF IInv
<1>. DEFINE s == Other(SideOf(c))
            m == holding[c]
<1>1. /\ s \in Sides /\ SideOf(c) \in Sides /\ Other(s) = SideOf(c)
      /\ Other(s) # s /\ Other(Other(s)) = s
  BY SideFacts
<1>2. /\ HandlerAt(c, "relay", "read") /\ UNCHANGED <<exists, ws, link, sent>>
      /\ holding' = [holding EXCEPT ![c] = NoMsg]
      /\ Remembers(Other(s), m)
      /\ Buffered(s, m) \/ WrittenTo(s, m)
  BY DEF Relay, SendTo
<1>3. m \in Msgs
  BY <1>2 DEF Carries, HandlerAt, TypeOK
<1>4. /\ lastOffer' \in [Sides -> [Tracks -> Msgs \cup {NoMsg}]]
      /\ Remembered'
      /\ lastOffer'[Other(Other(s))] = lastOffer[Other(Other(s))]
      /\ \A t \in Tracks :
           lastOffer'[Other(s)][t] = IF IsOffer(m, t) THEN m ELSE lastOffer[Other(s)][t]
  BY <1>1, <1>2, <1>3, RemembersStep
<1>5. <<m>> \in Seq(Msgs) /\ Append(pending[s], m) \in Seq(Msgs)
  BY <1>1, <1>3 DEF TypeOK
<1>6. ASSUME Buffered(s, m)
      PROVE  /\ ws[s] = NoConn /\ inbox' = inbox
             /\ pending' = [pending EXCEPT ![s] = Append(@, m)]
  BY <1>6 DEF Buffered
<1>7. ASSUME WrittenTo(s, m)
      PROVE  /\ ws[s] \in Conns /\ pending' = pending
             /\ inbox' \in [Conns -> Seq(Msgs)]
             /\ \A d \in Conns \ {ws[s]} : inbox'[d] = inbox[d]
             /\ link[ws[s]] = "open" => inbox'[ws[s]] = inbox[ws[s]] \o <<m>>
  BY <1>1, <1>5, <1>7, WrittenTyped, ZenonT(30) DEF WrittenTo, TypeOK
<1>8. TypeOK'
  <2>1. pending' \in [Sides -> Seq(Msgs)] /\ inbox' \in [Conns -> Seq(Msgs)]
    BY <1>1, <1>2, <1>5, <1>6, <1>7 DEF TypeOK
  <2>. QED
    BY <1>2, <1>4, <2>1, HandlerAtTyped DEF TypeOK
<1>9. Carries'
  BY <1>2, HandlerAtTyped DEF Carries, TypeOK
<1>10. Opened'
  BY <1>2 DEF Opened
<1>11. BufferedForNobody'
  BY <1>1, <1>2, <1>6, <1>7 DEF BufferedForNobody, TypeOK
<1>12. OffersInSync'
  <2>. SUFFICES ASSUME NEW r \in Sides, NEW t \in Tracks,
                       ws[r] # NoConn, link[ws[r]] = "open",
                       lastOffer'[Other(r)][t] # NoMsg
                PROVE  LastOfferIs(lastOffer'[Other(r)][t], t, inbox'[ws[r]])
    BY <1>2 DEF OffersInSync, LastOfferIs
  <2>0. ws[r] \in Conns /\ inbox[ws[r]] \in Seq(Msgs)
    BY DEF TypeOK
  <2>1. CASE r # s
    <3>1. Other(r) = Other(Other(s))
      BY <1>1, <2>1, SideFacts
    <3>2. LastOfferIs(lastOffer[Other(r)][t], t, inbox[ws[r]])
      BY <1>4, <3>1 DEF OffersInSync
    <3>3. inbox'[ws[r]] = inbox[ws[r]]
      BY <1>1, <1>2, <1>6, <1>7, <2>0, <2>1 DEF TypeOK
    <3>. QED
      BY <1>4, <3>1, <3>2, <3>3
  <2>2. CASE r = s
    <3>1. inbox'[ws[r]] = inbox[ws[r]] \o <<m>>
      BY <1>2, <1>6, <1>7, <2>2
    <3>2. CASE IsOffer(m, t)
      BY <1>3, <1>4, <1>5, <2>0, <2>2, <3>1, <3>2, LastOfferOfOne, LastOfferLater
    <3>3. CASE ~IsOffer(m, t)
      <4>1. LastOfferIs(lastOffer[Other(r)][t], t, inbox[ws[r]])
        BY <1>4, <2>2, <3>3 DEF OffersInSync
      <4>2. \A j \in 1..Len(<<m>>) : ~IsOffer(<<m>>[j], t)
        BY <1>3, <3>3, LastOfferOfOne
      <4>3. LastOfferIs(lastOffer[Other(r)][t], t, inbox[ws[r]] \o <<m>>)
        BY <1>5, <2>0, <4>1, <4>2, LastOfferKept
      <4>. QED
        BY <1>4, <2>2, <3>1, <3>3, <4>3
    <3>. QED
      BY <3>2, <3>3
  <2>. QED
    BY <2>1, <2>2
<1>. QED
  BY <1>4, <1>8, <1>9, <1>10, <1>11, <1>12

\* The types, on the steps without a message for the room.
LEMMA QuietTyped ==
  ASSUME TypeOK, Carries,
         \/ \E c \in Conns :
              \/ JoinFails(c) \/ RelayFails(c) \/ ReadFails(c) \/ Leave(c)
              \/ \E type \in Types, track \in Tracks : Read(c, type, track)
              \/ Open(c) \/ Drop(c)
         \/ ViewerLeaves \/ PresenterLeaves \/ Expire
         \/ UNCHANGED vars
  PROVE  TypeOK' /\ Carries'
<1>1. ASSUME NEW c \in Conns, JoinFails(c) \/ ReadFails(c)
      PROVE  TypeOK' /\ Carries'
  BY <1>1 DEF JoinFails, ReadFails, HandlerAt, room, TypeOK, Carries
<1>2. ASSUME NEW c \in Conns, RelayFails(c)
      PROVE  TypeOK' /\ Carries'
  BY <1>2 DEF RelayFails, HandlerAt, room, TypeOK, Carries
<1>3. ASSUME NEW c \in Conns, Leave(c)
      PROVE  TypeOK' /\ Carries'
  BY <1>3 DEF Leave, RemoveViewer, HandlerAt, room, TypeOK, Carries, Sides
<1>4. ASSUME NEW c \in Conns, NEW type \in Types, NEW track \in Tracks,
             Read(c, type, track)
      PROVE  TypeOK' /\ Carries'
  <2>. DEFINE m == [conn |-> c, n |-> sent + 1, type |-> type, track |-> track]
  <2>1. m \in Msgs /\ m # NoMsg /\ sent' \in 0..MaxSent
    BY <1>4, MsgAssumption DEF Read, Msgs, TypeOK
  <2>2. holding' = [holding EXCEPT ![c] = m] /\ UNCHANGED <<room, link, inbox>>
        /\ HandlerAt(c, "read", "relay")
    BY <1>4 DEF Read
  <2>. QED
    BY <2>1, <2>2, HandlerAtTyped DEF room, TypeOK, Carries
<1>5. ASSUME NEW c \in Conns, Open(c) \/ Drop(c)
      PROVE  TypeOK' /\ Carries'
  BY <1>5 DEF Open, Drop, room, TypeOK, Carries
<1>6. CASE ViewerLeaves
  BY <1>6 DEF ViewerLeaves, RemoveViewer, TypeOK, Carries, Sides
<1>7. CASE PresenterLeaves \/ Expire
  <2>1. Delete /\ UNCHANGED <<handler, holding, inbox, sent>>
    BY <1>7 DEF PresenterLeaves, Expire
  <2>2. link' \in [Conns -> {"unopened", "open", "closed"}]
    BY <1>7 DEF PresenterLeaves, Expire, TypeOK
  <2>3. /\ exists' \in BOOLEAN
        /\ ws' \in [Sides -> Conns \cup {NoConn}]
        /\ \A s \in Sides : ws'[s] = NoConn
        /\ pending' \in [Sides -> Seq(Msgs)]
        /\ lastOffer' \in [Sides -> [Tracks -> Msgs \cup {NoMsg}]]
    <3>1. <<>> \in Seq(Msgs)
      OBVIOUS
    <3>2. [t \in Tracks |-> NoMsg] \in [Tracks -> Msgs \cup {NoMsg}]
      OBVIOUS
    <3>. QED
      BY <2>1, <3>1, <3>2 DEF Delete
  <2>. QED
    BY <2>1, <2>2, <2>3 DEF TypeOK, Carries
<1>8. CASE UNCHANGED vars
  BY <1>8 DEF vars, room, TypeOK, Carries
<1>. QED
  BY <1>1, <1>2, <1>3, <1>4, <1>5, <1>6, <1>7, <1>8

LEMMA Inductive == Spec => []IInv
<1>1. Init => IInv
  <2>1. ASSUME Init
        PROVE  TypeOK
    BY <2>1, MsgAssumption DEF Init, TypeOK
  <2>2. ASSUME Init
        PROVE  Carries /\ Remembered /\ Opened /\ BufferedForNobody /\ OffersInSync
    BY <2>2, SideFacts
       DEF Init, Carries, Remembered, Opened, BufferedForNobody, OffersInSync
  <2>. QED
    BY <2>1, <2>2 DEF IInv
<1>2. IInv /\ [Next]_vars => IInv'
  <2>. SUFFICES ASSUME IInv, [Next]_vars
                PROVE  IInv'
    OBVIOUS
  <2>1. CASE \E c \in Conns : Join(c) \/ Relay(c)
    BY <2>1, JoinKeeps, RelayKeeps
  <2>2. CASE ~\E c \in Conns : Join(c) \/ Relay(c)
    BY <2>2, QuietSteps, QuietKeeps, QuietTyped DEF IInv, Next, HandlerStep
  <2>. QED
    BY <2>1, <2>2
<1>. QED
  BY <1>1, <1>2, PTL DEF Spec

-----------------------------------------------------------------------------
\* The room and the handlers stay well formed; a connection is only ever
\* installed on its own side.
THEOREM TypeCorrect == Spec => []TypeOK
BY Inductive, PTL DEF IInv

\* Setting a connection empties the buffer of its side, and only a side
\* without one buffers.
THEOREM BuffersWaitForNobody == Spec => []BufferedForNobody
BY Inductive, PTL DEF IInv

\* Whatever reconnects and however late a replaced handler relays, the peer
\* that is connected ends up with the offer the room remembers.
THEOREM PeersHaveTheLastOffer == Spec => []OffersInSync
BY Inductive, PTL DEF IInv

-----------------------------------------------------------------------------
(* Messages are passed on once and in order.                                *)

\* What the room or a client has of a message.
Passed(m) ==
  \/ \E s \in Sides : \E p \in Places(s) : \E i \in DOMAIN At(s, p) : At(s, p)[i] = m
  \/ \E s \in Sides, t \in Tracks : m # NoMsg /\ lastOffer[s][t] = m

Numbered == \A m \in Msgs : Passed(m) => m.n <= sent

\* A handler reads and relays one message at a time, so what it holds is newer
\* than all that came over its connection before.
HeldIsNewest ==
  \A c \in Conns : holding[c] # NoMsg =>
    /\ holding[c].conn = c
    /\ holding[c].n <= sent
    /\ \A m \in Msgs : Passed(m) /\ m.conn = c => m.n < holding[c].n

\* A connection is installed once, and nothing is written to it before.
JoinsOnce ==
  /\ \A c \in Conns : handler[c] = "join" => inbox[c] = <<>>
  /\ \A s \in Sides : ws[s] # NoConn => handler[ws[s]] # "join"

OrderInv == Numbered /\ HeldIsNewest /\ JoinsOnce /\ OthersAtMostOnce /\ InOrder

-----------------------------------------------------------------------------
(* What the steps do to the places a message can be in. *)

LEMMA PlacesTyped ==
  ASSUME TypeOK, NEW s \in Sides, NEW p \in Places(s)
  PROVE  At(s, p) \in Seq(Msgs)
BY DEF TypeOK, Places, At

LEMMA JoinEffect ==
  ASSUME IInv, JoinsOnce, NEW c \in Conns, Join(c)
  PROVE  /\ At(SideOf(c), NoConn)' = <<>>
         /\ \/ At(SideOf(c), c)' = <<>>
            \/ \E again \in Seq(Msgs) :
                 /\ At(SideOf(c), c)' = At(SideOf(c), NoConn) \o again
                 /\ \A i \in DOMAIN again :
                      /\ again[i].type = "offer"
                      /\ \E s \in Sides, t \in Tracks :
                           again[i] # NoMsg /\ lastOffer[s][t] = again[i]
         /\ \A r \in Sides : \A q \in Places(r) :
              r # SideOf(c) \/ q \notin {NoConn, c} => At(r, q)' = At(r, q)
         /\ UNCHANGED <<lastOffer, holding, sent>>
<1>. USE DEF IInv
<1>. DEFINE s == SideOf(c)
<1>1. s \in Sides /\ Other(s) \in Sides /\ c # NoConn
  BY SideFacts, ConnsAssumption
<1>2. /\ SetWS(s, c) /\ UNCHANGED <<holding, sent, lastOffer>>
      /\ handler[c] = "join" /\ pending' = [pending EXCEPT ![s] = <<>>]
  BY DEF Join, HandlerAt, SetWS
<1>3. PICK order \in Orders(Offers(s)) : Written(c, pending[s] \o order)
  BY <1>2 DEF SetWS
<1>4. order \in Seq(Msgs) /\ pending[s] \in Seq(Msgs) /\ pending[s] \o order \in Seq(Msgs)
  BY <1>1, OrderedOffers DEF TypeOK
<1>5. inbox[c] = <<>>
  BY <1>2 DEF JoinsOnce
<1>6. /\ \A d \in Conns \ {c} : inbox'[d] = inbox[d]
      /\ inbox'[c] = IF link[c] = "open" THEN inbox[c] \o (pending[s] \o order) ELSE inbox[c]
  BY <1>3, <1>4, WrittenTyped
<1>7. inbox'[c] = <<>> \/ inbox'[c] = pending[s] \o order
  BY <1>4, <1>5, <1>6, ConcatEmptySeq
<1>8. ASSUME NEW i \in DOMAIN order
      PROVE  /\ order[i].type = "offer"
             /\ \E r \in Sides, t \in Tracks : order[i] # NoMsg /\ lastOffer[r][t] = order[i]
  <2>1. order[i] \in Offers(s)
    BY DEF Orders
  <2>2. PICK t \in Tracks : order[i] # NoMsg /\ lastOffer[Other(s)][t] = order[i]
    BY <2>1 DEF Offers
  <2>. QED
    BY <1>1, <2>2 DEF Remembered, IsOffer
<1>9. At(s, NoConn)' = <<>> /\ At(s, NoConn) = pending[s] /\ At(s, c)' = inbox'[c]
  BY <1>1, <1>2 DEF At, TypeOK
<1>10. ASSUME NEW r \in Sides, NEW q \in Places(r), r # s \/ q \notin {NoConn, c}
       PROVE  At(r, q)' = At(r, q)
  <2>1. CASE q = NoConn
    BY <1>2, <1>10, <2>1 DEF At, TypeOK
  <2>2. CASE q # NoConn
    BY <1>6, <1>10, <2>2 DEF At, Places
  <2>. QED
    BY <2>1, <2>2
<1>. QED
  BY <1>2, <1>4, <1>7, <1>8, <1>9, <1>10

LEMMA RelayEffect ==
  ASSUME IInv, NEW c \in Conns, Relay(c)
  PROVE  /\ holding[c] \in Msgs /\ holding[c] # NoMsg
         /\ \E s \in Sides : \E p \in Places(s) :
              /\ At(s, p)' = At(s, p) \/ At(s, p)' = Append(At(s, p), holding[c])
              /\ \A r \in Sides : \A q \in Places(r) :
                   r # s \/ q # p => At(r, q)' = At(r, q)
         /\ \A s \in Sides, t \in Tracks : lastOffer'[s][t] \in {lastOffer[s][t], holding[c]}
         /\ holding' = [holding EXCEPT ![c] = NoMsg] /\ sent' = sent
<1>. USE DEF IInv
<1>. DEFINE s == Other(SideOf(c))
            m == holding[c]
<1>1. /\ s \in Sides /\ SideOf(c) \in Sides /\ Other(s) = SideOf(c)
      /\ \A r \in Sides : r = s \/ r = Other(s)
  BY SideFacts
<1>2. /\ HandlerAt(c, "relay", "read") /\ UNCHANGED <<ws, link, sent>>
      /\ holding' = [holding EXCEPT ![c] = NoMsg]
      /\ Remembers(Other(s), m)
      /\ Buffered(s, m) \/ WrittenTo(s, m)
  BY DEF Relay, SendTo
<1>3. m \in Msgs /\ m # NoMsg
  BY <1>2 DEF Carries, HandlerAt, TypeOK
<1>4. \A r \in Sides, t \in Tracks : lastOffer'[r][t] \in {lastOffer[r][t], m}
  BY <1>1, <1>2, <1>3, RemembersStep
<1>5. CASE Buffered(s, m)
  <2>1. /\ NoConn \in Places(s) /\ inbox' = inbox
        /\ pending' = [pending EXCEPT ![s] = Append(@, m)]
    BY <1>5 DEF Buffered, Places
  <2>2. At(s, NoConn)' = Append(At(s, NoConn), m)
    BY <1>1, <2>1 DEF At, TypeOK
  <2>3. \A r \in Sides : \A q \in Places(r) : r # s \/ q # NoConn => At(r, q)' = At(r, q)
    BY <2>1 DEF At, TypeOK
  <2>. QED
    BY <1>1, <1>2, <1>3, <1>4, <2>1, <2>2, <2>3
<1>6. CASE WrittenTo(s, m)
  <2>1. /\ ws[s] \in Conns /\ ws[s] # NoConn /\ SideOf(ws[s]) = s /\ pending' = pending
        /\ Written(ws[s], <<m>>)
    BY <1>1, <1>6 DEF WrittenTo, TypeOK
  <2>2. /\ \A d \in Conns \ {ws[s]} : inbox'[d] = inbox[d]
        /\ inbox'[ws[s]] = inbox[ws[s]] \/ inbox'[ws[s]] = inbox[ws[s]] \o <<m>>
    <3>1. <<m>> \in Seq(Msgs)
      BY <1>3
    <3>. QED
      BY <2>1, <3>1, WrittenTyped
  <2>3. inbox[ws[s]] \o <<m>> = Append(inbox[ws[s]], m)
    BY <1>3, <2>1, AppendIsConcat DEF TypeOK
  <2>4. At(s, ws[s])' = At(s, ws[s]) \/ At(s, ws[s])' = Append(At(s, ws[s]), m)
    BY <1>2, <2>1, <2>2, <2>3 DEF At
  <2>5. \A r \in Sides : \A q \in Places(r) : r # s \/ q # ws[s] => At(r, q)' = At(r, q)
    BY <2>1, <2>2 DEF At, Places
  <2>6. ws[s] \in Places(s)
    BY <2>1 DEF Places
  <2>. QED
    BY <1>1, <1>2, <1>3, <1>4, <2>4, <2>5, <2>6
<1>. QED
  BY <1>2, <1>5, <1>6

\* A step that passes nothing on leaves every place as it was, or empties the
\* buffers.
LEMMA QuietEffect ==
  ASSUME IInv, Quiet \/ Emptied
  PROVE  /\ \A s \in Sides : \A p \in Places(s) :
              At(s, p)' = At(s, p) \/ At(s, p)' = <<>>
         /\ \A s \in Sides, t \in Tracks : lastOffer'[s][t] \in {lastOffer[s][t], NoMsg}
BY DEF IInv, TypeOK, Quiet, Emptied, At

-----------------------------------------------------------------------------
(* No step passes on anything but the message a handler holds.              *)

LEMMA JoinPassesNothing ==
  ASSUME IInv, IInv', JoinsOnce, NEW c \in Conns, Join(c), NEW m \in Msgs, Passed(m)'
  PROVE  Passed(m)
<1>. DEFINE s == SideOf(c)
<1>0. s \in Sides /\ NoConn \in Places(s) /\ At(s, NoConn) \in Seq(Msgs)
  BY SideFacts, PlacesTyped DEF Places, IInv
<1>1. CASE \E r \in Sides, t \in Tracks : m # NoMsg /\ lastOffer'[r][t] = m
  BY <1>1, JoinEffect DEF Passed
<1>2. ASSUME NEW r \in Sides, NEW q \in Places(r), NEW i \in DOMAIN (At(r, q)'),
             At(r, q)'[i] = m
      PROVE  Passed(m)
  <2>1. CASE r # s \/ q \notin {NoConn, c}
    BY <1>2, <2>1, JoinEffect DEF Passed
  <2>2. CASE r = s /\ q = NoConn
    BY <1>2, <2>2, JoinEffect
  <2>3. CASE r = s /\ q = c /\ At(s, c)' = <<>>
    BY <1>2, <2>3
  <2>4. CASE r = s /\ q = c /\ At(s, c)' # <<>>
    <3>1. PICK again \in Seq(Msgs) :
            /\ At(s, c)' = At(s, NoConn) \o again
            /\ \A j \in DOMAIN again :
                 /\ again[j].type = "offer"
                 /\ \E o \in Sides, t \in Tracks :
                      again[j] # NoMsg /\ lastOffer[o][t] = again[j]
      BY <2>4, JoinEffect, Zenon
    <3>2. \/ i \in DOMAIN At(s, NoConn) /\ m = At(s, NoConn)[i]
          \/ \E j \in DOMAIN again : m = again[j]
      <4>. DEFINE p == At(s, NoConn)
      <4>1. i \in 1..Len(p) + Len(again) /\ m = (p \o again)[i]
        BY <1>0, <1>2, <2>4, <3>1
      <4>2. CASE i <= Len(p)
        BY <1>0, <4>1, <4>2
      <4>3. CASE i > Len(p)
        <5>1. i - Len(p) \in 1..Len(again) /\ m = again[i - Len(p)]
          BY <1>0, <4>1, <4>3
        <5>. QED
          BY <5>1
      <4>. QED
        BY <1>0, <4>1, <4>2, <4>3
    <3>. QED
      BY <1>0, <3>1, <3>2, SMTT(30) DEF Passed
  <2>. QED
    BY <2>1, <2>2, <2>3, <2>4
<1>. QED
  BY <1>1, <1>2 DEF Passed

LEMMA RelayPassesHeld ==
  ASSUME IInv, NEW c \in Conns, Relay(c), NEW m \in Msgs, Passed(m)'
  PROVE  Passed(m) \/ m = holding[c]
<1>1. CASE \E r \in Sides, t \in Tracks : m # NoMsg /\ lastOffer'[r][t] = m
  BY <1>1, RelayEffect DEF Passed
<1>2. ASSUME NEW r \in Sides, NEW q \in Places(r), NEW i \in DOMAIN (At(r, q)'),
             At(r, q)'[i] = m
      PROVE  Passed(m) \/ m = holding[c]
  <2>1. CASE At(r, q)' = At(r, q)
    BY <1>2, <2>1 DEF Passed
  <2>2. CASE At(r, q)' = Append(At(r, q), holding[c])
    <3>1. At(r, q) \in Seq(Msgs) /\ holding[c] \in Msgs
      BY PlacesTyped, RelayEffect DEF IInv
    <3>2. i \in 1..Len(At(r, q)) + 1
      BY <1>2, <2>2, <3>1
    <3>3. CASE i = Len(At(r, q)) + 1
      BY <1>2, <2>2, <3>1, <3>3
    <3>4. CASE i \in 1..Len(At(r, q))
      BY <1>2, <2>2, <3>1, <3>4 DEF Passed
    <3>. QED
      BY <3>1, <3>2, <3>3, <3>4
  <2>. QED
    BY <2>1, <2>2, RelayEffect
<1>. QED
  BY <1>1, <1>2 DEF Passed

LEMMA QuietPassesNothing ==
  ASSUME IInv, Quiet \/ Emptied, NEW m \in Msgs, Passed(m)'
  PROVE  Passed(m)
<1>1. CASE \E r \in Sides, t \in Tracks : m # NoMsg /\ lastOffer'[r][t] = m
  BY <1>1, QuietEffect DEF Passed
<1>2. ASSUME NEW r \in Sides, NEW q \in Places(r), NEW i \in DOMAIN (At(r, q)'),
             At(r, q)'[i] = m
      PROVE  Passed(m)
  BY <1>2, QuietEffect DEF Passed
<1>. QED
  BY <1>1, <1>2 DEF Passed

\* The steps that change neither the room's messages nor the clients'.
QuietStep ==
  \/ \E c \in Conns :
       \/ JoinFails(c) \/ RelayFails(c) \/ ReadFails(c) \/ Leave(c)
       \/ \E type \in Types, track \in Tracks : Read(c, type, track)
       \/ Open(c) \/ Drop(c)
  \/ ViewerLeaves \/ PresenterLeaves \/ Expire
  \/ UNCHANGED vars

LEMMA StepKinds ==
  ASSUME IInv, [Next]_vars
  PROVE  \/ \E c \in Conns : Join(c) \/ Relay(c)
         \/ QuietStep /\ (Quiet \/ Emptied)
<1>1. CASE ~\E c \in Conns : Join(c) \/ Relay(c)
  <2>1. QuietStep
    BY <1>1 DEF Next, HandlerStep, QuietStep
  <2>. QED
    BY <2>1, QuietSteps DEF QuietStep, IInv
<1>. QED
  BY <1>1

-----------------------------------------------------------------------------
(* The invariant of the order. *)

LEMMA HeldTyped ==
  ASSUME IInv, NEW c \in Conns, holding[c] # NoMsg
  PROVE  holding[c] \in Msgs /\ holding[c].n \in Nat
BY MsgAssumption DEF IInv, TypeOK, Msgs

LEMMA NumberedStep ==
  ASSUME IInv, IInv', OrderInv, [Next]_vars
  PROVE  Numbered' /\ HeldIsNewest'
<1>. USE DEF OrderInv
<1>0. sent \in Nat /\ \A m \in Msgs : m.n \in Nat
  BY MsgAssumption DEF IInv, TypeOK, Msgs
<1>1. ASSUME NEW c \in Conns, Join(c)
      PROVE  Numbered' /\ HeldIsNewest'
  <2>1. \A m \in Msgs : Passed(m)' => Passed(m)
    BY <1>1, JoinPassesNothing
  <2>2. UNCHANGED <<holding, sent>>
    BY <1>1 DEF Join
  <2>. QED
    BY <2>1, <2>2 DEF Numbered, HeldIsNewest
<1>2. ASSUME NEW c \in Conns, Relay(c)
      PROVE  Numbered' /\ HeldIsNewest'
  <2>1. \A m \in Msgs : Passed(m)' => Passed(m) \/ m = holding[c]
    BY <1>2, RelayPassesHeld
  <2>2. /\ holding[c] # NoMsg /\ holding[c].conn = c /\ holding[c].n <= sent
        /\ holding' = [holding EXCEPT ![c] = NoMsg] /\ sent' = sent
    BY <1>2, RelayEffect DEF HeldIsNewest
  <2>3. \A d \in Conns : holding'[d] # NoMsg => d # c /\ holding'[d] = holding[d]
    BY <2>2 DEF IInv, TypeOK
  <2>4. Numbered'
    BY <2>1, <2>2 DEF Numbered
  <2>5. HeldIsNewest'
    BY <2>1, <2>2, <2>3 DEF HeldIsNewest
  <2>. QED
    BY <2>4, <2>5
<1>3. ASSUME QuietStep, Quiet \/ Emptied
      PROVE  Numbered' /\ HeldIsNewest'
  <2>1. \A m \in Msgs : Passed(m)' => Passed(m)
    BY <1>3, QuietPassesNothing
  <2>2. CASE \E c \in Conns, type \in Types, track \in Tracks : Read(c, type, track)
    <3>1. PICK c \in Conns, type \in Types, track \in Tracks : Read(c, type, track)
      BY <2>2
    <3>. DEFINE new == [conn |-> c, n |-> sent + 1, type |-> type, track |-> track]
    <3>2. sent' = sent + 1 /\ holding' = [holding EXCEPT ![c] = new]
      BY <3>1 DEF Read
    <3>3. /\ holding'[c].conn = c /\ holding'[c].n = sent + 1
          /\ \A d \in Conns \ {c} : holding'[d] = holding[d]
      BY <3>2 DEF IInv, TypeOK
    <3>4. Numbered'
      BY <1>0, <2>1, <3>2 DEF Numbered
    <3>5. HeldIsNewest'
      <4>. SUFFICES ASSUME NEW d \in Conns, holding'[d] # NoMsg
                    PROVE  /\ holding'[d].conn = d
                           /\ holding'[d].n <= sent'
                           /\ \A m \in Msgs : Passed(m)' /\ m.conn = d => m.n < holding'[d].n
        BY DEF HeldIsNewest
      <4>1. CASE d = c
        BY <1>0, <2>1, <3>2, <3>3, <4>1 DEF Numbered
      <4>2. CASE d # c
        BY <1>0, <2>1, <3>2, <3>3, <4>2, HeldTyped DEF HeldIsNewest
      <4>. QED
        BY <4>1, <4>2
    <3>. QED
      BY <3>4, <3>5
  <2>3. CASE ~\E c \in Conns, type \in Types, track \in Tracks : Read(c, type, track)
    <3>1. sent' = sent /\ \A d \in Conns : holding'[d] \in {holding[d], NoMsg}
      BY <1>3, <2>3 DEF QuietStep, JoinFails, RelayFails, ReadFails, Leave, Open, Drop,
         ViewerLeaves, PresenterLeaves, Expire, vars, IInv, TypeOK
    <3>. QED
      BY <2>1, <3>1 DEF Numbered, HeldIsNewest
  <2>. QED
    BY <2>2, <2>3
<1>. QED
  BY <1>1, <1>2, <1>3, StepKinds

LEMMA JoinsOnceStep ==
  ASSUME IInv, IInv', JoinsOnce, [Next]_vars
  PROVE  JoinsOnce'
<1>. USE DEF JoinsOnce
<1>1. ASSUME NEW c \in Conns, Join(c)
      PROVE  JoinsOnce'
  <2>1. /\ handler'[c] = "read" /\ \A d \in Conns \ {c} : handler'[d] = handler[d]
        /\ ws' = [ws EXCEPT ![SideOf(c)] = c]
    BY <1>1 DEF Join, SetWS, HandlerAt, IInv, TypeOK
  <2>2. \A d \in Conns \ {c} : inbox'[d] = inbox[d]
    <3>1. \A d \in Conns \ {c} : d \in Places(SideOf(d)) /\ d # NoConn /\ SideOf(d) \in Sides
      BY SideFacts, ConnsAssumption DEF Places
    <3>2. \A d \in Conns \ {c} : At(SideOf(d), d)' = At(SideOf(d), d)
      BY <1>1, <3>1, JoinEffect
    <3>. QED
      BY <3>1, <3>2 DEF At
  <2>3. \A d \in Conns : handler'[d] = "join" => inbox'[d] = <<>>
    BY <2>1, <2>2
  <2>4. ASSUME NEW r \in Sides, ws'[r] # NoConn
        PROVE  handler'[ws'[r]] # "join"
    <3>1. ws'[r] = c \/ (ws'[r] = ws[r] /\ ws[r] \in Conns)
      BY <2>1, <2>4 DEF IInv, TypeOK
    <3>. QED
      BY <2>1, <2>4, <3>1
  <2>. QED
    BY <2>3, <2>4
<1>2. ASSUME NEW c \in Conns, Relay(c)
      PROVE  JoinsOnce'
  <2>. DEFINE s == Other(SideOf(c))
  <2>1. /\ handler'[c] = "read" /\ \A d \in Conns \ {c} : handler'[d] = handler[d]
        /\ handler[c] = "relay" /\ ws' = ws
        /\ inbox' = inbox \/ (ws[s] # NoConn /\ Written(ws[s], <<holding[c]>>))
    BY <1>2 DEF Relay, SendTo, Buffered, WrittenTo, HandlerAt, IInv, TypeOK
  <2>2. \A d \in Conns : handler[d] = "join" => inbox'[d] = inbox[d]
    <3>1. s \in Sides
      BY SideFacts
    <3>2. CASE inbox' = inbox
      BY <3>2
    <3>3. CASE ws[s] # NoConn /\ Written(ws[s], <<holding[c]>>)
      <4>1. handler[ws[s]] # "join"
        BY <3>1, <3>3
      <4>. QED
        BY <3>3, <4>1 DEF Written, IInv, TypeOK
    <3>. QED
      BY <2>1, <3>2, <3>3
  <2>3. \A d \in Conns : handler'[d] = "join" => handler[d] = "join"
    BY <2>1
  <2>4. \A r \in Sides : ws[r] # NoConn => handler'[ws[r]] # "join"
    BY <2>3 DEF IInv, TypeOK
  <2>. QED
    BY <2>1, <2>2, <2>3, <2>4
<1>3. ASSUME QuietStep, Quiet \/ Emptied
      PROVE  JoinsOnce'
  <2>1. \A c \in Conns : handler'[c] = "join" => handler[c] = "join"
    <3>1. ASSUME NEW c \in Conns, JoinFails(c)
          PROVE  \A d \in Conns : handler'[d] = "join" => handler[d] = "join"
      BY <3>1 DEF JoinFails, HandlerAt, IInv, TypeOK
    <3>2. ASSUME NEW c \in Conns, RelayFails(c) \/ ReadFails(c) \/ Leave(c)
          PROVE  \A d \in Conns : handler'[d] = "join" => handler[d] = "join"
      BY <3>2 DEF RelayFails, ReadFails, Leave, HandlerAt, IInv, TypeOK
    <3>3. ASSUME NEW c \in Conns, NEW type \in Types, NEW track \in Tracks,
                 Read(c, type, track)
          PROVE  \A d \in Conns : handler'[d] = "join" => handler[d] = "join"
      BY <3>3 DEF Read, HandlerAt, IInv, TypeOK
    <3>4. ASSUME \/ \E c \in Conns : Open(c) \/ Drop(c)
                 \/ ViewerLeaves \/ PresenterLeaves \/ Expire \/ UNCHANGED vars
          PROVE  handler' = handler
      BY <3>4 DEF Open, Drop, ViewerLeaves, PresenterLeaves, Expire, vars
    <3>. QED
      BY <1>3, <3>1, <3>2, <3>3, <3>4 DEF QuietStep
  <2>2. inbox' = inbox /\ \A s \in Sides : ws'[s] \in {ws[s], NoConn}
    BY <1>3 DEF Quiet, Emptied
  <2>. QED
    BY <2>1, <2>2 DEF IInv, TypeOK
<1>. QED
  BY <1>1, <1>2, <1>3, StepKinds

-----------------------------------------------------------------------------
(* Once, and in order. *)

LEMMA OnceStep ==
  ASSUME IInv, IInv', OrderInv, [Next]_vars
  PROVE  OthersAtMostOnce'
<1>. USE DEF OrderInv
<1>. SUFFICES ASSUME NEW r \in Sides, NEW p \in Places(r), NEW q \in Places(r),
                     NEW i \in DOMAIN (At(r, p)'), NEW j \in DOMAIN (At(r, q)'),
                     At(r, p)'[i] = At(r, q)'[j], At(r, p)'[i].type = "other"
              PROVE  p = q /\ i = j
  BY DEF OthersAtMostOnce, Places
<1>0. At(r, p) \in Seq(Msgs) /\ At(r, q) \in Seq(Msgs)
  BY PlacesTyped DEF IInv
<1>1. ASSUME NEW c \in Conns, Join(c)
      PROVE  p = q /\ i = j
  <2>. DEFINE s == SideOf(c)
  <2>0. NoConn \in Places(s) /\ s \in Sides /\ At(s, NoConn) \in Seq(Msgs)
    BY SideFacts, PlacesTyped DEF Places, IInv
  <2>1. ASSUME NEW o \in Places(r), NEW k \in DOMAIN (At(r, o)'),
               At(r, o)'[k].type = "other"
        PROVE  /\ (r = s /\ o = c) => k \in DOMAIN At(s, NoConn)
                                       /\ At(r, o)'[k] = At(s, NoConn)[k]
               /\ ~(r = s /\ o = c) => o # NoConn \/ r # s
               /\ ~(r = s /\ o = c) => At(r, o)' = At(r, o)
    <3>1. CASE r = s /\ o = c
      <4>1. At(s, c)' # <<>>
        BY <2>1, <3>1
      <4>2. PICK again \in Seq(Msgs) :
              /\ At(s, c)' = At(s, NoConn) \o again
              /\ \A n \in DOMAIN again :
                   /\ again[n].type = "offer"
                   /\ \E x \in Sides, t \in Tracks :
                        again[n] # NoMsg /\ lastOffer[x][t] = again[n]
        BY <1>1, <4>1, JoinEffect, Zenon
      <4>. DEFINE b == At(s, NoConn)
      <4>3. k \in 1..Len(b) + Len(again) /\ At(r, o)'[k] = (b \o again)[k]
        BY <2>0, <2>1, <3>1, <4>2
      <4>4. ~(k > Len(b))
        <5>1. ASSUME k > Len(b)
              PROVE  k - Len(b) \in DOMAIN again /\ At(r, o)'[k] = again[k - Len(b)]
          BY <2>0, <4>3, <5>1
        <5>. QED
          BY <2>1, <4>2, <5>1
      <4>. QED
        BY <2>0, <3>1, <4>3, <4>4
    <3>2. CASE ~(r = s /\ o = c)
      <4>1. ~(r = s /\ o = NoConn)
        BY <1>1, <2>1, JoinEffect
      <4>. QED
        BY <1>1, <3>2, <4>1, JoinEffect
    <3>. QED
      BY <3>1, <3>2
  <2>2. At(r, q)'[j].type = "other"
    OBVIOUS
  <2>3. CASE r = s /\ p = c /\ q = c
    BY <2>0, <2>1, <2>2, <2>3 DEF OthersAtMostOnce
  <2>4. CASE r = s /\ p = c /\ q # c
    BY <2>0, <2>1, <2>2, <2>4 DEF OthersAtMostOnce
  <2>5. CASE r = s /\ p # c /\ q = c
    BY <2>0, <2>1, <2>2, <2>5 DEF OthersAtMostOnce
  <2>6. CASE r # s \/ (p # c /\ q # c)
    BY <2>0, <2>1, <2>2, <2>6 DEF OthersAtMostOnce
  <2>. QED
    BY <2>3, <2>4, <2>5, <2>6
<1>2. ASSUME NEW c \in Conns, Relay(c)
      PROVE  p = q /\ i = j
  <2>. DEFINE m == holding[c]
  <2>0. PICK s \in Sides : \E o \in Places(s) :
          /\ At(s, o)' = At(s, o) \/ At(s, o)' = Append(At(s, o), m)
          /\ \A x \in Sides : \A y \in Places(x) : x # s \/ y # o => At(x, y)' = At(x, y)
    BY <1>2, RelayEffect
  <2>1. PICK o \in Places(s) :
          /\ At(s, o)' = At(s, o) \/ At(s, o)' = Append(At(s, o), m)
          /\ \A x \in Sides : \A y \in Places(x) : x # s \/ y # o => At(x, y)' = At(x, y)
    BY <2>0
  <2>2. m \in Msgs /\ ~Passed(m)
    <3>1. m \in Msgs /\ m # NoMsg
      BY <1>2, RelayEffect
    <3>. QED
      BY <3>1, HeldTyped DEF HeldIsNewest
  <2>3. ASSUME NEW y \in Places(r), NEW k \in DOMAIN (At(r, y)')
        PROVE  \/ k \in DOMAIN At(r, y) /\ At(r, y)'[k] = At(r, y)[k]
               \/ r = s /\ y = o /\ k = Len(At(s, o)) + 1 /\ At(r, y)'[k] = m
    <3>1. CASE At(r, y)' = At(r, y)
      BY <2>3, <3>1
    <3>2. CASE r = s /\ y = o /\ At(s, o)' = Append(At(s, o), m)
      <4>1. At(s, o) \in Seq(Msgs)
        BY PlacesTyped DEF IInv
      <4>. QED
        BY <2>2, <2>3, <3>2, <4>1
    <3>. QED
      BY <2>1, <3>1, <3>2
  <2>4. \A y \in Places(r) : \A k \in DOMAIN At(r, y) : At(r, y)[k] # m
    BY <2>2 DEF Passed
  <2>. QED
    BY <2>3, <2>4 DEF OthersAtMostOnce
<1>3. ASSUME Quiet \/ Emptied
      PROVE  p = q /\ i = j
  <2>1. At(r, p)' = At(r, p) /\ At(r, q)' = At(r, q)
    BY <1>3, QuietEffect
  <2>. QED
    BY <2>1 DEF OthersAtMostOnce
<1>. QED
  BY <1>1, <1>2, <1>3, StepKinds

LEMMA InOrderStep ==
  ASSUME IInv, IInv', OrderInv, [Next]_vars
  PROVE  InOrder'
<1>. USE DEF OrderInv
<1>. SUFFICES ASSUME NEW r \in Sides, NEW p \in Places(r)
              PROVE  InSendingOrder(At(r, p)')
  BY DEF InOrder, Places, InSendingOrder
<1>0. At(r, p) \in Seq(Msgs) /\ InSendingOrder(At(r, p))
  BY PlacesTyped DEF IInv, InOrder
<1>1. InSendingOrder(<<>>)
  BY DEF InSendingOrder
<1>2. ASSUME NEW c \in Conns, Join(c)
      PROVE  InSendingOrder(At(r, p)')
  <2>. DEFINE s == SideOf(c)
              b == At(s, NoConn)
  <2>0. NoConn \in Places(s) /\ s \in Sides /\ b \in Seq(Msgs) /\ InSendingOrder(b)
    BY SideFacts, PlacesTyped DEF Places, IInv, InOrder
  <2>1. CASE r # s \/ p \notin {NoConn, c}
    BY <1>0, <1>2, <2>1, JoinEffect
  <2>2. CASE r = s /\ p = NoConn
    BY <1>1, <1>2, <2>2, JoinEffect
  <2>3. CASE r = s /\ p = c
    <3>1. CASE At(s, c)' = <<>>
      BY <1>1, <2>3, <3>1
    <3>2. CASE At(s, c)' # <<>>
      <4>1. PICK again \in Seq(Msgs) :
              /\ At(s, c)' = At(s, NoConn) \o again
              /\ \A n \in DOMAIN again :
                   /\ again[n].type = "offer"
                   /\ \E x \in Sides, t \in Tracks :
                        again[n] # NoMsg /\ lastOffer[x][t] = again[n]
        BY <1>2, <3>2, JoinEffect, Zenon
      <4>2. ASSUME NEW i \in DOMAIN (b \o again), NEW j \in DOMAIN (b \o again), i < j,
                   (b \o again)[i].conn = (b \o again)[j].conn,
                   (b \o again)[j].type = "other"
            PROVE  (b \o again)[i].n < (b \o again)[j].n
        <5>1. i \in 1..Len(b) + Len(again) /\ j \in 1..Len(b) + Len(again)
          BY <2>0
        <5>2. ~(j > Len(b))
          <6>1. ASSUME j > Len(b)
                PROVE  j - Len(b) \in DOMAIN again /\ (b \o again)[j] = again[j - Len(b)]
            BY <2>0, <5>1, <6>1
          <6>. QED
            BY <4>1, <4>2, <6>1
        <5>3. i \in DOMAIN b /\ j \in DOMAIN b /\ (b \o again)[i] = b[i] /\ (b \o again)[j] = b[j]
          BY <2>0, <4>2, <5>1, <5>2
        <5>. QED
          BY <2>0, <4>2, <5>3 DEF InSendingOrder
      <4>3. At(r, p)' = b \o again
        BY <2>3, <4>1
      <4>4. InSendingOrder(b \o again)
        BY <4>2 DEF InSendingOrder
      <4>. QED
        BY ONLY <4>3, <4>4 DEF InSendingOrder
    <3>. QED
      BY <3>1, <3>2
  <2>. QED
    BY <2>1, <2>2, <2>3
<1>3. ASSUME NEW c \in Conns, Relay(c)
      PROVE  InSendingOrder(At(r, p)')
  <2>. DEFINE m == holding[c]
  <2>1. At(r, p)' = At(r, p) \/ At(r, p)' = Append(At(r, p), m)
    BY <1>3, RelayEffect
  <2>2. CASE At(r, p)' = Append(At(r, p), m)
    <3>. DEFINE a == At(r, p)
    <3>1. m \in Msgs /\ m.conn = c /\ \A x \in Msgs : Passed(x) /\ x.conn = c => x.n < m.n
      BY <1>3, RelayEffect DEF HeldIsNewest
    <3>2. \A i \in DOMAIN a : a[i] \in Msgs /\ Passed(a[i])
      BY <1>0 DEF Passed
    <3>3. ASSUME NEW i \in DOMAIN Append(a, m), NEW j \in DOMAIN Append(a, m), i < j,
                 Append(a, m)[i].conn = Append(a, m)[j].conn,
                 Append(a, m)[j].type = "other"
          PROVE  Append(a, m)[i].n < Append(a, m)[j].n
      <4>1. /\ i \in 1..Len(a) /\ Append(a, m)[i] = a[i] /\ DOMAIN a = 1..Len(a)
            /\ j \in 1..Len(a) + 1
        BY <1>0, <3>1, <3>3
      <4>2. CASE j = Len(a) + 1
        <5>1. Append(a, m)[j] = m
          BY <1>0, <3>1, <4>2
        <5>. QED
          BY <3>1, <3>2, <3>3, <4>1, <5>1
      <4>3. CASE j \in 1..Len(a)
        <5>1. Append(a, m)[j] = a[j]
          BY <1>0, <3>1, <4>3
        <5>. QED
          BY <1>0, <3>3, <4>1, <4>3, <5>1 DEF InSendingOrder
      <4>. QED
        BY <1>0, <4>1, <4>2, <4>3
    <3>. QED
      BY <2>2, <3>3 DEF InSendingOrder
  <2>. QED
    BY <1>0, <2>1, <2>2
<1>4. ASSUME Quiet \/ Emptied
      PROVE  InSendingOrder(At(r, p)')
  BY <1>0, <1>1, <1>4, QuietEffect
<1>. QED
  BY <1>2, <1>3, <1>4, StepKinds

LEMMA OrderInductive == Spec => []OrderInv
<1>1. Init => OrderInv
  BY MsgAssumption DEF Init, OrderInv, Numbered, HeldIsNewest, JoinsOnce, OthersAtMostOnce,
     InOrder, InSendingOrder, Passed, Places, At
<1>2. IInv /\ IInv' /\ OrderInv /\ [Next]_vars => OrderInv'
  BY NumberedStep, JoinsOnceStep, OnceStep, InOrderStep DEF OrderInv
<1>. QED
  BY <1>1, <1>2, Inductive, PTL DEF Spec

-----------------------------------------------------------------------------
(* The properties of the order. *)

\* Whatever reconnects, an answer or a candidate is in one buffer or with one
\* client, and there once: only offers are sent again.
THEOREM OthersPassedOnce == Spec => []OthersAtMostOnce
BY OrderInductive, PTL DEF OrderInv

\* No reconnect and no replaced handler puts the messages of a connection out
\* of the order they were sent in.
THEOREM MessagesKeepTheirOrder == Spec => []InOrder
BY OrderInductive, PTL DEF OrderInv

-----------------------------------------------------------------------------
(* Rooms: the invariant. *)

\* What LeaveRoom saw of a presenter still holds when it acts on it, unless
\* the code was drawn again: until then a room keeps its presenter.
RoleHolds ==
  \A t \in Tabs : at[t] = "leave as presenter" =>
    /\ code[t] \in used
    /\ code[t] \in Existing \ reused => IsPresenter(UserOf[t], code[t])

RoomsIInv == RoomsTypeOK /\ RoleHolds

-----------------------------------------------------------------------------
(* The registry. *)

\* The steps that leave the registry as it is.
RequestOnly(t) ==
  \/ CreateRoom(t) \/ LookUp(t)
  \/ \E c \in Codes : JoinRoom(t, c) \/ OpenPage(t, c)
  \/ RoomExists(t) \/ JoinRoomFails(t)
  \/ LeaveRoom(t) \/ LeaveNothing(t) \/ LeaveFound(t)
  \/ ClosePage(t)

LEMMA RequestOnlyStep ==
  ASSUME RoomsTypeOK, NEW t \in Tabs, RequestOnly(t)
  PROVE  /\ UNCHANGED <<activeRooms, codes>>
         /\ at' \in [Tabs -> RequestStates]
         /\ code' \in [Tabs -> Codes \cup {NoRoom}]
         /\ \A s \in Tabs \ {t} : at'[s] = at[s] /\ code'[s] = code[s]
<1>1. CASE CreateRoom(t) \/ LookUp(t) \/ RoomExists(t) \/ LeaveRoom(t) \/ ClosePage(t)
  BY <1>1 DEF CreateRoom, LookUp, RoomExists, LeaveRoom, ClosePage, Goes, RoomsTypeOK, RequestStates
<1>2. CASE \E c \in Codes : JoinRoom(t, c) \/ OpenPage(t, c)
  BY <1>2 DEF JoinRoom, OpenPage, Goes, Holds, RoomsTypeOK, RequestStates
<1>3. CASE JoinRoomFails(t) \/ LeaveNothing(t)
  BY <1>3 DEF JoinRoomFails, LeaveNothing, Ends, Goes, Holds, RoomsTypeOK, RequestStates
<1>4. CASE LeaveFound(t)
  BY <1>4 DEF LeaveFound, RoomsOf, Existing, Goes, Holds, RoomsTypeOK, RequestStates
<1>. QED
  BY <1>1, <1>2, <1>3, <1>4 DEF RequestOnly

\* What every step does to the registry: it may add one room under some
\* code, remove one, or change viewers.
RoomAdded ==
  \E c \in Codes :
    /\ Existing' = Existing \cup {c}
    /\ used' = used \cup {c}
    /\ reused' = reused \cup ({c} \cap used)
    /\ activeRooms' \in [Existing' -> Room]
    /\ \A d \in Existing \ {c} : activeRooms'[d] = activeRooms[d]

RoomRemoved ==
  /\ Existing' \subseteq Existing
  /\ UNCHANGED codes
  /\ activeRooms' \in [Existing' -> Room]
  /\ \A d \in Existing' : activeRooms'[d] = activeRooms[d]

ViewerChanged ==
  /\ Existing' = Existing
  /\ UNCHANGED codes
  /\ activeRooms' \in [Existing -> Room]
  /\ \A d \in Existing : activeRooms'[d].presenter = activeRooms[d].presenter

LEMMA RoomIsAdded ==
  ASSUME RoomsTypeOK, NEW t \in Tabs, Create(t)
  PROVE  RoomAdded
<1>1. PICK c \in Codes :
        /\ activeRooms' = [d \in Existing \cup {c} |->
             IF d = c THEN [presenter |-> UserOf[t], viewer |-> NoUser]
             ELSE activeRooms[d]]
        /\ used' = used \cup {c}
        /\ reused' = reused \cup ({c} \cap used)
  BY DEF Create
<1>2. [presenter |-> UserOf[t], viewer |-> NoUser] \in Room
  BY TabsAssumption DEF Room
<1>3. Existing' = Existing \cup {c}
  BY <1>1 DEF Existing
<1>4. activeRooms' \in [Existing' -> Room]
  BY <1>1, <1>2, <1>3 DEF RoomsTypeOK
<1>5. \A d \in Existing \ {c} : activeRooms'[d] = activeRooms[d]
  BY <1>1 DEF RoomsTypeOK
<1>. QED
  BY <1>1, <1>3, <1>4, <1>5 DEF RoomAdded

LEMMA RoomIsRemoved ==
  ASSUME RoomsTypeOK, NEW c, activeRooms' = Without(c), UNCHANGED codes
  PROVE  RoomRemoved /\ Existing' = Existing \ {c}
<1>1. Existing' = Existing \ {c}
  BY DEF Existing, Without
<1>. QED
  BY <1>1 DEF RoomRemoved, Without, RoomsTypeOK

LEMMA ViewerIsChanged ==
  ASSUME RoomsTypeOK, NEW c \in Existing, NEW u \in Users \cup {NoUser},
         activeRooms' = WithViewer(c, u), UNCHANGED codes
  PROVE  ViewerChanged
<1>1. activeRooms[c] \in Room
  BY DEF RoomsTypeOK
<1>2. [activeRooms[c] EXCEPT !.viewer = u] \in Room
  BY <1>1 DEF Room
<1>3. [activeRooms[c] EXCEPT !.viewer = u].presenter = activeRooms[c].presenter
  BY <1>1 DEF Room
<1>4. activeRooms' = [activeRooms EXCEPT ![c] = [activeRooms[c] EXCEPT !.viewer = u]]
  BY DEF WithViewer
<1>5. Existing' = Existing
  BY <1>4 DEF Existing, RoomsTypeOK
<1>. QED
  BY <1>2, <1>3, <1>4, <1>5 DEF ViewerChanged, RoomsTypeOK

LEMMA ViewerIsRemoved ==
  ASSUME RoomsTypeOK, NEW t \in Tabs, RemovesViewer(t), UNCHANGED codes
  PROVE  ViewerChanged
<1>1. CASE code[t] \in Existing
  BY <1>1, ViewerIsChanged DEF RemovesViewer
<1>2. CASE code[t] \notin Existing
  BY <1>2 DEF RemovesViewer, ViewerChanged, Existing, RoomsTypeOK
<1>. QED
  BY <1>1, <1>2

\* A step of one tab, and one of the cleanup.
LEMMA TabSteps ==
  ASSUME RoomsTypeOK, NEW t \in Tabs, TabStep(t)
  PROVE  /\ at' \in [Tabs -> RequestStates]
         /\ code' \in [Tabs -> Codes \cup {NoRoom}]
         /\ \A s \in Tabs \ {t} : at'[s] = at[s] /\ code'[s] = code[s]
         /\ \/ RequestOnly(t)
            \/ RoomAdded /\ at'[t] = "idle"
            \/ ViewerChanged /\ at'[t] = "idle"
            \/ RoomRemoved /\ RemoveRoom(t) /\ at'[t] = "idle"
<1>1. CASE RequestOnly(t)
  BY <1>1, RequestOnlyStep
<1>2. CASE Create(t)
  <2>1. at' = [at EXCEPT ![t] = "idle"] /\ code' = code
    BY <1>2 DEF Create, Goes
  <2>. QED
    BY <1>2, <2>1, RoomIsAdded DEF RoomsTypeOK, RequestStates
<1>3. CASE JoinViewer(t)
  <2>1. ViewerChanged
    BY <1>3, ViewerIsChanged, TabsAssumption DEF JoinViewer
  <2>. QED
    BY <1>3, <2>1 DEF JoinViewer, Ends, Goes, Holds, RoomsTypeOK, RequestStates
<1>4. CASE LeaveViewer(t) \/ SocketLeaves(t)
  <2>1. ViewerChanged
    BY <1>4, ViewerIsRemoved DEF LeaveViewer, SocketLeaves
  <2>. QED
    BY <1>4, <2>1 DEF LeaveViewer, SocketLeaves, Ends, Goes, Holds, RoomsTypeOK, RequestStates
<1>5. CASE RemoveRoom(t)
  <2>1. RoomRemoved
    BY <1>5, RoomIsRemoved DEF RemoveRoom
  <2>. QED
    BY <1>5, <2>1 DEF RemoveRoom, Ends, Goes, Holds, RoomsTypeOK, RequestStates
<1>. QED
  BY <1>1, <1>2, <1>3, <1>4, <1>5 DEF TabStep, RequestOnly

LEMMA CleanupStep ==
  ASSUME RoomsTypeOK, NEW c \in Codes, Cleanup(c)
  PROVE  RoomRemoved /\ UNCHANGED request
BY RoomIsRemoved DEF Cleanup

-----------------------------------------------------------------------------
(* The invariant. *)

LEMMA RegistryTyped ==
  ASSUME RoomsTypeOK, RoomAdded \/ RoomRemoved \/ ViewerChanged
  PROVE  /\ Existing' \subseteq used' /\ reused' \subseteq used' /\ used' \subseteq Codes
         /\ activeRooms' \in [Existing' -> Room]
BY DEF RoomsTypeOK, RoomAdded, RoomRemoved, ViewerChanged, codes

LEMMA RoomsTypeStep ==
  ASSUME RoomsTypeOK, [RoomsNext]_roomsVars
  PROVE  RoomsTypeOK'
<1>1. ASSUME NEW t \in Tabs, TabStep(t)
      PROVE  RoomsTypeOK'
  <2>1. CASE RequestOnly(t)
    BY <1>1, <2>1, TabSteps, RequestOnlyStep DEF RoomsTypeOK, Existing, codes
  <2>2. CASE RoomAdded \/ RoomRemoved \/ ViewerChanged
    BY <1>1, <2>2, TabSteps, RegistryTyped DEF RoomsTypeOK
  <2>. QED
    BY <1>1, <2>1, <2>2, TabSteps
<1>2. ASSUME NEW c \in Codes, Cleanup(c)
      PROVE  RoomsTypeOK'
  BY <1>2, CleanupStep, RegistryTyped DEF RoomsTypeOK, request
<1>3. CASE UNCHANGED roomsVars
  BY <1>3 DEF RoomsTypeOK, roomsVars, codes, request, Existing
<1>. QED
  BY <1>1, <1>2, <1>3 DEF RoomsNext

\* A room under a code that was drawn and is not drawn again was there before
\* the step, with the presenter it has.
LEMMA PresentersStay ==
  ASSUME RoomsTypeOK, RoomAdded \/ RoomRemoved \/ ViewerChanged
  PROVE  /\ used \subseteq used' /\ reused \subseteq reused'
         /\ \A c \in used : c \in Existing' \ reused' =>
              /\ c \in Existing
              /\ activeRooms'[c].presenter = activeRooms[c].presenter
BY DEF RoomsTypeOK, RoomAdded, RoomRemoved, ViewerChanged, codes

LEMMA RoleStep ==
  ASSUME RoomsIInv, [RoomsNext]_roomsVars
  PROVE  RoleHolds'
<1>. USE DEF RoomsIInv
<1>. SUFFICES ASSUME NEW s \in Tabs, at'[s] = "leave as presenter"
              PROVE  /\ code'[s] \in used'
                     /\ code'[s] \in Existing' \ reused' =>
                          activeRooms'[code'[s]].presenter = UserOf[s]
  BY DEF RoleHolds, IsPresenter, Existing
<1>0. \/ RoomAdded \/ RoomRemoved \/ ViewerChanged
      \/ UNCHANGED <<activeRooms, codes>>
  BY TabSteps, RequestOnlyStep, CleanupStep DEF RoomsNext, roomsVars
<1>1. CASE at[s] = "leave as presenter" /\ code'[s] = code[s]
  BY <1>0, <1>1, PresentersStay DEF RoleHolds, IsPresenter, Existing, codes
<1>2. CASE LeaveFound(s)
  <2>1. PICK c \in RoomsOf(UserOf[s]) :
          /\ Holds(s, c)
          /\ Goes(s, "leave", IF IsPresenter(UserOf[s], c) THEN "leave as presenter"
                              ELSE "leave as viewer")
    BY <1>2 DEF LeaveFound
  <2>2. code'[s] = c /\ c \in Existing /\ IsPresenter(UserOf[s], c)
    BY <2>1 DEF Holds, Goes, RoomsOf, RoomsTypeOK
  <2>. QED
    BY <1>2, <2>2 DEF LeaveFound, IsPresenter, Existing, RoomsTypeOK, codes
<1>3. (at[s] = "leave as presenter" /\ code'[s] = code[s]) \/ LeaveFound(s)
  <2>1. ASSUME NEW t \in Tabs, TabStep(t)
        PROVE  (at[s] = "leave as presenter" /\ code'[s] = code[s]) \/ LeaveFound(s)
    <3>1. CASE s # t
      BY <2>1, <3>1, TabSteps
    <3>2. CASE s = t /\ RequestOnly(t)
      BY <2>1, <3>2 DEF RequestOnly, CreateRoom, LookUp, JoinRoom, OpenPage, RoomExists,
         JoinRoomFails, LeaveRoom, LeaveNothing, ClosePage, Ends, Goes, RoomsTypeOK, RequestStates
    <3>. QED
      BY <2>1, <3>1, <3>2, TabSteps
  <2>2. ASSUME NEW c \in Codes, Cleanup(c)
        PROVE  at[s] = "leave as presenter" /\ code'[s] = code[s]
    BY <2>2 DEF Cleanup, request
  <2>. QED
    BY <2>1, <2>2 DEF RoomsNext, roomsVars, request
<1>. QED
  BY <1>1, <1>2, <1>3

LEMMA RoomsInductive == RoomsSpec => []RoomsIInv
<1>1. RoomsInit => RoomsIInv
  BY TabsAssumption DEF RoomsInit, RoomsIInv, RoomsTypeOK, RoleHolds, Existing, RequestStates, Room
<1>2. RoomsIInv /\ [RoomsNext]_roomsVars => RoomsIInv'
  BY RoomsTypeStep, RoleStep DEF RoomsIInv
<1>. QED
  BY <1>1, <1>2, PTL DEF RoomsSpec

-----------------------------------------------------------------------------
\* The registry and the requests stay well formed: every room has a presenter,
\* and every code a room has was given out by CreateRoom.
THEOREM RoomsTypeCorrect == RoomsSpec => []RoomsTypeOK
BY RoomsInductive, PTL DEF RoomsIInv

\* RemoveRoom and the cleanup are all that removes rooms, and a LeaveRoom that
\* decided on an earlier look at the room still only removes its own: unless
\* CreateRoom drew the code of the room more than once.
THEOREM OnlyPresentersRemove == RoomsSpec => RemovedByItsPresenter
<1>1. ASSUME RoomsIInv, [RoomsNext]_roomsVars
      PROVE  [\A c \in Existing : Gone(c) =>
                \/ Cleanup(c)
                \/ \E t \in Tabs : RemoveRoom(t) /\ IsPresenter(UserOf[t], c)
                \/ c \in reused']_roomsVars
  <2>. USE <1>1 DEF RoomsIInv
  <2>. SUFFICES ASSUME NEW c \in Existing, Gone(c)
                PROVE  \/ Cleanup(c)
                       \/ \E t \in Tabs : RemoveRoom(t) /\ IsPresenter(UserOf[t], c)
                       \/ c \in reused'
    OBVIOUS
  <2>1. ASSUME NEW t \in Tabs, TabStep(t), c \notin reused'
        PROVE  RemoveRoom(t) /\ IsPresenter(UserOf[t], c)
    <3>1. c \in used
      BY DEF RoomsTypeOK
    <3>2. RemoveRoom(t)
      <4>1. CASE RequestOnly(t)
        BY <2>1, <4>1, RequestOnlyStep DEF Gone, Existing
      <4>2. CASE RoomAdded
        BY <2>1, <3>1, <4>2 DEF Gone, RoomAdded
      <4>3. CASE ViewerChanged
        BY <4>3 DEF Gone, ViewerChanged
      <4>. QED
        BY <2>1, <4>1, <4>2, <4>3, TabSteps
    <3>3. RoomRemoved /\ Existing' = Existing \ {code[t]}
      BY <3>2, RoomIsRemoved DEF RemoveRoom
    <3>4. c = code[t] /\ c \notin reused
      BY <2>1, <3>3 DEF Gone, RoomRemoved, codes
    <3>. QED
      BY <3>2, <3>4 DEF RemoveRoom, Ends, Goes, RoleHolds
  <2>2. ASSUME NEW d \in Codes, Cleanup(d)
        PROVE  Cleanup(c)
    <3>1. RoomRemoved /\ Existing' = Existing \ {d}
      BY <2>2, RoomIsRemoved DEF Cleanup
    <3>2. c = d
      BY <3>1 DEF Gone, RoomRemoved
    <3>. QED
      BY <2>2, <3>2
  <2>3. CASE UNCHANGED roomsVars
    BY <2>3 DEF roomsVars, Gone, Existing
  <2>. QED
    BY <2>1, <2>2, <2>3 DEF RoomsNext
<1>. QED
  BY <1>1, RoomsInductive, PTL DEF RoomsSpec, RemovedByItsPresenter
=============================================================================
