--------------------------- MODULE KoboSyncProofs ---------------------------
(***************************************************************************)
(* Proofs about KoboSync, for any requests, devices and books: a copy on a *)
(* device is never lost track of by handlers that work on a book one after *)
(* the other and end, whatever the devices do meanwhile.                   *)
(***************************************************************************)
EXTENDS KoboSync, TLAPS

-----------------------------------------------------------------------------
(* Types. *)

\* A request has a book while it is at work, an operation that fits the
\* statement it runs next; a device without a request has listed nothing.
TypeInv ==
  /\ TypeOK
  /\ \A r \in Requests :
       /\ at[r] = "idle" <=> book[r] = NoBook
       /\ at[r] = "write" => op[r] \in {"kobo tag", "other tag", "status", "enable"}
       /\ at[r] = "tombstone" => op[r] \in {"kobo tag", "enable"}
       /\ at[r] = "mark" => op[r] = "remove"
  /\ \A d \in Devices :
       /\ sync[d] = "idle" => got[d] = {}
       /\ sync[d] \in {"idle", "listed"} => gone[d] = {}

LEMMA TypeInitially ==
  ASSUME Init
  PROVE  TypeInv
BY NoBookAssumption DEF Init, TypeInv, TypeOK, Ops


\* Whether a book is synced is a truth value, and so is what a request saw.
LEMMA SeenUpdate ==
  ASSUME NEW s \in [Requests -> BOOLEAN], NEW r \in Requests, NEW b, NEW S
  PROVE  [s EXCEPT ![r] = b \in S] \in [Requests -> BOOLEAN]
<1>1. CASE b \in S
  BY <1>1
<1>2. CASE b \notin S
  BY <1>2
<1>. QED
  BY <1>1, <1>2

LEMMA TypeStep ==
  ASSUME TypeInv, [Next]_vars
  PROVE  TypeInv'
<1>. USE NoBookAssumption DEF server, request, devices, history, retagged, TypeInv, TypeOK, Ops
<1>0. CASE UNCHANGED vars
  BY <1>0 DEF vars
<1>1. ASSUME NEW r \in Requests, ReadTags(r) PROVE TypeInv'
  <2>1. PICK b \in Books, o \in Ops \ {"none", "remove"} :
          /\ at[r] = "idle"
          /\ op' = [op EXCEPT ![r] = o] /\ book' = [book EXCEPT ![r] = b]
          /\ raced' = raced \cup Busy({b})
          /\ at' = [at EXCEPT ![r] = IF o = "enable" /\ b \in synced THEN "tombstone" ELSE "write"]
          /\ seen' = [seen EXCEPT ![r] = b \in synced]
    BY <1>1 DEF ReadTags, Takes
  <2>2. seen' \in [Requests -> BOOLEAN]
    <3>1. seen \in [Requests -> BOOLEAN]
      OBVIOUS
    <3>. QED
      BY <2>1, <3>1, SeenUpdate
  <2>3. raced' \subseteq Books
    BY <2>1 DEF Busy
  <2>4. UNCHANGED <<server, devices, halfway, retagged>>
    BY <1>1 DEF ReadTags
  <2>. QED
    BY <2>1, <2>2, <2>3, <2>4
<1>2. ASSUME NEW r \in Requests, TombstoneIfKoboSynced(r) PROVE TypeInv'
  <2>1. PICK b \in Books :
          /\ at[r] = "idle"
          /\ op' = [op EXCEPT ![r] = "remove"] /\ book' = [book EXCEPT ![r] = b]
          /\ raced' = raced \cup Busy({b})
          /\ at' = [at EXCEPT ![r] = IF b \in synced THEN "mark" ELSE "delete"]
    BY <1>2 DEF TombstoneIfKoboSynced, Takes
  <2>2. raced' \subseteq Books
    BY <2>1 DEF Busy
  <2>3. UNCHANGED <<server, seen, devices, halfway, retagged>>
    BY <1>2 DEF TombstoneIfKoboSynced
  <2>. QED
    BY <2>1, <2>2, <2>3
<1>upsert. ASSUME NEW r \in Requests, UpsertKoboRemoval(r) PROVE TypeInv'
  BY <1>upsert, ZenonT(30) DEF UpsertKoboRemoval, Goes
<1>3. ASSUME NEW r \in Requests, WriteTags(r) PROVE TypeInv'
  <2>1. /\ at[r] = "write" /\ op[r] \in Ops /\ book[r] \in Books /\ seen[r] \in BOOLEAN
        /\ at' \in [Requests -> {"idle", "write", "tombstone", "mark", "delete"}]
        /\ op' \in [Requests -> Ops] /\ seen' \in [Requests -> BOOLEAN]
        /\ book' \in [Requests -> Books \cup {NoBook}]
        /\ UNCHANGED <<removals, ready, device, sync, got, gone, history>>
    BY <1>3 DEF WriteTags, Goes
  <2>2. /\ at'[r] \in {"idle", "tombstone"}
        /\ at'[r] = "tombstone" => op'[r] \in {"kobo tag", "enable"} /\ book'[r] = book[r]
        /\ at'[r] = "idle" => book'[r] = NoBook
        /\ \A q \in Requests \ {r} : at'[q] = at[q] /\ op'[q] = op[q] /\ book'[q] = book[q]
    BY <1>3 DEF WriteTags, Goes
  <2>3. library' \subseteq Books /\ synced' \subseteq library'
    BY <1>3, <2>1 DEF WriteTags
  <2>4. TypeOK'
    BY <2>1, <2>3
  <2>5. ASSUME NEW q \in Requests
        PROVE  /\ at'[q] = "idle" <=> book'[q] = NoBook
               /\ at'[q] = "write" => op'[q] \in {"kobo tag", "other tag", "status", "enable"}
               /\ at'[q] = "tombstone" => op'[q] \in {"kobo tag", "enable"}
               /\ at'[q] = "mark" => op'[q] = "remove"
    <3>1. CASE q = r
      BY <2>1, <2>2, <3>1
    <3>2. CASE q # r
      BY <2>2, <3>2
    <3>. QED
      BY <3>1, <3>2
  <2>. QED
    BY <2>1, <2>4, <2>5
<1>4. ASSUME NEW r \in Requests, Tombstone(r) PROVE TypeInv'
  BY <1>4, ZenonT(30) DEF Tombstone, Goes, Wants
<1>5. ASSUME NEW r \in Requests, DeleteUserBook(r) PROVE TypeInv'
  BY <1>5, ZenonT(30) DEF DeleteUserBook, Goes
<1>6. ASSUME NEW r \in Requests, Fails(r) PROVE TypeInv'
  BY <1>6, ZenonT(30) DEF Fails, Goes
<1>taken. CASE CreateBook
  BY <1>taken DEF CreateBook, Drops, Busy
<1>8. CASE DeleteTag
  BY <1>8 DEF DeleteTag, Drops, Busy
<1>9. CASE MergeBooks
  BY <1>9 DEF MergeBooks, Drops, Adds, Busy
<1>rename. CASE RenameTag
  BY <1>rename DEF RenameTag, Drops, Adds, Busy
<1>10. CASE FileReady
  BY <1>10 DEF FileReady
<1>11. ASSUME NEW d \in Devices, ListKoboSyncBooks(d) PROVE TypeInv'
  BY <1>11 DEF ListKoboSyncBooks
<1>12. ASSUME NEW d \in Devices, ListKoboRemovals(d) PROVE TypeInv'
  BY <1>12 DEF ListKoboRemovals
<1>13. ASSUME NEW d \in Devices, Apply(d) PROVE TypeInv'
  BY <1>13 DEF Apply, SyncEnds
<1>14. ASSUME NEW d \in Devices, Lost(d) PROVE TypeInv'
  BY <1>14 DEF Lost, SyncEnds
<1>. QED BY <1>0, <1>1, <1>2, <1>3, <1>4, <1>5, <1>6, <1>taken, <1>8, <1>9, <1>10,
     <1>upsert, <1>rename, <1>11, <1>12, <1>13, <1>14 DEF Next, Proceeds

-----------------------------------------------------------------------------
(* One book. *)

\* The devices that have b, or will when the answer on its way arrives.
Copied(b) == \E d \in Devices : b \in device[d] \cup (got[d] \ gone[d])

Settled(b) ==
  /\ Copied(b) => b \in synced \cup removals \cup dropped
  /\ ~(b \in synced /\ b \in removals) \/ b \in added

\* The request at work on b: what it read still holds before it writes the
\* tags, the tombstone is yet to follow the tag, or the tombstone is there
\* before the row goes.
WorkInv(r, b) ==
  /\ at[r] = "write" =>
       Settled(b) /\ (b \in synced <=> seen[r]) /\ (b \in library \/ op[r] = "status")
  /\ at[r] = "tombstone" => (Wants(r) <=> b \in synced)
  /\ at[r] = "mark" => Settled(b)
  /\ at[r] = "delete" =>
       (Copied(b) => b \in removals \cup dropped) /\ (b \in synced => b \in removals)

BookInv(b) ==
  b \in raced \cup halfway \/
    /\ \A r, q \in Requests : book[r] = b /\ book[q] = b => r = q
    /\ ~InFlight(b) => Settled(b)
    /\ \A r \in Requests : book[r] = b => WorkInv(r, b)

\* Devices change nothing on the server, and get what is synced only.
LEMMA DeviceStep ==
  ASSUME NEW b \in Books, BookInv(b),
         UNCHANGED <<server, request, history>>,
         Copied(b)' => Copied(b) \/ b \in synced
  PROVE  BookInv(b)'
<1>1. Settled(b) => Settled(b)'
  BY DEF Settled, server, history, retagged
<1>2. ASSUME NEW r \in Requests, WorkInv(r, b) PROVE WorkInv(r, b)'
  BY <1>1, <1>2 DEF WorkInv, Wants, server, request, history, retagged
<1>3. InFlight(b)' <=> InFlight(b)
  BY DEF InFlight, request
<1>. QED
  BY <1>1, <1>2, <1>3 DEF BookInv, request, history, retagged

\* A request that works on another book, or a statement that leaves b alone.
LEMMA ElsewhereStep ==
  ASSUME NEW b \in Books, BookInv(b),
         UNCHANGED devices,
         b \in synced' <=> b \in synced, b \in removals' <=> b \in removals,
         raced \subseteq raced', halfway \subseteq halfway',
         dropped \subseteq dropped', added \subseteq added',
         \A q \in Requests : book'[q] = b <=> book[q] = b,
         \A q \in Requests : book[q] = b =>
            at'[q] = at[q] /\ op'[q] = op[q] /\ seen'[q] = seen[q] /\ (b \in library => b \in library')
  PROVE  BookInv(b)'
<1>1. (Copied(b)' <=> Copied(b)) /\ (Settled(b) => Settled(b)')
  BY DEF Settled, Copied, devices
<1>2. ASSUME NEW r \in Requests, book[r] = b, WorkInv(r, b) PROVE WorkInv(r, b)'
  <2>1. Wants(r)' <=> Wants(r)
    BY <1>2 DEF Wants
  <2>. QED
    BY <1>1, <1>2, <2>1 DEF WorkInv
<1>3. InFlight(b)' <=> InFlight(b)
  BY DEF InFlight
<1>. QED
  BY <1>1, <1>2, <1>3 DEF BookInv

\* A request takes up b: it is the only one, and b was settled.
LEMMA TakesStep ==
  ASSUME TypeInv, NEW b \in Books, BookInv(b), NEW r \in Requests, NEW o \in Ops, Takes(r, b, o),
         UNCHANGED halfway, b \notin raced' \cup halfway'
  PROVE  /\ Settled(b)
         /\ \A q \in Requests : book'[q] = b <=> q = r
         /\ op'[r] = o
<1>1. ~InFlight(b) /\ b \notin raced \cup halfway
  BY DEF Takes, Busy
<1>2. book \in [Requests -> Books \cup {NoBook}] /\ op \in [Requests -> Ops]
  BY DEF TypeInv, TypeOK
<1>. QED
  BY <1>1, <1>2 DEF Takes, BookInv, InFlight

\* A request moves on.
LEMMA GoesStep ==
  ASSUME TypeInv, NEW r \in Requests, NEW from, NEW to, Goes(r, from, to), from # "idle"
  PROVE  /\ at[r] = from /\ at'[r] = to /\ book[r] \in Books
         /\ to = "idle" => book'[r] = NoBook
         /\ to # "idle" => book'[r] = book[r] /\ op'[r] = op[r] /\ seen'[r] = seen[r]
         /\ \A q \in Requests \ {r} :
              at'[q] = at[q] /\ book'[q] = book[q] /\ op'[q] = op[q] /\ seen'[q] = seen[q]
BY DEF Goes, TypeInv, TypeOK

LEMMA RequestStep ==
  ASSUME TypeInv, NEW b \in Books, BookInv(b), NEW r \in Requests,
         ReadTags(r) \/ TombstoneIfKoboSynced(r)
  PROVE  BookInv(b)'
<1>1. PICK c \in Books, o \in Ops \ {"none"} : Takes(r, c, o)
  BY DEF ReadTags, TombstoneIfKoboSynced, Ops
<1>2. UNCHANGED <<server, devices, halfway, retagged>>
  BY DEF ReadTags, TombstoneIfKoboSynced, server
<1>taken. c = b /\ b \notin raced' \cup halfway' =>
        /\ Settled(b) /\ op'[r] = o
        /\ \A q \in Requests : book'[q] = b <=> q = r
  BY <1>1, <1>2, TakesStep
<1>. USE DEF TypeInv, TypeOK
<1>3. /\ at[r] = "idle" /\ book[r] = NoBook /\ book'[r] = c
      /\ \A q \in Requests \ {r} : at'[q] = at[q] /\ book'[q] = book[q] /\ op'[q] = op[q] /\ seen'[q] = seen[q]
      /\ raced \subseteq raced'
  BY <1>1, NoBookAssumption, ZenonT(30) DEF Takes, ReadTags, TombstoneIfKoboSynced
<1>4. CASE c # b
  BY <1>2, <1>3, <1>4, NoBookAssumption, ElsewhereStep DEF server, retagged
<1>5. CASE b \in raced' \cup halfway'
  BY <1>5 DEF BookInv
<1>6. CASE c = b /\ b \notin raced' \cup halfway'
  <2>1. /\ Settled(b) /\ op'[r] = o
        /\ \A q \in Requests : book'[q] = b <=> q = r
    BY <1>6, <1>taken
  <2>2. InFlight(b)'
    BY <2>1 DEF InFlight
  <2>3. WorkInv(r, b)'
    <3>1. CASE ReadTags(r)
      <4>1. PICK e \in Books, p \in Ops \ {"none", "remove"} :
              /\ e \in library \/ p = "status"
              /\ book'[r] = e /\ op'[r] = p /\ (seen'[r] <=> e \in synced)
              /\ at'[r] = IF p = "enable" /\ e \in synced THEN "tombstone" ELSE "write"
        BY <3>1, ZenonT(30) DEF ReadTags, Takes
      <4>2. e = b /\ UNCHANGED <<server, devices>>
        BY <1>3, <1>6, <3>1, <4>1 DEF ReadTags
      <4>3. Settled(b)' /\ (b \in synced)' = (b \in synced)
        BY <1>2, <2>1, <4>1, <4>2 DEF Settled, Copied, server, devices, retagged
      <4>4. b \in library' \/ op'[r] = "status"
        BY <4>1, <4>2 DEF server
      <4>. QED
        BY <4>1, <4>2, <4>3, <4>4 DEF WorkInv, Wants
    <3>2. CASE TombstoneIfKoboSynced(r)
      <4>1. at'[r] \in {"mark", "delete"} /\ (at'[r] = "delete" => b \notin synced)
        <5>1. PICK e \in Books :
                /\ book'[r] = e
                /\ at'[r] = IF e \in synced THEN "mark" ELSE "delete"
          BY <3>2, ZenonT(30) DEF TombstoneIfKoboSynced, Takes
        <5>2. e = b
          BY <1>3, <1>6, <5>1
        <5>3. CASE b \in synced
          BY <5>1, <5>2, <5>3
        <5>4. CASE b \notin synced
          BY <5>1, <5>2, <5>4
        <5>. QED
          BY <5>3, <5>4
      <4>2. Copied(b)' => Copied(b)
        BY <1>2 DEF Copied, devices
      <4>. QED
        BY <1>2, <2>1, <4>1, <4>2 DEF WorkInv, Settled, server, retagged
    <3>. QED
      BY <3>1, <3>2
  <2>. QED
    BY <2>1, <2>2, <2>3 DEF BookInv
<1>. QED
  BY <1>4, <1>5, <1>6

LEMMA ProceedsStep ==
  ASSUME TypeInv, NEW b \in Books, BookInv(b), NEW r \in Requests, Proceeds(r) \/ Fails(r)
  PROVE  BookInv(b)'
<1>1. PICK to : Goes(r, at[r], to) /\ at[r] # "idle"
  BY DEF Proceeds, WriteTags, Tombstone, UpsertKoboRemoval, DeleteUserBook, Fails, Goes
<1>2. /\ at'[r] = to /\ book[r] \in Books
      /\ to = "idle" => book'[r] = NoBook
      /\ to # "idle" => book'[r] = book[r] /\ op'[r] = op[r] /\ seen'[r] = seen[r]
      /\ \A q \in Requests \ {r} :
           at'[q] = at[q] /\ book'[q] = book[q] /\ op'[q] = op[q] /\ seen'[q] = seen[q]
  BY <1>1, GoesStep
<1>. USE DEF TypeInv, TypeOK
<1>3. /\ UNCHANGED <<devices, retagged>> /\ raced \subseteq raced' /\ halfway \subseteq halfway'
      /\ \A c \in Books \ {book[r]} :
           /\ c \in synced' <=> c \in synced
           /\ c \in removals' <=> c \in removals
           /\ c \in library' <=> c \in library
  BY DEF Proceeds, WriteTags, Tombstone, UpsertKoboRemoval, DeleteUserBook, Fails, server, history
<1>4. CASE book[r] # b
  BY <1>2, <1>3, <1>4, NoBookAssumption, ElsewhereStep DEF retagged
<1>5. CASE b \in raced' \cup halfway'
  BY <1>5 DEF BookInv
<1>6. CASE book[r] = b /\ b \notin raced' \cup halfway'
  <2>1. /\ \A q \in Requests : book[q] = b => q = r
        /\ \A q \in Requests : book'[q] = b => q = r
        /\ WorkInv(r, b) /\ b \notin raced \cup halfway
    BY <1>2, <1>3, <1>6 DEF BookInv
  <2>2. Copied(b)' <=> Copied(b)
    BY <1>3 DEF Copied, devices
  <2>3. to = "idle" => ~InFlight(b)'
    BY <1>2, <2>1, NoBookAssumption DEF InFlight
  <2>4. to # "idle" => InFlight(b)'
    BY <1>2, <1>6 DEF InFlight
  <2>5. ASSUME WriteTags(r)
        PROVE  /\ to # "idle" => to = "tombstone" /\ WorkInv(r, b)'
               /\ to = "idle" => Settled(b)'
    <3>1. /\ Settled(b) /\ (b \in synced <=> seen[r]) /\ at[r] = "write"
          /\ b \in library \/ op[r] = "status"
      BY <2>1, <2>5 DEF WriteTags, Goes, WorkInv
    <3>2. /\ b \in library' /\ (b \in synced' <=> Wants(r)) /\ removals' = removals
      BY <1>6, <2>5, <3>1 DEF WriteTags
    <3>3. op[r] \in {"kobo tag", "other tag", "status", "enable"}
      BY <3>1
    <3>4. CASE op[r] \in {"kobo tag", "enable"}
      <4>1. to = "tombstone" /\ to # "idle"
        BY <1>1, <1>2, <2>5, <3>4 DEF WriteTags, Goes
      <4>2. Wants(r)' <=> Wants(r)
        BY <1>2, <4>1 DEF Wants
      <4>. QED
        BY <1>2, <3>2, <4>1, <4>2 DEF WorkInv
    <3>5. CASE op[r] \in {"other tag", "status"}
      <4>1. to = "idle"
        BY <1>1, <1>2, <2>5, <3>5 DEF WriteTags, Goes
      <4>2. Wants(r) <=> seen[r]
        BY <3>5 DEF Wants
      <4>. QED
        BY <1>3, <2>2, <3>1, <3>2, <4>1, <4>2 DEF Settled, retagged
    <3>. QED
      BY <3>3, <3>4, <3>5
  <2>6. ASSUME Tombstone(r)
        PROVE  to = "idle" /\ Settled(b)'
    <3>1. at[r] = "tombstone" /\ to = "idle" /\ (Wants(r) <=> b \in synced) /\ synced' = synced
      BY <1>2, <2>1, <2>6 DEF Tombstone, Goes, WorkInv
    <3>2. removals' = IF Wants(r) THEN removals \ {b} ELSE removals \cup {b}
      BY <1>6, <2>6 DEF Tombstone
    <3>. QED
      BY <1>3, <3>1, <3>2 DEF Settled, retagged
  <2>7. ASSUME DeleteUserBook(r)
        PROVE  to = "idle" /\ Settled(b)'
    BY <1>2, <1>3, <1>6, <2>1, <2>2, <2>7, ZenonT(30) DEF DeleteUserBook, Goes, WorkInv, Settled, retagged
  <2>8. ASSUME UpsertKoboRemoval(r)
        PROVE  to # "idle" /\ WorkInv(r, b)'
    <3>1. to = "delete" /\ at'[r] = "delete"
      BY <1>1, <1>2, <2>8 DEF UpsertKoboRemoval, Goes
    <3>2. b \in removals'
      BY <1>6, <2>8 DEF UpsertKoboRemoval
    <3>. QED
      BY <3>1, <3>2 DEF WorkInv
  <2>9. ASSUME Fails(r)
        PROVE  to = "idle" /\ Settled(b)'
    <3>1. to = "idle" /\ at[r] \in {"write", "mark"} /\ UNCHANGED server
      BY <1>2, <1>6, <2>9 DEF Fails, Goes
    <3>2. Settled(b)
      BY <2>1, <3>1 DEF WorkInv
    <3>. QED
      BY <1>3, <2>2, <3>1, <3>2 DEF Settled, server, retagged
  <2>10. (to = "idle" /\ Settled(b)') \/ (to # "idle" /\ WorkInv(r, b)')
    BY <2>5, <2>6, <2>7, <2>8, <2>9 DEF Proceeds
  <2>. QED
    BY <1>2, <2>1, <2>3, <2>4, <2>10, NoBookAssumption, ZenonT(30) DEF BookInv
<1>. QED
  BY <1>4, <1>5, <1>6

\* A statement takes the tag off a book or puts it on one: if a request is at
\* work on it, two are at once, and if none is, the history says what it did.
LEMMA CatalogStep ==
  ASSUME TypeInv, NEW b \in Books, BookInv(b),
         CreateBook \/ DeleteTag \/ RenameTag \/ MergeBooks
  PROVE  BookInv(b)'
<1>. USE DEF CreateBook, DeleteTag, RenameTag, MergeBooks, Drops, Adds
<1>1. /\ UNCHANGED <<removals, request, devices, halfway>>
      /\ raced \subseteq raced' /\ dropped \subseteq dropped' /\ added \subseteq added'
  OBVIOUS
<1>2. CASE b \in raced' \cup halfway'
  BY <1>2 DEF BookInv
<1>3. CASE b \notin raced' \cup halfway' /\ (b \in synced' <=> b \in synced)
  <2>1. InFlight(b) /\ b \in library => b \in library'
    BY <1>3 DEF Busy, TypeInv, TypeOK
  <2>. QED
    BY <1>1, <1>3, <2>1, ElsewhereStep DEF request, InFlight
<1>4. CASE b \notin raced' \cup halfway' /\ ~(b \in synced' <=> b \in synced)
  <2>1. ~InFlight(b) /\ b \notin raced \cup halfway
    BY <1>1, <1>4 DEF Busy
  <2>2. \/ b \in synced /\ b \notin synced' /\ b \in dropped'
        \/ b \notin synced /\ b \in synced' /\ b \in added'
    BY <1>4
  <2>3. Settled(b)'
    BY <1>1, <2>1, <2>2 DEF BookInv, Settled, Copied, devices
  <2>4. ~InFlight(b)' /\ \A r \in Requests : book'[r] # b
    BY <1>1, <2>1 DEF InFlight, request
  <2>. QED
    BY <2>3, <2>4 DEF BookInv
<1>. QED
  BY <1>2, <1>3, <1>4

LEMMA BookStep ==
  ASSUME TypeInv, NEW b \in Books, BookInv(b), [Next]_vars
  PROVE  BookInv(b)'
<1>1. CASE UNCHANGED vars \/ FileReady
  BY <1>1, ElsewhereStep DEF vars, FileReady, server, request, history, retagged
<1>2. ASSUME NEW d \in Devices, ListKoboSyncBooks(d) \/ ListKoboRemovals(d) \/ Apply(d) \/ Lost(d)
      PROVE  BookInv(b)'
  <2>1. UNCHANGED <<server, request, history>>
    BY <1>2 DEF ListKoboSyncBooks, ListKoboRemovals, Apply, Lost, SyncEnds
  <2>2. Copied(b)' => Copied(b) \/ b \in synced
    <3>. USE DEF Copied, TypeInv, TypeOK
    <3>1. CASE ListKoboSyncBooks(d)
      BY <3>1 DEF ListKoboSyncBooks
    <3>2. CASE ListKoboRemovals(d)
      BY <3>2 DEF ListKoboRemovals
    <3>3. CASE Apply(d)
      BY <3>3 DEF Apply, SyncEnds
    <3>4. CASE Lost(d)
      BY <3>4 DEF Lost, SyncEnds
    <3>. QED
      BY <1>2, <3>1, <3>2, <3>3, <3>4
  <2>. QED
    BY <2>1, <2>2, DeviceStep
<1>. QED
  BY <1>1, <1>2, RequestStep, ProceedsStep, CatalogStep DEF Next

-----------------------------------------------------------------------------
(* In every behaviour. *)

Inv == TypeInv /\ \A b \in Books : BookInv(b)

LEMMA InvInitially ==
  ASSUME Init
  PROVE  Inv
<1>1. \A b \in Books : ~Copied(b) /\ ~InFlight(b)
  BY NoBookAssumption DEF Init, Copied, InFlight
<1>2. \A b \in Books, r \in Requests : book[r] # b
  BY NoBookAssumption DEF Init
<1>3. \A b \in Books : Settled(b)
  BY <1>1 DEF Init, Settled
<1>. QED
  BY <1>1, <1>2, <1>3, TypeInitially DEF Inv, BookInv

LEMMA InvStep == Inv /\ [Next]_vars => Inv'
BY TypeStep, BookStep DEF Inv

\* The types of the variables are as stated.
THEOREM TypeCorrect == Spec => []TypeOK
<1>1. Inv => TypeOK
  BY DEF Inv, TypeInv
<1>. QED
  BY <1>1, InvInitially, InvStep, PTL DEF Spec

\* A copy on a device or on its way to one is synced or marked for removal,
\* whatever the order of requests, syncs and lost answers, unless two requests
\* were at work on the book at once, one failed on it between tag and
\* tombstone, or a statement dropped its tag without a look at tombstones.
THEOREM CopiesCorrect == Spec => []CopiesAreTracked
<1>1. Inv => CopiesAreTracked
  BY DEF Inv, TypeInv, TypeOK, BookInv, Settled, Copied, CopiesAreTracked, Interrupted
<1>. QED
  BY <1>1, InvInitially, InvStep, PTL DEF Spec

\* No book is at once synced and marked for removal, unless two requests were
\* at work on it at once, one failed on it between tag and tombstone, or
\* RenameTag or MergeBooks gave it the tag without a look at tombstones.
THEOREM RemovalsCorrect == Spec => []SyncedOrRemoved
<1>1. Inv => SyncedOrRemoved
  BY DEF Inv, TypeInv, TypeOK, BookInv, Settled, SyncedOrRemoved, Interrupted
<1>. QED
  BY <1>1, InvInitially, InvStep, PTL DEF Spec
=============================================================================
