------------------------------ MODULE KoboSync ------------------------------
(***************************************************************************)
(* Which books a user's Kobo devices hold: the kobo-sync tag of            *)
(* books.user_books, the tombstones of books.kobo_removals, and devices    *)
(* that sync over a connection that can break.  The web handlers read the  *)
(* tags, write them back as a whole and then see to the tombstone, without *)
(* a transaction.  Of a book's tags only kobo-sync is kept apart.          *)
(***************************************************************************)
EXTENDS Naturals

CONSTANTS Requests, Devices, Books, NoBook

ASSUME NoBookAssumption == NoBook \notin Books

VARIABLES
  library,   \* books of the user
  synced,    \* those that have the tag kobo-sync
  removals,  \* tombstones
  ready,     \* books with a ready file in the format the device takes
  at,        \* what each request does next
  op,        \* its operation
  book,      \* its book
  seen,      \* whether the tags it read had kobo-sync
  device,    \* what each device holds
  sync,      \* where its sync request is
  got,       \* the entitlements that request has listed
  gone,      \* the removals it has listed
  raced,     \* history: books that two were at work on at once
  halfway,   \* history: books a request failed on between tag and tombstone
  dropped,   \* history: books whose tag went without a look at tombstones
  added      \* history: books that got the tag without a look at tombstones

server == <<library, synced, removals, ready>>
request == <<at, op, book, seen>>
devices == <<device, sync, got, gone>>
retagged == <<dropped, added>>
history == <<raced, halfway, retagged>>
vars == <<server, request, devices, history>>

Ops == {"none", "kobo tag", "other tag", "status", "enable", "remove"}

TypeOK ==
  /\ library \subseteq Books /\ synced \subseteq library
  /\ removals \subseteq Books /\ ready \subseteq Books
  /\ at \in [Requests -> {"idle", "write", "tombstone", "mark", "delete"}]
  /\ op \in [Requests -> Ops]
  /\ book \in [Requests -> Books \cup {NoBook}]
  /\ seen \in [Requests -> BOOLEAN]
  /\ device \in [Devices -> SUBSET Books]
  /\ sync \in [Devices -> {"idle", "listed", "answered"}]
  /\ got \in [Devices -> SUBSET Books] /\ gone \in [Devices -> SUBSET Books]
  /\ raced \subseteq Books /\ halfway \subseteq Books
  /\ dropped \subseteq Books /\ added \subseteq Books

Init ==
  /\ library = Books /\ synced = {} /\ removals = {}
  /\ ready \in SUBSET Books
  /\ at = [r \in Requests |-> "idle"] /\ op = [r \in Requests |-> "none"]
  /\ book = [r \in Requests |-> NoBook] /\ seen = [r \in Requests |-> FALSE]
  /\ device = [d \in Devices |-> {}] /\ sync = [d \in Devices |-> "idle"]
  /\ got = [d \in Devices |-> {}] /\ gone = [d \in Devices |-> {}]
  /\ raced = {} /\ halfway = {} /\ dropped = {} /\ added = {}

-----------------------------------------------------------------------------
InFlight(b) == \E r \in Requests : book[r] = b

Busy(books) == {b \in books : InFlight(b)}

\* A request that takes up a book another one is at work on.
Takes(r, b, operation) ==
  /\ at[r] = "idle"
  /\ op' = [op EXCEPT ![r] = operation]
  /\ book' = [book EXCEPT ![r] = b]
  /\ raced' = raced \cup Busy({b})

Goes(r, from, to) ==
  /\ at[r] = from
  /\ at' = [at EXCEPT ![r] = to]
  /\ IF to = "idle"
       THEN /\ op' = [op EXCEPT ![r] = "none"]
            /\ book' = [book EXCEPT ![r] = NoBook]
            /\ seen' = [seen EXCEPT ![r] = FALSE]
       ELSE UNCHANGED <<op, book, seen>>

\* Whether the tags a request writes have kobo-sync: ToggleTag flips it,
\* ensureTag adds it, everything else puts back what it read.
Wants(r) == CASE op[r] = "kobo tag" -> ~seen[r]
              [] op[r] = "enable" -> TRUE
              [] OTHER -> seen[r]

-----------------------------------------------------------------------------
(* Plausible bugs, used only to show that the properties can fail. *)

\* Disabling leaves no tombstone.
TombstoneOnlyCleared(r) ==
  /\ Goes(r, "tombstone", "idle")
  /\ removals' = removals \ {book[r]}
  /\ UNCHANGED <<library, synced, ready, devices, history>>

\* Enabling forgets the tombstone of an earlier disable.
EnableOnly(r) ==
  /\ Goes(r, "write", IF op[r] = "kobo tag" THEN "tombstone" ELSE "idle")
  /\ synced' = IF Wants(r) THEN synced \cup ({book[r]} \cap library)
               ELSE synced \ {book[r]}
  /\ UNCHANGED <<library, removals, ready, devices, history>>

\* The handler lists what it answers without the removals.
ListNoRemovals(d) ==
  /\ sync[d] = "listed"
  /\ sync' = [sync EXCEPT ![d] = "answered"]
  /\ gone' = [gone EXCEPT ![d] = {}]
  /\ UNCHANGED <<server, request, device, got, history>>

-----------------------------------------------------------------------------
(* The web handlers. *)

\* GetUserBook of ToggleTag, UpdateBookStatus, which goes on without a row,
\* and ensureTag, which has nothing to write when the tag is there.
ReadTags(r) ==
  /\ \E b \in Books, operation \in Ops \ {"none", "remove"} :
       /\ b \in library \/ operation = "status"
       /\ Takes(r, b, operation)
       /\ seen' = [seen EXCEPT ![r] = b \in synced]
       /\ at' = [at EXCEPT ![r] = IF operation = "enable" /\ b \in synced
                                  THEN "tombstone" ELSE "write"]
  /\ UNCHANGED <<server, devices, halfway, retagged>>

\* UpdateTags changes the row if it is there; UpsertUserBook of
\* UpdateBookStatus inserts it when it is gone.
WriteTags(r) ==
  /\ Goes(r, "write", IF op[r] \in {"kobo tag", "enable"} THEN "tombstone" ELSE "idle")
  /\ library' = IF op[r] = "status" THEN library \cup {book[r]} ELSE library
  /\ synced' = IF Wants(r) /\ book[r] \in library' THEN synced \cup {book[r]}
               ELSE synced \ {book[r]}
  /\ UNCHANGED <<removals, ready, devices, history>>

\* DeleteKoboRemoval or UpsertKoboRemoval.
Tombstone(r) ==
  /\ Goes(r, "tombstone", "idle")
  /\ removals' = IF Wants(r) THEN removals \ {book[r]} ELSE removals \cup {book[r]}
  /\ UNCHANGED <<library, synced, ready, devices, history>>

\* RemoveFromLibrary: tombstoneIfKoboSynced looks at the tags, marks the book
\* if it has to, and later DeleteUserBook takes the row away.
TombstoneIfKoboSynced(r) ==
  /\ \E b \in Books :
       /\ Takes(r, b, "remove")
       /\ at' = [at EXCEPT ![r] = IF b \in synced THEN "mark" ELSE "delete"]
  /\ UNCHANGED <<server, seen, devices, halfway, retagged>>

UpsertKoboRemoval(r) ==
  /\ Goes(r, "mark", "delete")
  /\ removals' = removals \cup {book[r]}
  /\ UNCHANGED <<library, synced, ready, devices, history>>

DeleteUserBook(r) ==
  /\ Goes(r, "delete", "idle")
  /\ library' = library \ {book[r]} /\ synced' = synced \ {book[r]}
  /\ UNCHANGED <<removals, ready, devices, history>>

\* The request's caller goes away, or a statement fails: what was written
\* before stays, and is half of the change if the tag or the tombstone was.
Fails(r) ==
  /\ at[r] # "idle"
  /\ Goes(r, at[r], "idle")
  /\ halfway' = IF at[r] \in {"tombstone", "delete"} THEN halfway \cup {book[r]}
                ELSE halfway
  /\ UNCHANGED <<server, devices, raced, retagged>>

\* One statement takes the tag off the books, or puts it on them: none of
\* these looks at tombstones.
Drops(books) ==
  /\ synced' = synced \ books
  /\ dropped' = dropped \cup (synced \cap books)
  /\ raced' = raced \cup Busy(books)
  /\ UNCHANGED <<removals, ready, request, devices, halfway, added>>

Adds(books) ==
  /\ synced' = synced \cup books
  /\ added' = added \cup books
  /\ raced' = raced \cup Busy(books)
  /\ UNCHANGED <<library, removals, ready, request, devices, halfway, dropped>>

\* A book the user has gets the tags of the form.
CreateBook == \E b \in Books : library' = library \cup {b} /\ Drops({b})

DeleteTag == UNCHANGED library /\ synced # {} /\ Drops(synced)

\* Another tag takes the place of kobo-sync, or kobo-sync that of another tag,
\* on every book that has it.
RenameTag ==
  \/ UNCHANGED library /\ synced # {} /\ Drops(synced)
  \/ \E books \in SUBSET library : Adds(books)

\* The row of a loser goes; a winner takes over the tag of a loser.
MergeBooks ==
  \E b \in library :
    \/ library' = library \ {b} /\ Drops({b})
    \/ Adds({b})

\* A conversion ends: the book can be served.
FileReady ==
  /\ \E b \in library \ ready : ready' = ready \cup {b}
  /\ UNCHANGED <<library, synced, removals, request, devices, history>>

-----------------------------------------------------------------------------
(* koboLibrarySyncHandler: two queries, then the answer, in which removals *)
(* come after entitlements; the device takes the entries in that order.    *)

ListKoboSyncBooks(d) ==
  /\ sync[d] = "idle"
  /\ sync' = [sync EXCEPT ![d] = "listed"]
  /\ got' = [got EXCEPT ![d] = synced \cap ready]
  /\ UNCHANGED <<server, request, device, gone, history>>

ListKoboRemovals(d) ==
  /\ sync[d] = "listed"
  /\ sync' = [sync EXCEPT ![d] = "answered"]
  /\ gone' = [gone EXCEPT ![d] = removals]
  /\ UNCHANGED <<server, request, device, got, history>>

SyncEnds(d) ==
  /\ sync' = [sync EXCEPT ![d] = "idle"]
  /\ got' = [got EXCEPT ![d] = {}] /\ gone' = [gone EXCEPT ![d] = {}]
  /\ UNCHANGED <<server, request, history>>

Apply(d) ==
  /\ sync[d] = "answered"
  /\ device' = [device EXCEPT ![d] = (@ \cup got[d]) \ gone[d]]
  /\ SyncEnds(d)

\* The answer does not arrive.
Lost(d) ==
  /\ sync[d] # "idle"
  /\ SyncEnds(d)
  /\ UNCHANGED device

-----------------------------------------------------------------------------
Proceeds(r) ==
  WriteTags(r) \/ Tombstone(r) \/ UpsertKoboRemoval(r) \/ DeleteUserBook(r)

Next ==
  \/ \E r \in Requests :
       ReadTags(r) \/ TombstoneIfKoboSynced(r) \/ Proceeds(r) \/ Fails(r)
  \/ CreateBook \/ DeleteTag \/ RenameTag \/ MergeBooks \/ FileReady
  \/ \E d \in Devices :
       ListKoboSyncBooks(d) \/ ListKoboRemovals(d) \/ Apply(d) \/ Lost(d)

\* Requests run on; a device that is used keeps syncing, and an answer
\* gets through now and then.
Fairness ==
  /\ \A r \in Requests : WF_vars(Proceeds(r))
  /\ \A d \in Devices : /\ WF_vars(ListKoboSyncBooks(d))
                        /\ SF_vars(ListKoboRemovals(d)) /\ SF_vars(Apply(d))

Spec == Init /\ [][Next]_vars /\ Fairness

-----------------------------------------------------------------------------
(* Properties. *)

\* Two were at work on the book at once, one is, or a request failed on it
\* between tag and tombstone.
Interrupted(b) == b \in raced \/ b \in halfway \/ InFlight(b)

\* A copy on a device, or in an answer on its way to one, is of a book that
\* is still synced or has a tombstone that takes it off again, however syncs,
\* lost answers and requests one after the other interleave.  A copy is lost
\* track of only by requests at once, by a request that fails between the tag
\* and the tombstone, and by a statement that drops the tag without a look at
\* tombstones (CreateBook, DeleteTag, RenameTag, MergeBooks).
CopiesAreTracked ==
  \A d \in Devices : \A b \in device[d] \cup (got[d] \ gone[d]) :
    b \in synced \/ b \in removals \/ Interrupted(b) \/ b \in dropped

\* No book is synced and marked for removal: a device would get it and lose
\* it again on every sync.  Only requests at once, a request that failed
\* between tag and tombstone, and a statement that adds the tag without a look
\* at tombstones (RenameTag to kobo-sync, MergeBooks) leave such a book.
SyncedOrRemoved ==
  \A b \in synced \cap removals : Interrupted(b) \/ b \in added

\* "ToggleTag adds or removes a tag from a user_book atomically."  Not so: the
\* tombstone is a statement of its own, and a call whose second statement
\* fails leaves a copy that nothing takes off.
TogglesAreAtomic ==
  \A d \in Devices : \A b \in device[d] :
    \/ b \in synced \/ b \in removals
    \/ b \in raced \/ InFlight(b) \/ b \in dropped

\* Once nothing changes on the server, every device comes to hold what is
\* synced and ready, and nothing that was taken off, whatever answers get
\* lost: for every book whose tag and tombstone agree.
DevicesCatchUp ==
  <>[][FALSE]_server =>
    <>[](\A d \in Devices, b \in Books :
           \/ Interrupted(b) \/ b \in dropped \/ b \in added
           \/ /\ b \in synced \cap ready => b \in device[d]
              /\ b \notin synced => b \notin device[d])
=============================================================================
