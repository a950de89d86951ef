----------------------------- MODULE BookFiles -----------------------------
(***************************************************************************)
(* The files of a book: rows of books.book_files, objects in the R2        *)
(* bucket, and the requests that change both one statement at a time with  *)
(* no transaction around them.  FinalizeUpload, RemoveFromLibrary and      *)
(* EnsureKEPUB follow the code; all uploads are of one EPUB, the content   *)
(* that deduplication makes users share.  A request runs one operation.    *)
(* Kobo tombstones are KoboSync's; tags, covers and PDFs are left out (a   *)
(* PDF differs from an EPUB in how its bytes are converted only).          *)
(***************************************************************************)
EXTENDS FiniteSets

CONSTANTS Requests, Users,
          UserOf,   \* the user each request is made by
          Books,    \* ids the catalog can give the book of the content
          NoBook

ASSUME RequestsAssumption == UserOf \in [Requests -> Users] /\ "seed" \notin Requests
ASSUME NoBookAssumption == NoBook \notin Books /\ Books # {}

VARIABLES
  at,       \* the statement each request runs next
  op,       \* what it does
  book,     \* the book it found
  todo,     \* formats whose key RemoveFromLibrary still has to count
  old,      \* id of the KEPUB row EnsureKEPUB is about to delete
  rows,     \* books.book_files
  objects,  \* keys of the bucket under books/
  temp,     \* requests whose upload is in the bucket under users/
  catalog,  \* books.books: ids not used yet, those listed, those deleted
  library,  \* books.user_books
  faulty,   \* history: a statement failed or the process stopped
  clashed   \* history: books removed while something else was done to them

request == <<at, op, book, todo, old>>
stored == <<rows, objects, temp, catalog, library>>
vars == <<request, stored, faulty, clashed>>

Formats == {"epub", "kepub"}

Keys == Books \X Formats  \* bookFileKey; the checksum is always the same

Deleting == [epub |-> "delete epub", kepub |-> "delete kepub"]

\* A row has a storage key once it is ready; an EPUB row always is.
Row == [id : Requests \cup {"seed"}, user : Users, book : Books,
        format : Formats, status : {"ready", "converting", "failed"},
        current : BOOLEAN]

TypeOK ==
  /\ at \in [Requests -> {"new", "finalize", "load", "own", "enter", "tag",
                          "dedup", "copy", "insert", "delete rows", "sweep", "delete epub",
                          "delete kepub", "orphan", "ensure", "drop", "source",
                          "canonical", "share", "placeholder", "convert",
                          "update", "done", "failed"}]
  /\ op \in [Requests -> {"none", "upload", "duplicate", "remove", "convert"}]
  /\ book \in [Requests -> Books \cup {NoBook}]
  /\ todo \in [Requests -> SUBSET Formats]
  /\ old \in [Requests -> Requests \cup {"seed", "none"}]
  /\ rows \subseteq Row /\ objects \subseteq Keys /\ temp \subseteq Requests
  /\ catalog \in [Books -> {"unused", "listed", "deleted"}]
  /\ library \subseteq Users \X Books
  /\ faulty \in BOOLEAN /\ clashed \subseteq Books

NewRow(r, format, status, current) ==
  [id |-> r, user |-> UserOf[r], book |-> book[r], format |-> format,
   status |-> status, current |-> current]

FirstBook == CHOOSE b \in Books : TRUE

\* Either nothing is stored, or a user has the book, with or without a KEPUB
\* that an older version of the converter made.
Init ==
  /\ at = [r \in Requests |-> "new"]
  /\ op = [r \in Requests |-> "none"]
  /\ book = [r \in Requests |-> NoBook]
  /\ todo = [r \in Requests |-> {}] /\ old = [r \in Requests |-> "none"]
  /\ temp = {} /\ faulty = FALSE /\ clashed = {}
  /\ \/ /\ rows = {} /\ objects = {} /\ library = {}
        /\ catalog = [b \in Books |-> "unused"]
     \/ \E u \in Users, formats \in {{"epub"}, Formats}, b \in {FirstBook} :
          /\ rows = {[id |-> "seed", user |-> u, book |-> b, format |-> f,
                      status |-> "ready", current |-> FALSE] :
                        f \in formats}
          /\ objects = {b} \X formats
          /\ catalog = [c \in Books |-> IF c = b THEN "listed" ELSE "unused"]
          /\ library = {<<u, b>>}

-----------------------------------------------------------------------------
(* The queries of BookFilesRepository.  LIMIT 1 picks any row: the oldest  *)
(* is one of them.                                                         *)

KeyOf(row) == <<row.book, row.format>>

ByChecksum == {row \in rows : row.format = "epub"}

ByBookAndFormat(u, b, format) ==
  {row \in rows : row.user = u /\ row.book = b /\ row.format = format}

ByUserBook(u, b) == {row \in rows : row.user = u /\ row.book = b}

ByStorageKey(k) == {row \in rows : row.status = "ready" /\ KeyOf(row) = k}

Own(r, format) == ByBookAndFormat(UserOf[r], book[r], format)

Mine(r) == <<UserOf[r], book[r]>>

Listed(b) == catalog[b] = "listed"

InFlight(r) == at[r] \notin {"new", "done", "failed"}

\* A removal of book b while an upload or a conversion of it is under way.
Clashes(b) ==
  \E r, s \in Requests :
    /\ InFlight(r) /\ InFlight(s) /\ book[r] = b /\ book[s] = b
    /\ op[r] = "remove" /\ op[s] # "remove"

-----------------------------------------------------------------------------
(* How a request moves on. *)

Goes(r, from, to) ==
  /\ at[r] = from
  /\ at' = [at EXCEPT ![r] = to]

Starts(r, operation, to) ==
  /\ Goes(r, "new", to)
  /\ op' = [op EXCEPT ![r] = operation]

Finds(r, b) == book' = [book EXCEPT ![r] = b]

\* The row refers to books(id): an insert fails once the book is gone.
Inserts(r, row, to) ==
  \/ /\ Listed(book[r])
     /\ rows' = rows \cup {row}
     /\ at' = [at EXCEPT ![r] = to]
     /\ UNCHANGED faulty
  \/ /\ ~Listed(book[r])
     /\ at' = [at EXCEPT ![r] = "done"]
     /\ faulty' = TRUE
     /\ UNCHANGED rows

DropsUpload(r) == temp' = temp \ {r}

\* UpdateStatus and UpdateAfterConversion find the row by its id, if it is there.
Sets(r, status) ==
  rows' = {IF row.id = r
             THEN [row EXCEPT !.status = status, !.current = (status = "ready")]
             ELSE row : row \in rows}

-----------------------------------------------------------------------------
(* Plausible bugs, used only to show that the properties can fail. *)

\* RemoveFromLibrary deletes the objects without counting who else has them.
CountNone(r) ==
  /\ \E f \in todo[r] :
       /\ Goes(r, "sweep", Deleting[f])
       /\ todo' = [todo EXCEPT ![r] = @ \ {f}]
  /\ UNCHANGED <<op, book, old, stored, faulty>>

\* It lists the files after it deleted their rows.
ListTooLate(r) ==
  /\ at[r] = "new"
  /\ \E b \in Books :
       /\ catalog[b] # "unused"
       /\ Starts(r, "remove", "delete rows") /\ Finds(r, b)
  /\ UNCHANGED <<todo, old, stored, faulty>>

\* It deletes the library entry and leaves the rows to the catalog's cascade.
KeepRows(r) ==
  /\ Goes(r, "delete rows", "sweep")
  /\ UNCHANGED <<op, book, todo, old, stored, faulty>>

\* A failed conversion returns without UpdateStatus.
FailSilently(r) ==
  /\ Goes(r, "convert", "done")
  /\ UNCHANGED <<op, book, todo, old, stored, faulty>>

-----------------------------------------------------------------------------
(* FinalizeUpload. *)

\* CreateUpload, and the client's PUT unless the content is known already.
CreateUpload(r) ==
  /\ Starts(r, "upload", "finalize")
  /\ temp' = IF ByChecksum = {} THEN temp \cup {r} ELSE temp
  /\ UNCHANGED <<book, todo, old, rows, objects, catalog, library, faulty>>

\* Without rows and without an upload the upload id is not valid.
FindByChecksumGlobal(r) ==
  /\ \/ \E row \in ByChecksum :
          /\ Goes(r, "finalize", "own")
          /\ op' = [op EXCEPT ![r] = "duplicate"]
          /\ Finds(r, row.book)
     \/ /\ ByChecksum = {}
        /\ Goes(r, "finalize", IF r \in temp THEN "load" ELSE "done")
        /\ UNCHANGED <<op, book>>
  /\ UNCHANGED <<todo, old, stored, faulty>>

\* loadUploadedFile and recognizeBook: the user has the book, or a provider
\* knows it and UpsertBook finds or makes its catalog row, or it is rejected.
Recognize(r) ==
  /\ \/ \E b \in Books :
          /\ Finds(r, b)
          /\ \/ /\ <<UserOf[r], b>> \in library
                /\ Goes(r, "load", "tag")
                /\ UNCHANGED catalog
             \/ /\ \A c \in Books : <<UserOf[r], c>> \notin library
                /\ \/ Listed(b)
                   \/ catalog[b] = "unused" /\ \A c \in Books : ~Listed(c)
                /\ Goes(r, "load", "enter")
                /\ catalog' = [catalog EXCEPT ![b] = "listed"]
          /\ UNCHANGED temp
     \/ /\ Goes(r, "load", "done")
        /\ DropsUpload(r)
        /\ UNCHANGED <<book, catalog>>
  /\ UNCHANGED <<op, todo, old, rows, objects, library, faulty>>

\* finalizeDuplicate looks for the user's entry first.
GetUserBook(r) ==
  /\ Goes(r, "own", IF Mine(r) \in library THEN "tag" ELSE "enter")
  /\ UNCHANGED <<op, book, todo, old, stored, faulty>>

\* UpsertUserBook of finalizeDuplicate and of AddToLibrary; an entry refers to
\* books(id), too.
UpsertUserBook(r) ==
  /\ \/ /\ Goes(r, "enter", "tag")
        /\ Listed(book[r])
        /\ library' = library \cup {Mine(r)}
        /\ UNCHANGED <<temp, faulty>>
     \/ /\ Goes(r, "enter", "done")
        /\ ~Listed(book[r])
        /\ IF op[r] = "upload" THEN DropsUpload(r) ELSE UNCHANGED temp
        /\ faulty' = TRUE
        /\ UNCHANGED library
  /\ UNCHANGED <<op, book, todo, old, rows, objects, catalog>>

\* The entry is read again, by ensureTag for one, and must be there; the tags
\* it writes then go to the entry if it is still there, and are left out.
EnsureTag(r) ==
  /\ \/ /\ Goes(r, "tag", "dedup")
        /\ Mine(r) \in library
        /\ UNCHANGED faulty
     \/ /\ Goes(r, "tag", "done")
        /\ Mine(r) \notin library
        /\ faulty' = TRUE
  /\ UNCHANGED <<op, book, todo, old, stored>>

\* The second look for a duplicate, among this user's rows.
FindByChecksum(r) ==
  /\ \/ /\ Own(r, "epub") # {}
        /\ Goes(r, "dedup", "done")
        /\ DropsUpload(r)
     \/ /\ Own(r, "epub") = {}
        /\ Goes(r, "dedup", IF op[r] = "upload" THEN "copy" ELSE "insert")
        /\ UNCHANGED temp
  /\ UNCHANGED <<op, book, todo, old, rows, objects, catalog, library, faulty>>

\* Copy to the canonical key, then delete the upload.
Copy(r) ==
  /\ Goes(r, "copy", "insert")
  /\ objects' = objects \cup {<<book[r], "epub">>}
  /\ DropsUpload(r)
  /\ UNCHANGED <<op, book, todo, old, rows, catalog, library, faulty>>

InsertFile(r) ==
  /\ at[r] = "insert"
  /\ Inserts(r, NewRow(r, "epub", "ready", FALSE), "done")
  /\ DropsUpload(r)
  /\ UNCHANGED <<op, book, todo, old, objects, catalog, library>>

-----------------------------------------------------------------------------
(* RemoveFromLibrary. *)

\* Nobody checks that the user has the book.
ListByBook(r) ==
  /\ \E b \in Books :
       /\ catalog[b] # "unused"
       /\ Starts(r, "remove", "delete rows")
       /\ Finds(r, b)
       /\ todo' = [todo EXCEPT ![r] =
            {f \in Formats : \E row \in ByUserBook(UserOf[r], b) :
                               row.format = f /\ row.status = "ready"}]
  /\ UNCHANGED <<old, stored, faulty>>

DeleteByUserBook(r) ==
  /\ Goes(r, "delete rows", "sweep")
  /\ rows' = rows \ ByUserBook(UserOf[r], book[r])
  /\ UNCHANGED <<op, book, todo, old, objects, temp, catalog, library, faulty>>

\* Each listed key in turn, in any order.
CountByStorageKey(r) ==
  /\ \E f \in todo[r] :
       /\ Goes(r, "sweep", IF ByStorageKey(<<book[r], f>>) = {} THEN Deleting[f]
                           ELSE "sweep")
       /\ todo' = [todo EXCEPT ![r] = @ \ {f}]
  /\ UNCHANGED <<op, book, old, stored, faulty>>

\* A failed count or delete is logged and skipped.
DeleteObject(r) ==
  /\ \E f \in Formats :
       /\ Goes(r, Deleting[f], "sweep")
       /\ \/ objects' = objects \ {<<book[r], f>>} /\ UNCHANGED faulty
          \/ faulty' = TRUE /\ UNCHANGED objects
  /\ UNCHANGED <<op, book, todo, old, rows, temp, catalog, library>>

DeleteUserBook(r) ==
  /\ todo[r] = {}
  /\ Goes(r, "sweep", "orphan")
  /\ library' = library \ {Mine(r)}
  /\ UNCHANGED <<op, book, todo, old, rows, objects, temp, catalog, faulty>>

\* The rows that refer to the book go with it.
DeleteOrphanedBook(r) ==
  /\ Goes(r, "orphan", "done")
  /\ IF \E u \in Users : <<u, book[r]>> \in library
       THEN UNCHANGED <<catalog, rows>>
       ELSE /\ catalog' = [catalog EXCEPT ![book[r]] = "deleted"]
            /\ rows' = {row \in rows : row.book # book[r]}
  /\ UNCHANGED <<op, book, todo, old, objects, temp, library, faulty>>

-----------------------------------------------------------------------------
(* Conversion: maybeStartKEPUBConversion and the detached EnsureKEPUB. *)

RequestKEPUBConversion(r) ==
  /\ \E b \in Books :
       /\ ByBookAndFormat(UserOf[r], b, "kepub") = {}
       /\ ByBookAndFormat(UserOf[r], b, "epub") # {}
       /\ Finds(r, b)
  /\ Starts(r, "convert", "ensure")
  /\ UNCHANGED <<todo, old, stored, faulty>>

\* Another conversion's placeholder counts as made by an old converter.
FindKEPUB(r) ==
  /\ \/ /\ Own(r, "kepub") = {}
        /\ Goes(r, "ensure", "source")
        /\ UNCHANGED old
     \/ /\ \E row \in Own(r, "kepub") : row.current
        /\ Goes(r, "ensure", "done")
        /\ UNCHANGED old
     \/ /\ \E row \in Own(r, "kepub") :
             ~row.current /\ old' = [old EXCEPT ![r] = row.id]
        /\ Goes(r, "ensure", "drop")
  /\ UNCHANGED <<op, book, todo, stored, faulty>>

\* By its id, whatever it says by now, if it is still there.
DeleteKEPUB(r) ==
  /\ Goes(r, "drop", "source")
  /\ rows' = rows \ {row \in Own(r, "kepub") : row.id = old[r]}
  /\ old' = [old EXCEPT ![r] = "none"]
  /\ UNCHANGED <<op, book, todo, objects, temp, catalog, library, faulty>>

ResolveSourceFile(r) ==
  /\ Goes(r, "source", IF Own(r, "epub") = {} THEN "done" ELSE "canonical")
  /\ UNCHANGED <<op, book, todo, old, stored, faulty>>

\* A KEPUB of an old converter is not handed to more users.
ResolveCanonicalKEPUB(r) ==
  /\ \/ /\ \E row \in ByStorageKey(<<book[r], "kepub">>) : row.current
        /\ Goes(r, "canonical", "share")
     \/ /\ \/ ByStorageKey(<<book[r], "kepub">>) = {}
           \/ \E row \in ByStorageKey(<<book[r], "kepub">>) : ~row.current
        /\ Goes(r, "canonical", "placeholder")
  /\ UNCHANGED <<op, book, todo, old, stored, faulty>>

InsertShared(r) ==
  /\ at[r] = "share"
  /\ Inserts(r, NewRow(r, "kepub", "ready", TRUE), "done")
  /\ UNCHANGED <<op, book, todo, old, objects, temp, catalog, library>>

InsertPlaceholder(r) ==
  /\ at[r] = "placeholder"
  /\ Inserts(r, NewRow(r, "kepub", "converting", FALSE), "convert")
  /\ UNCHANGED <<op, book, todo, old, objects, temp, catalog, library>>

\* getEPUBBytes, Convert and Put.
ConvertAndPut(r) ==
  /\ <<book[r], "epub">> \in objects
  /\ Goes(r, "convert", "update")
  /\ objects' = objects \cup {<<book[r], "kepub">>}
  /\ UNCHANGED <<op, book, todo, old, rows, temp, catalog, library, faulty>>

\* The source is gone, or a step of the conversion fails.
ConversionFails(r) ==
  /\ Goes(r, "convert", "failed")
  /\ Sets(r, "failed")
  /\ UNCHANGED <<op, book, todo, old, objects, temp, catalog, library, faulty>>

UpdateAfterConversion(r) ==
  /\ Goes(r, "update", "done")
  /\ Sets(r, "ready")
  /\ UNCHANGED <<op, book, todo, old, objects, temp, catalog, library, faulty>>

-----------------------------------------------------------------------------
(* Faults. *)

\* A statement fails, or the caller of RemoveFromLibrary goes away: the rest
\* of the request does not happen.
Fails(r) ==
  /\ InFlight(r)
  /\ at' = [at EXCEPT ![r] = "done"]
  /\ faulty' = TRUE
  /\ UNCHANGED <<op, book, todo, old, stored>>

\* The process is replaced: every request and every conversion stops.
Restart ==
  /\ \E r \in Requests : InFlight(r)
  /\ at' = [r \in Requests |-> IF InFlight(r) THEN "done" ELSE at[r]]
  /\ faulty' = TRUE
  /\ UNCHANGED <<op, book, todo, old, stored>>

-----------------------------------------------------------------------------
Proceeds(r) ==
  \/ FindByChecksumGlobal(r) \/ Recognize(r) \/ GetUserBook(r)
  \/ UpsertUserBook(r) \/ EnsureTag(r) \/ FindByChecksum(r) \/ Copy(r) \/ InsertFile(r)
  \/ DeleteByUserBook(r) \/ CountByStorageKey(r) \/ DeleteObject(r)
  \/ DeleteUserBook(r) \/ DeleteOrphanedBook(r)
  \/ FindKEPUB(r) \/ DeleteKEPUB(r) \/ ResolveSourceFile(r) \/ ResolveCanonicalKEPUB(r)
  \/ InsertShared(r) \/ InsertPlaceholder(r) \/ ConvertAndPut(r)
  \/ ConversionFails(r) \/ UpdateAfterConversion(r)

RequestStep(r) ==
  \/ CreateUpload(r) \/ ListByBook(r) \/ RequestKEPUBConversion(r)
  \/ Proceeds(r) \/ Fails(r)

Step == (\E r \in Requests : RequestStep(r)) \/ Restart

Clash == clashed' = clashed \cup {b \in Books : Clashes(b) \/ Clashes(b)'}

Next == Step /\ Clash

Spec == Init /\ [][Next]_vars

-----------------------------------------------------------------------------
(* Properties. *)

\* A file that can be downloaded is in the bucket: RemoveFromLibrary deletes
\* an object only when no row refers to it, and rows are written after their
\* objects; it takes a removal of the very book at the same time to break that.
ReadyFilesAreStored ==
  \A row \in rows :
    row.status = "ready" /\ row.book \notin clashed => KeyOf(row) \in objects

\* An object no row refers to belongs to a request under way; leftovers need
\* a fault, a removal at the same time as something else, or, for a KEPUB, a
\* conversion that replaced the placeholder of another one and then failed:
\* its own row says failed, has no storage key, and is all a removal finds.
NothingLeftBehind ==
  \A k \in objects :
    \/ ByStorageKey(k) # {} \/ faulty \/ k[1] \in clashed
    \/ \E r \in Requests : InFlight(r) /\ book[r] = k[1]
    \/ k[2] = "kepub" /\ \E r \in Requests : at[r] = "failed" /\ book[r] = k[1]

\* A file of a user is of a book in the user's library, even while the user
\* removes it and whatever fails: rows go first and come last.
FilesAreInTheLibrary ==
  \A row \in rows : <<row.user, row.book>> \in library \/ row.book \in clashed

\* A KEPUB that shows as converting is being converted, by the request that
\* wrote the row: the page polls until this ends, and no request starts a
\* conversion while the row is there.
ConvertingWhileConverted ==
  \A row \in rows :
    row.status = "converting" =>
      faulty \/ at[row.id] \in {"convert", "update"}

\* What books.go:877 and the repository's CountByStorageKey say: an object is
\* deleted only when no row refers to it, so no file that shows as ready is
\* missing.
DeletedOnlyWhenUnreferenced ==
  \A row \in rows : row.status = "ready" => KeyOf(row) \in objects
=============================================================================
