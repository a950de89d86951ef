-------------------------- MODULE BookFilesProofs --------------------------
(***************************************************************************)
(* Proofs about BookFiles, for any requests, users and books: a ready file *)
(* is in the bucket, a file is of a book in its user's library, what says  *)
(* converting is being converted, and nothing is left behind unnoticed.    *)
(* The argument is about books that no removal met while something else    *)
(* was done to them: between the first and the last statement of a removal *)
(* such a book gains no row and no object, and while an upload or a        *)
(* conversion of it is under way it loses no EPUB row, no object and no    *)
(* library entry.                                                          *)
(***************************************************************************)
EXTENDS BookFiles, TLAPS

Removals == {"delete rows", "sweep", "delete epub", "delete kepub", "orphan"}

Conversions == {"ensure", "drop", "source", "canonical", "share", "placeholder",
                "convert", "update"}

-----------------------------------------------------------------------------
(* The invariant: what a request at a statement may rely on. *)

\* A request is at a statement of its operation, and knows its book.
RequestFits(r) ==
  /\ \/ op[r] = "none" /\ at[r] = "new"
     \/ op[r] = "upload" /\ at[r] \in {"finalize", "load", "enter", "tag", "dedup",
                                       "copy", "insert", "done"}
     \/ op[r] = "duplicate" /\ at[r] \in {"own", "enter", "tag", "dedup", "insert", "done"}
     \/ op[r] = "remove" /\ at[r] \in Removals \cup {"done"}
     \/ op[r] = "convert" /\ at[r] \in Conversions \cup {"done", "failed"}
  /\ at[r] \in {"new", "finalize", "load", "done"} \/ book[r] \in Books

\* A row is what the request that wrote it made of it.
RowFits(row) ==
  /\ row.format = "epub" => row.status = "ready"
  /\ row.current => row.status = "ready"
  /\ row.status = "ready" \/ row.id \in Requests
  /\ row.id \in Requests =>
       /\ row.book = book[row.id] /\ row.user = UserOf[row.id]
       /\ row.format = "kepub" <=> op[row.id] = "convert"
       /\ at[row.id] \in {"convert", "update", "done", "failed"}
       /\ at[row.id] \in {"convert", "update"} => row.status = "converting"
       /\ row.status = "converting" => faulty \/ at[row.id] \in {"convert", "update"}
       /\ row.status = "failed" => at[row.id] = "failed"

\* What a request knows of the rows, the objects and the library when no
\* removal met it.
RemovalKnows(r) ==
  /\ \A f \in Formats : at[r] = Deleting[f] => ByStorageKey(<<book[r], f>>) = {}
  /\ at[r] = "delete rows" =>
       \A row \in ByUserBook(UserOf[r], book[r]) :
         row.status = "ready" => row.format \in todo[r]
  /\ at[r] \in Removals \ {"delete rows"} => ByUserBook(UserOf[r], book[r]) = {}

UploadKnows(r) ==
  /\ (at[r] = "insert" \/ (op[r] = "duplicate" /\ at[r] \in {"own", "enter", "tag", "dedup"})) =>
       <<book[r], "epub">> \in objects
  /\ at[r] \in {"dedup", "copy", "insert"} => Mine(r) \in library

ConversionKnows(r) ==
  at[r] \in Conversions =>
    /\ Mine(r) \in library /\ Own(r, "epub") # {}
    /\ at[r] \in {"share", "update"} => <<book[r], "kepub">> \in objects

Knows(r) ==
  book[r] \notin clashed => RemovalKnows(r) /\ UploadKnows(r) /\ ConversionKnows(r)

\* What becomes of an object: a removal takes it away, an upload gives it its
\* row, and a KEPUB has a row or a conversion that will write one.
Sweeps(r, k) ==
  /\ book[r] = k[1]
  /\ \/ at[r] = Deleting[k[2]]
     \/ at[r] \in Removals \ {"orphan"} /\ k[2] \in todo[r]

KepubCared(u, b) ==
  \/ ByBookAndFormat(u, b, "kepub") # {}
  \/ \E r \in Requests :
       /\ Mine(r) = <<u, b>>
       /\ at[r] \in {"source", "canonical", "share", "placeholder"}

NoFailed(b) == \A r \in Requests : at[r] = "failed" => book[r] # b

Cared(k) ==
  \/ \E r \in Requests : Sweeps(r, k)
  \/ k[2] = "epub" /\ ByStorageKey(k) # {}
  \/ k[2] = "epub" /\ \E r \in Requests : at[r] = "insert" /\ book[r] = k[1]
  \/ k[2] = "kepub" /\ \E u \in Users : KepubCared(u, k[1])

StructInv ==
  /\ TypeOK
  /\ \A r \in Requests : RequestFits(r)
  /\ \A row \in rows : RowFits(row)

KnowledgeInv ==
  /\ ReadyFilesAreStored
  /\ FilesAreInTheLibrary
  /\ \A r \in Requests : Knows(r)

CareInv ==
  ~faulty =>
    /\ \A r \in Requests :
         at[r] \in {"convert", "update"} /\ book[r] \notin clashed =>
           KepubCared(UserOf[r], book[r])
    /\ \A k \in objects :
         k[1] \in clashed \/ (k[2] = "kepub" /\ ~NoFailed(k[1])) \/ Cared(k)

IInv == StructInv /\ KnowledgeInv /\ CareInv

-----------------------------------------------------------------------------
(* Types, and what the request of a row is doing. *)

LEMMA DeletingIs ==
  Deleting["epub"] = "delete epub" /\ Deleting["kepub"] = "delete kepub"
BY DEF Deleting

LEMMA StructInitially ==
  ASSUME Init
  PROVE  StructInv
<1>1. FirstBook \in Books
  BY NoBookAssumption DEF FirstBook
<1>2. rows \subseteq Row /\ \A row \in rows : row.id = "seed" /\ row.status = "ready"
  <2>1. CASE rows = {}
    BY <2>1
  <2>2. ASSUME NEW u \in Users, NEW formats \in {{"epub"}, Formats},
               rows = {[id |-> "seed", user |-> u, book |-> FirstBook, format |-> f,
                        status |-> "ready", current |-> FALSE] : f \in formats}
        PROVE  rows \subseteq Row /\ \A row \in rows : row.id = "seed" /\ row.status = "ready"
    <3>1. \A f \in formats : f \in Formats
      BY DEF Formats
    <3>2. \A row \in rows : \E f \in Formats :
            row = [id |-> "seed", user |-> u, book |-> FirstBook, format |-> f,
                   status |-> "ready", current |-> FALSE]
      BY <2>2, <3>1
    <3>3. ASSUME NEW f \in Formats
          PROVE  [id |-> "seed", user |-> u, book |-> FirstBook, format |-> f,
                  status |-> "ready", current |-> FALSE] \in Row
      BY <1>1, <3>3 DEF Row, Formats
    <3>. QED
      BY <3>2, <3>3
  <2>. QED
    BY <2>1, <2>2 DEF Init
<1>3. objects \subseteq Keys /\ library \subseteq Users \X Books
      /\ catalog \in [Books -> {"unused", "listed", "deleted"}]
  BY <1>1 DEF Init, Keys, Formats
<1>4. TypeOK
  BY <1>2, <1>3 DEF Init, TypeOK
<1>. QED
  BY <1>2, <1>4, RequestsAssumption DEF Init, StructInv, RequestFits, RowFits, TypeOK, Row

LEMMA TypeStep ==
  ASSUME StructInv, [Next]_vars
  PROVE  TypeOK'
<1>. USE RequestsAssumption DEF StructInv, TypeOK, request, stored, Goes, Starts, Finds, Formats
<1>0. CASE UNCHANGED vars
  BY <1>0 DEF vars
<1>. SUFFICES ASSUME Step, Clash PROVE TypeOK'
  BY <1>0 DEF Next
<1>1. clashed' \subseteq Books
  BY DEF Clash
<1>2. CASE Restart
  BY <1>1, <1>2 DEF Restart
<1>. SUFFICES ASSUME NEW r \in Requests,
                     \/ CreateUpload(r) \/ ListByBook(r) \/ RequestKEPUBConversion(r)
                     \/ Proceeds(r) \/ Fails(r)
              PROVE  TypeOK'
  BY <1>2 DEF Step, RequestStep
<1>3. UserOf[r] \in Users
  OBVIOUS
<1>4. \A f \in {"epub", "kepub"}, s \in {"ready", "converting", "failed"}, c \in BOOLEAN :
        book[r] \in Books => NewRow(r, f, s, c) \in Row
  BY <1>3 DEF NewRow, Row
<1>5. \A status \in {"ready", "failed"} : Sets(r, status) => rows' \subseteq Row
  <2>1. ASSUME NEW status \in {"ready", "failed"}, NEW row \in Row
        PROVE  [row EXCEPT !.status = status, !.current = (status = "ready")] \in Row
    BY <2>1 DEF Row
  <2>. SUFFICES ASSUME NEW status \in {"ready", "failed"}, Sets(r, status), NEW new \in rows'
                PROVE  new \in Row
    OBVIOUS
  <2>2. PICK row \in rows :
          new = IF row.id = r
                THEN [row EXCEPT !.status = status, !.current = (status = "ready")] ELSE row
    BY DEF Sets
  <2>. QED
    BY <2>1, <2>2
<1>6. CASE CreateUpload(r)
  BY <1>1, <1>6 DEF CreateUpload
<1>7. CASE ListByBook(r)
  <2>1. PICK b \in Books : /\ Starts(r, "remove", "delete rows") /\ Finds(r, b)
                           /\ todo' = [todo EXCEPT ![r] =
                                {f \in Formats : \E row \in ByUserBook(UserOf[r], b) :
                                   row.format = f /\ row.status = "ready"}]
    BY <1>7 DEF ListByBook
  <2>2. todo' \in [Requests -> SUBSET Formats]
    BY <2>1
  <2>. QED
    BY <1>1, <1>7, <2>1, <2>2 DEF ListByBook
<1>8. CASE RequestKEPUBConversion(r)
  <2>1. PICK b \in Books : Finds(r, b)
    BY <1>8 DEF RequestKEPUBConversion
  <2>. QED
    BY <1>1, <1>8, <2>1 DEF RequestKEPUBConversion
<1>9. CASE FindByChecksumGlobal(r)
  BY <1>1, <1>9 DEF FindByChecksumGlobal, ByChecksum, Row
<1>10. CASE Recognize(r)
  <2>1. at' \in [Requests -> {"new", "finalize", "load", "own", "enter", "tag",
                          "dedup", "copy", "insert", "delete rows", "sweep", "delete epub",
                          "delete kepub", "orphan", "ensure", "drop", "source",
                          "canonical", "share", "placeholder", "convert",
                          "update", "done", "failed"}]
    <3>1. CASE Goes(r, "load", "tag")
      BY <3>1
    <3>2. CASE Goes(r, "load", "enter")
      BY <3>2
    <3>3. CASE Goes(r, "load", "done")
      BY <3>3
    <3>. QED
      BY <1>10, <3>1, <3>2, <3>3 DEF Recognize
  <2>2. book' \in [Requests -> Books \cup {NoBook}]
    <3>1. (\E b \in Books : Finds(r, b)) \/ UNCHANGED book
      BY <1>10 DEF Recognize
    <3>. QED
      BY <3>1
  <2>3. catalog' \in [Books -> {"unused", "listed", "deleted"}] /\ temp' \subseteq Requests
    BY <1>10 DEF Recognize, DropsUpload
  <2>. QED
    BY <1>1, <1>10, <2>1, <2>2, <2>3 DEF Recognize
<1>11. CASE UpsertUserBook(r)
  <2>1. Mine(r) \in Users \X Books /\ at[r] = "enter"
    BY <1>3, <1>11 DEF UpsertUserBook, RequestFits, Mine
  <2>2. library' \subseteq Users \X Books /\ temp' \subseteq Requests /\ faulty' \in BOOLEAN
    BY <1>11, <2>1 DEF UpsertUserBook, DropsUpload
  <2>. QED
    BY <1>1, <1>11, <2>1, <2>2 DEF UpsertUserBook
<1>29. CASE GetUserBook(r) \/ EnsureTag(r)
  BY <1>1, <1>29 DEF GetUserBook, EnsureTag
<1>12. CASE FindByChecksum(r)
  BY <1>1, <1>12 DEF FindByChecksum, DropsUpload
<1>13. CASE Copy(r)
  <2>1. <<book[r], "epub">> \in Keys
    BY <1>13 DEF Copy, RequestFits, Keys
  <2>. QED
    BY <1>1, <1>13, <2>1 DEF Copy, DropsUpload
<1>14. CASE InsertFile(r)
  BY <1>1, <1>4, <1>14 DEF InsertFile, Inserts, DropsUpload, RequestFits
<1>15. CASE DeleteByUserBook(r)
  BY <1>1, <1>15 DEF DeleteByUserBook
<1>16. CASE CountByStorageKey(r)
  <2>1. PICK f \in todo[r] :
          /\ Goes(r, "sweep", IF ByStorageKey(<<book[r], f>>) = {} THEN Deleting[f]
                              ELSE "sweep")
          /\ todo' = [todo EXCEPT ![r] = @ \ {f}]
    BY <1>16 DEF CountByStorageKey
  <2>2. Deleting[f] \in {"delete epub", "delete kepub"}
    <3>1. todo[r] \in SUBSET Formats
      OBVIOUS
    <3>2. f = "epub" \/ f = "kepub"
      BY <3>1
    <3>. QED
      BY <3>2, DeletingIs
  <2>3. todo' \in [Requests -> SUBSET Formats]
    <3>1. todo \in [Requests -> SUBSET Formats] /\ todo' = [todo EXCEPT ![r] = @ \ {f}]
      BY <2>1
    <3>2. todo[r] \ {f} \in SUBSET Formats
      BY <3>1
    <3>. HIDE DEF Formats
    <3>. QED
      BY <3>1, <3>2
  <2>. QED
    BY <1>1, <1>16, <2>1, <2>2, <2>3 DEF CountByStorageKey
<1>17. CASE DeleteObject(r)
  BY <1>1, <1>17, DeletingIs DEF DeleteObject
<1>18. CASE DeleteUserBook(r)
  BY <1>1, <1>18 DEF DeleteUserBook
<1>19. CASE DeleteOrphanedBook(r)
  BY <1>1, <1>19 DEF DeleteOrphanedBook
<1>20. CASE FindKEPUB(r)
  <2>1. old' \in [Requests -> Requests \cup {"seed", "none"}]
    <3>1. \A row \in Own(r, "kepub") : row.id \in Requests \cup {"seed"}
      BY DEF Own, ByBookAndFormat, Row
    <3>2. old' = old \/ \E row \in Own(r, "kepub") : old' = [old EXCEPT ![r] = row.id]
      BY <1>20 DEF FindKEPUB
    <3>3. ASSUME NEW id \in Requests \cup {"seed"}, old' = [old EXCEPT ![r] = id]
          PROVE  old' \in [Requests -> Requests \cup {"seed", "none"}]
      BY <3>3
    <3>4. old \in [Requests -> Requests \cup {"seed", "none"}]
      OBVIOUS
    <3>. QED
      BY <3>1, <3>2, <3>3, <3>4, Zenon
  <2>. QED
    BY <1>1, <1>20, <2>1 DEF FindKEPUB
<1>30. CASE DeleteKEPUB(r)
  BY <1>1, <1>30 DEF DeleteKEPUB
<1>21. CASE ResolveSourceFile(r)
  BY <1>1, <1>21 DEF ResolveSourceFile
<1>22. CASE ResolveCanonicalKEPUB(r)
  BY <1>1, <1>22 DEF ResolveCanonicalKEPUB
<1>23. CASE InsertShared(r)
  BY <1>1, <1>4, <1>23 DEF InsertShared, Inserts, RequestFits
<1>24. CASE InsertPlaceholder(r)
  BY <1>1, <1>4, <1>24 DEF InsertPlaceholder, Inserts, RequestFits
<1>25. CASE ConvertAndPut(r)
  <2>1. <<book[r], "kepub">> \in Keys
    BY <1>25 DEF ConvertAndPut, RequestFits, Keys
  <2>. QED
    BY <1>1, <1>25, <2>1 DEF ConvertAndPut
<1>26. CASE ConversionFails(r)
  BY <1>1, <1>5, <1>26 DEF ConversionFails
<1>27. CASE UpdateAfterConversion(r)
  BY <1>1, <1>5, <1>27 DEF UpdateAfterConversion
<1>28. CASE Fails(r)
  BY <1>1, <1>28 DEF Fails
<1>. QED
  BY <1>6, <1>7, <1>8, <1>9, <1>10, <1>11, <1>12, <1>13, <1>14, <1>15, <1>16, <1>17, <1>18,
     <1>19, <1>20, <1>21, <1>22, <1>23, <1>24, <1>25, <1>26, <1>27, <1>28, <1>29, <1>30 DEF Proceeds

\* A step of one request leaves the others where they are.
LEMMA OthersWait ==
  ASSUME StructInv, NEW r \in Requests, RequestStep(r), NEW q \in Requests \ {r}
  PROVE  at'[q] = at[q] /\ op'[q] = op[q] /\ book'[q] = book[q] /\ todo'[q] = todo[q]
<1>. USE DEF StructInv, TypeOK, Goes, Starts, Finds, Inserts, stored, request
<1>1. at'[q] = at[q]
  BY DEF RequestStep, Proceeds, CreateUpload, ListByBook, RequestKEPUBConversion, Fails,
     FindByChecksumGlobal, Recognize, GetUserBook, UpsertUserBook, EnsureTag, FindByChecksum,
     Copy, InsertFile, DeleteByUserBook, CountByStorageKey, DeleteObject, DeleteUserBook,
     DeleteOrphanedBook, FindKEPUB, DeleteKEPUB, ResolveSourceFile, ResolveCanonicalKEPUB,
     InsertShared, InsertPlaceholder, ConvertAndPut, ConversionFails, UpdateAfterConversion
<1>2. op'[q] = op[q] /\ book'[q] = book[q]
  BY DEF RequestStep, Proceeds, CreateUpload, ListByBook, RequestKEPUBConversion, Fails,
     FindByChecksumGlobal, Recognize, GetUserBook, UpsertUserBook, EnsureTag, FindByChecksum,
     Copy, InsertFile, DeleteByUserBook, CountByStorageKey, DeleteObject, DeleteUserBook,
     DeleteOrphanedBook, FindKEPUB, DeleteKEPUB, ResolveSourceFile, ResolveCanonicalKEPUB,
     InsertShared, InsertPlaceholder, ConvertAndPut, ConversionFails, UpdateAfterConversion
<1>3. todo'[q] = todo[q]
  BY DEF RequestStep, Proceeds, CreateUpload, ListByBook, RequestKEPUBConversion, Fails,
     FindByChecksumGlobal, Recognize, GetUserBook, UpsertUserBook, EnsureTag, FindByChecksum,
     Copy, InsertFile, DeleteByUserBook, CountByStorageKey, DeleteObject, DeleteUserBook,
     DeleteOrphanedBook, FindKEPUB, DeleteKEPUB, ResolveSourceFile, ResolveCanonicalKEPUB,
     InsertShared, InsertPlaceholder, ConvertAndPut, ConversionFails, UpdateAfterConversion
<1>. QED
  BY <1>1, <1>2, <1>3

\* A request goes on to a statement of its own operation.
LEMMA RequestsFit ==
  ASSUME StructInv, NEW r \in Requests, RequestStep(r)
  PROVE  RequestFits(r)'
<1>. USE DeletingIs DEF StructInv, TypeOK, Goes, Starts, Finds, Inserts, stored, request,
     RequestFits, Removals, Conversions
<1>1. CASE CreateUpload(r) \/ ListByBook(r) \/ RequestKEPUBConversion(r)
  BY <1>1, ZenonT(40) DEF CreateUpload, ListByBook, RequestKEPUBConversion
<1>2. CASE FindByChecksumGlobal(r) \/ Recognize(r) \/ GetUserBook(r) \/ UpsertUserBook(r)
           \/ EnsureTag(r) \/ FindByChecksum(r)
           \/ Copy(r) \/ InsertFile(r)
  <2>1. CASE FindByChecksumGlobal(r)
    BY <2>1, ZenonT(40) DEF FindByChecksumGlobal, ByChecksum, Row
  <2>2. CASE Recognize(r)
    <3>1. /\ Goes(r, "load", "tag") \/ Goes(r, "load", "enter") \/ Goes(r, "load", "done")
          /\ UNCHANGED op
      BY <2>2 DEF Recognize
    <3>2. at[r] = "load" /\ at'[r] \in {"enter", "tag", "done"} /\ op'[r] = op[r]
      BY <3>1
    <3>3. at'[r] # "done" => \E b \in Books : Finds(r, b)
      BY <2>2, <3>2 DEF Recognize
    <3>4. at'[r] # "done" => book'[r] \in Books
      BY <3>3
    <3>5. op'[r] = "upload"
      BY <3>2
    <3>. QED
      BY <3>2, <3>4, <3>5
  <2>3. CASE GetUserBook(r) \/ UpsertUserBook(r) \/ EnsureTag(r)
    BY <2>3 DEF GetUserBook, UpsertUserBook, EnsureTag
  <2>4. CASE FindByChecksum(r)
    BY <2>4 DEF FindByChecksum
  <2>5. CASE Copy(r) \/ InsertFile(r)
    BY <2>5 DEF Copy, InsertFile
  <2>. QED
    BY <1>2, <2>1, <2>2, <2>3, <2>4, <2>5
<1>3. CASE DeleteByUserBook(r) \/ CountByStorageKey(r) \/ DeleteObject(r)
           \/ DeleteUserBook(r) \/ DeleteOrphanedBook(r)
  <2>1. CASE CountByStorageKey(r)
    <3>1. PICK f \in todo[r] : Goes(r, "sweep", IF ByStorageKey(<<book[r], f>>) = {}
                                                THEN Deleting[f] ELSE "sweep")
      BY <2>1 DEF CountByStorageKey
    <3>2. todo[r] \in SUBSET Formats
      OBVIOUS
    <3>3. f = "epub" \/ f = "kepub"
      BY <3>2 DEF Formats
    <3>. QED
      BY <2>1, <3>1, <3>3 DEF CountByStorageKey
  <2>. QED
    BY <1>3, <2>1 DEF DeleteByUserBook, DeleteObject, DeleteUserBook, DeleteOrphanedBook,
       Formats
<1>4. CASE FindKEPUB(r) \/ DeleteKEPUB(r) \/ ResolveSourceFile(r) \/ ResolveCanonicalKEPUB(r)
           \/ InsertShared(r) \/ InsertPlaceholder(r)
  BY <1>4 DEF FindKEPUB, DeleteKEPUB, ResolveSourceFile, ResolveCanonicalKEPUB, InsertShared,
     InsertPlaceholder
<1>5. CASE ConvertAndPut(r) \/ ConversionFails(r) \/ UpdateAfterConversion(r) \/ Fails(r)
  BY <1>5, ZenonT(30) DEF ConvertAndPut, ConversionFails, UpdateAfterConversion, Fails, InFlight
<1>. QED
  BY <1>1, <1>2, <1>3, <1>4, <1>5 DEF RequestStep, Proceeds

\* Only the request that wrote a row changes it, or a request takes it away.
LEMMA RowsFit ==
  ASSUME StructInv, NEW r \in Requests, RequestStep(r), NEW new \in rows'
  PROVE  RowFits(new)'
<1>0. \A q \in Requests \ {r} : at'[q] = at[q] /\ op'[q] = op[q] /\ book'[q] = book[q]
  BY OthersWait
<1>. USE RequestsAssumption DEF StructInv, TypeOK, Goes, Starts, Finds, stored, request, RequestFits,
     Removals, Conversions
<1>1. ASSUME NEW row \in rows, row.id # r PROVE RowFits(row)'
  <2>1. faulty => faulty'
    BY DEF RequestStep, Proceeds, CreateUpload, ListByBook, RequestKEPUBConversion, Fails,
       FindByChecksumGlobal, Recognize, GetUserBook, UpsertUserBook, EnsureTag, FindByChecksum,
       Copy, InsertFile, Inserts, DeleteByUserBook, CountByStorageKey, DeleteObject,
       DeleteUserBook, DeleteOrphanedBook, FindKEPUB, DeleteKEPUB, ResolveSourceFile,
       ResolveCanonicalKEPUB, InsertShared, InsertPlaceholder, ConvertAndPut, ConversionFails,
       UpdateAfterConversion
  <2>. QED
    <3>1. CASE row.id \in Requests
      <4>1. /\ at'[row.id] = at[row.id] /\ op'[row.id] = op[row.id]
            /\ book'[row.id] = book[row.id]
        BY <1>0, <1>1, <3>1
      <4>. QED
        BY <2>1, <3>1, <4>1 DEF RowFits
    <3>2. CASE row.id \notin Requests
      BY <3>2 DEF RowFits
    <3>. QED
      BY <3>1, <3>2
<1>2. CASE new \in rows /\ new.id # r
  BY <1>1, <1>2
<1>3. ASSUME NEW row \in rows, row.id = r PROVE at[r] \in {"convert", "update", "done", "failed"}
  BY <1>3 DEF RowFits
<1>4. CASE InsertFile(r)
  <2>1. ASSUME NEW row \in rows PROVE row.id # r
    BY <1>3, <1>4 DEF InsertFile
  <2>2. new \in rows \/ (new = NewRow(r, "epub", "ready", FALSE) /\ at'[r] = "done")
    BY <1>4, ZenonT(30) DEF InsertFile, Inserts
  <2>3. op[r] # "convert" /\ UNCHANGED <<op, book>>
    BY <1>4 DEF InsertFile
  <2>4. ASSUME at'[r] = "done" PROVE RowFits(NewRow(r, "epub", "ready", FALSE))'
    BY <2>3, <2>4 DEF NewRow, RowFits
  <2>. QED
    BY <1>2, <2>1, <2>2, <2>3, <2>4 DEF NewRow
<1>5. CASE InsertShared(r)
  <2>1. ASSUME NEW row \in rows PROVE row.id # r
    BY <1>3, <1>5 DEF InsertShared
  <2>2. new \in rows \/ (new = NewRow(r, "kepub", "ready", TRUE) /\ at'[r] = "done")
    BY <1>5, ZenonT(40) DEF InsertShared, Inserts
  <2>3. op[r] = "convert" /\ UNCHANGED <<op, book>>
    BY <1>5 DEF InsertShared
  <2>4. ASSUME at'[r] = "done" PROVE RowFits(NewRow(r, "kepub", "ready", TRUE))'
    BY <2>3, <2>4 DEF NewRow, RowFits
  <2>. QED
    BY <1>2, <2>1, <2>2, <2>3, <2>4 DEF NewRow
<1>6. CASE InsertPlaceholder(r)
  <2>1. ASSUME NEW row \in rows PROVE row.id # r
    BY <1>3, <1>6 DEF InsertPlaceholder
  <2>2. new \in rows \/ (new = NewRow(r, "kepub", "converting", FALSE) /\ at'[r] = "convert")
    BY <1>6, ZenonT(30) DEF InsertPlaceholder, Inserts
  <2>3. op[r] = "convert" /\ UNCHANGED <<op, book>>
    BY <1>6 DEF InsertPlaceholder
  <2>4. ASSUME at'[r] = "convert" PROVE RowFits(NewRow(r, "kepub", "converting", FALSE))'
    BY <2>3, <2>4 DEF NewRow, RowFits
  <2>. QED
    BY <1>2, <2>1, <2>2, <2>3, <2>4 DEF NewRow
<1>7. CASE ConvertAndPut(r) \/ Fails(r)
  <2>1. CASE new.id = r
    BY <1>3, <1>7, <2>1, ZenonT(60) DEF ConvertAndPut, Fails, InFlight, RowFits, Row
  <2>. QED
    BY <1>2, <1>7, <2>1 DEF ConvertAndPut, Fails
<1>8. ASSUME NEW status \in {"ready", "failed"}, Sets(r, status),
             at[r] \in {"convert", "update"}, UNCHANGED <<op, book, faulty>>,
             at'[r] = IF status = "ready" THEN "done" ELSE "failed"
      PROVE  RowFits(new)'
  <2>1. PICK row \in rows :
          new = IF row.id = r
                THEN [row EXCEPT !.status = status, !.current = (status = "ready")] ELSE row
    BY <1>8 DEF Sets
  <2>2. CASE row.id # r
    BY <1>1, <2>1, <2>2
  <2>3. CASE row.id = r
    <3>1. /\ new.id = r /\ new.book = row.book /\ new.user = row.user
          /\ new.format = row.format /\ new.status = status /\ new.current = (status = "ready")
      BY <2>1, <2>3, ZenonT(30) DEF Row
    <3>2. row.format = "kepub" /\ row.book = book[r] /\ row.user = UserOf[r] /\ op[r] = "convert"
      BY <1>8, <2>3 DEF RowFits
    <3>. QED
      BY <1>8, <3>1, <3>2 DEF RowFits
  <2>. QED
    BY <2>2, <2>3
<1>9. CASE ConversionFails(r) \/ UpdateAfterConversion(r)
  BY <1>8, <1>9 DEF ConversionFails, UpdateAfterConversion
<1>10. CASE /\ rows' \subseteq rows
            /\ at[r] \notin {"convert", "update", "done", "failed"}
  BY <1>2, <1>3, <1>10
<1>. QED
  <2>1. CASE CreateUpload(r) \/ ListByBook(r) \/ RequestKEPUBConversion(r)
             \/ FindByChecksumGlobal(r) \/ Recognize(r) \/ GetUserBook(r)
             \/ UpsertUserBook(r) \/ EnsureTag(r)
             \/ FindByChecksum(r) \/ Copy(r)
    BY <1>10, <2>1 DEF CreateUpload, ListByBook, RequestKEPUBConversion,
       FindByChecksumGlobal, Recognize, GetUserBook, UpsertUserBook, EnsureTag, FindByChecksum,
       Copy
  <2>2. CASE DeleteByUserBook(r) \/ CountByStorageKey(r) \/ DeleteUserBook(r)
             \/ DeleteOrphanedBook(r) \/ FindKEPUB(r) \/ DeleteKEPUB(r) \/ ResolveSourceFile(r)
             \/ ResolveCanonicalKEPUB(r)
    BY <1>10, <2>2 DEF DeleteByUserBook, CountByStorageKey, DeleteUserBook,
       DeleteOrphanedBook, FindKEPUB, DeleteKEPUB, ResolveSourceFile, ResolveCanonicalKEPUB
  <2>3. CASE DeleteObject(r)
    BY <1>10, <2>3, DeletingIs DEF DeleteObject, Formats
  <2>. QED
    BY <1>4, <1>5, <1>6, <1>7, <1>9, <2>1, <2>2, <2>3 DEF RequestStep, Proceeds

LEMMA StructStep ==
  ASSUME StructInv, [Next]_vars
  PROVE  StructInv'
<1>1. TypeOK'
  BY TypeStep
<1>2. CASE UNCHANGED vars
  BY <1>1, <1>2 DEF vars, request, stored, StructInv, RequestFits, RowFits
<1>3. CASE Restart
  <2>1. \A r \in Requests : RequestFits(r)'
    BY <1>3 DEF Restart, InFlight, StructInv, TypeOK, RequestFits, Removals, Conversions, stored
  <2>2. ASSUME NEW row \in rows PROVE RowFits(row)'
    BY <1>3, <2>2 DEF Restart, InFlight, StructInv, TypeOK, RowFits, stored
  <2>. QED
    BY <1>1, <1>3, <2>1, <2>2 DEF Restart, stored, StructInv
<1>4. ASSUME NEW r \in Requests, RequestStep(r) PROVE StructInv'
  <2>1. \A q \in Requests : RequestFits(q)'
    BY <1>4, RequestsFit, OthersWait DEF StructInv, RequestFits
  <2>. QED
    BY <1>1, <1>4, <2>1, RowsFit DEF StructInv
<1>. QED
  BY <1>2, <1>3, <1>4 DEF Next, Step

-----------------------------------------------------------------------------
(* What a step leaves alone. *)

RowsOf(b) == {row \in rows : row.book = b}

LEMMA DoneIsDone ==
  ASSUME NEW r \in Requests, RequestStep(r)
  PROVE  at[r] \notin {"done", "failed"}
BY DeletingIs DEF RequestStep, Proceeds, CreateUpload, ListByBook, RequestKEPUBConversion,
   Fails, FindByChecksumGlobal, Recognize, GetUserBook, UpsertUserBook, EnsureTag,
   FindByChecksum, Copy, InsertFile, DeleteByUserBook, CountByStorageKey, DeleteObject,
   DeleteUserBook, DeleteOrphanedBook, FindKEPUB, DeleteKEPUB, ResolveSourceFile,
   ResolveCanonicalKEPUB, InsertShared, InsertPlaceholder, ConvertAndPut, ConversionFails,
   UpdateAfterConversion, InFlight, Goes, Starts, Formats

\* A request that does not work on a book gives it no row and no object.
LEMMA WithoutWork ==
  ASSUME StructInv, NEW r \in Requests, RequestStep(r), NEW b,
         op[r] = "remove" \/ book[r] # b \/ ~InFlight(r)
  PROVE  /\ RowsOf(b)' \subseteq RowsOf(b)
         /\ \A f : <<b, f>> \in objects' => <<b, f>> \in objects
<1>. USE DEF StructInv, TypeOK, Goes, Starts, Finds, stored, request, RequestFits, Removals,
     Conversions, RowsOf, InFlight
<1>1. CASE CreateUpload(r) \/ ListByBook(r) \/ RequestKEPUBConversion(r)
           \/ FindByChecksumGlobal(r) \/ Recognize(r) \/ GetUserBook(r) \/ UpsertUserBook(r)
           \/ EnsureTag(r) \/ FindByChecksum(r)
           \/ ResolveSourceFile(r) \/ ResolveCanonicalKEPUB(r) \/ Fails(r)
  BY <1>1 DEF CreateUpload, ListByBook, RequestKEPUBConversion, FindByChecksumGlobal,
     Recognize, GetUserBook, UpsertUserBook, EnsureTag, FindByChecksum, ResolveSourceFile,
     ResolveCanonicalKEPUB, Fails
<1>2. CASE DeleteByUserBook(r) \/ CountByStorageKey(r) \/ DeleteUserBook(r)
           \/ DeleteOrphanedBook(r) \/ FindKEPUB(r) \/ DeleteKEPUB(r)
  BY <1>2 DEF DeleteByUserBook, CountByStorageKey, DeleteUserBook, DeleteOrphanedBook,
     FindKEPUB, DeleteKEPUB
<1>3. CASE DeleteObject(r)
  BY <1>3 DEF DeleteObject
<1>4. CASE Copy(r) \/ ConvertAndPut(r)
  BY <1>4 DEF Copy, ConvertAndPut
<1>5. CASE InsertFile(r) \/ InsertShared(r) \/ InsertPlaceholder(r)
  <2>1. book[r] # b /\ UNCHANGED objects
    BY <1>5 DEF InsertFile, InsertShared, InsertPlaceholder
  <2>2. \E row : rows' \subseteq rows \cup {row} /\ row.book # b
    <3>1. \A format, status, current : NewRow(r, format, status, current).book # b
      BY <2>1 DEF NewRow
    <3>2. \E format, status, current :
            rows' \subseteq rows \cup {NewRow(r, format, status, current)}
      BY <1>5 DEF InsertFile, InsertShared, InsertPlaceholder, Inserts
    <3>3. PICK format, status, current :
            rows' \subseteq rows \cup {NewRow(r, format, status, current)}
      BY <3>2
    <3>. DEFINE row == NewRow(r, format, status, current)
    <3>4. rows' \subseteq rows \cup {row} /\ row.book # b
      BY <3>1, <3>3
    <3>. HIDE DEF row
    <3>. QED
      BY <3>4
  <2>. QED
    BY <2>1, <2>2
<1>6. CASE ConversionFails(r) \/ UpdateAfterConversion(r)
  <2>1. book[r] # b
    BY <1>6 DEF ConversionFails, UpdateAfterConversion
  <2>2. ASSUME NEW row \in rows, row.id = r PROVE row.book # b
    BY <2>1, <2>2 DEF RowFits
  <2>3. ASSUME NEW status \in {"ready", "failed"}, Sets(r, status), NEW new \in rows', new.book = b
        PROVE  new \in rows
    <3>1. PICK row \in rows :
            new = IF row.id = r
                  THEN [row EXCEPT !.status = status, !.current = (status = "ready")] ELSE row
      BY <2>3 DEF Sets
    <3>. QED
      BY <2>2, <2>3, <3>1 DEF Row
  <2>. QED
    BY <1>6, <2>3 DEF ConversionFails, UpdateAfterConversion
<1>. QED
  BY <1>1, <1>2, <1>3, <1>4, <1>5, <1>6 DEF RequestStep, Proceeds

\* One that does not remove a book takes no EPUB row, object or library entry
\* from it.
LEMMA WithoutRemoval ==
  ASSUME StructInv, NEW r \in Requests, RequestStep(r), NEW b,
         op[r] # "remove" \/ book[r] # b
  PROVE  /\ \A row \in RowsOf(b) : row.format = "epub" => row \in rows'
         /\ \A f : <<b, f>> \in objects => <<b, f>> \in objects'
         /\ \A u : <<u, b>> \in library => <<u, b>> \in library'
<1>. USE DEF StructInv, TypeOK, Goes, Starts, Finds, stored, request, RequestFits, Removals,
     Conversions, RowsOf, InFlight
<1>1. CASE CreateUpload(r) \/ ListByBook(r) \/ RequestKEPUBConversion(r)
           \/ FindByChecksumGlobal(r) \/ Recognize(r) \/ GetUserBook(r) \/ UpsertUserBook(r)
           \/ EnsureTag(r) \/ FindByChecksum(r)
           \/ ResolveSourceFile(r) \/ ResolveCanonicalKEPUB(r) \/ Fails(r)
  BY <1>1 DEF CreateUpload, ListByBook, RequestKEPUBConversion, FindByChecksumGlobal,
     Recognize, GetUserBook, UpsertUserBook, EnsureTag, FindByChecksum, ResolveSourceFile,
     ResolveCanonicalKEPUB, Fails
<1>2. CASE DeleteByUserBook(r) \/ CountByStorageKey(r) \/ DeleteOrphanedBook(r)
  BY <1>2 DEF DeleteByUserBook, CountByStorageKey, DeleteOrphanedBook, ByUserBook
<1>3. CASE DeleteUserBook(r)
  BY <1>3 DEF DeleteUserBook, Mine
<1>4. CASE DeleteObject(r)
  <2>1. at[r] \in {"delete epub", "delete kepub"}
    BY <1>4, DeletingIs DEF DeleteObject, Formats
  <2>. QED
    BY <1>4, <2>1 DEF DeleteObject
<1>5. CASE FindKEPUB(r) \/ DeleteKEPUB(r)
  BY <1>5 DEF FindKEPUB, DeleteKEPUB, Own, ByBookAndFormat
<1>6. CASE Copy(r) \/ ConvertAndPut(r)
  BY <1>6 DEF Copy, ConvertAndPut
<1>7. CASE InsertFile(r) \/ InsertShared(r) \/ InsertPlaceholder(r)
  BY <1>7 DEF InsertFile, InsertShared, InsertPlaceholder, Inserts
<1>8. CASE ConversionFails(r) \/ UpdateAfterConversion(r)
  <2>1. op[r] = "convert"
    BY <1>8 DEF ConversionFails, UpdateAfterConversion
  <2>2. \A row \in rows : row.format = "epub" => row.id # r
    BY <2>1 DEF RowFits
  <2>3. ASSUME NEW status \in {"ready", "failed"}, Sets(r, status),
               NEW row \in rows, row.format = "epub"
        PROVE  row \in rows'
    BY <2>2, <2>3 DEF Sets
  <2>. QED
    BY <1>8, <2>3 DEF ConversionFails, UpdateAfterConversion
<1>. QED
  BY <1>1, <1>2, <1>3, <1>4, <1>5, <1>6, <1>7, <1>8 DEF RequestStep, Proceeds

\* While a book that was not removed under other requests is removed, no
\* request works on it.
LEMMA NoClash ==
  ASSUME Clash, NEW b \in Books, b \notin clashed',
         NEW r \in Requests, NEW q \in Requests
  PROVE  /\ b \notin clashed
         /\ InFlight(r) /\ InFlight(q) /\ book[r] = b /\ book[q] = b =>
              (op[r] = "remove" <=> op[q] = "remove")
         /\ (InFlight(r) /\ InFlight(q) /\ book[r] = b /\ book[q] = b =>
              (op[r] = "remove" <=> op[q] = "remove"))'
<1>1. ~Clashes(b) /\ ~Clashes(b)' /\ b \notin clashed
  BY DEF Clash
<1>. QED
  BY <1>1 DEF Clashes

-----------------------------------------------------------------------------
(* What requests know stays true. *)

LEMMA KnowledgeInitially ==
  ASSUME Init
  PROVE  KnowledgeInv
<1>1. ReadyFilesAreStored /\ FilesAreInTheLibrary
  <2>1. CASE rows = {}
    BY <2>1 DEF ReadyFilesAreStored, FilesAreInTheLibrary
  <2>2. ASSUME NEW u \in Users, NEW formats,
               rows = {[id |-> "seed", user |-> u, book |-> FirstBook, format |-> f,
                        status |-> "ready", current |-> FALSE] : f \in formats},
               objects = {FirstBook} \X formats, library = {<<u, FirstBook>>}
        PROVE  ReadyFilesAreStored /\ FilesAreInTheLibrary
    BY <2>2 DEF ReadyFilesAreStored, FilesAreInTheLibrary, KeyOf
  <2>3. CASE rows # {}
    <3>1. PICK u \in Users, formats \in {{"epub"}, Formats}, b \in {FirstBook} :
            /\ rows = {[id |-> "seed", user |-> u, book |-> b, format |-> f,
                        status |-> "ready", current |-> FALSE] : f \in formats}
            /\ objects = {b} \X formats /\ library = {<<u, b>>}
      BY <2>3 DEF Init
    <3>2. b = FirstBook
      OBVIOUS
    <3>. QED
      BY <2>2, <3>1, <3>2, ZenonT(30)
  <2>. QED
    BY <2>1, <2>3
<1>2. ASSUME NEW r \in Requests PROVE at[r] = "new" /\ op[r] = "none"
  BY DEF Init
<1>3. \A f \in Formats : Deleting[f] # "new"
  BY DeletingIs DEF Formats
<1>. QED
  BY <1>1, <1>2, <1>3 DEF KnowledgeInv, Knows, RemovalKnows, UploadKnows, ConversionKnows,
     Removals, Conversions

\* What a request knows that does not take the step: others that remove the
\* book add nothing to it, others that work on it take nothing away.
LEMMA OthersKnow ==
  ASSUME StructInv, StructInv', KnowledgeInv, Clash,
         NEW r \in Requests, RequestStep(r), NEW q \in Requests \ {r}
  PROVE  Knows(q)'
<1>1. at'[q] = at[q] /\ op'[q] = op[q] /\ book'[q] = book[q] /\ todo'[q] = todo[q]
  BY OthersWait
<1>. SUFFICES ASSUME NEW b, b = book[q], b \notin clashed', InFlight(q)
              PROVE  (RemovalKnows(q) /\ UploadKnows(q) /\ ConversionKnows(q))'
  <2>1. ~InFlight(q) => (RemovalKnows(q) /\ UploadKnows(q) /\ ConversionKnows(q))'
    BY <1>1, DeletingIs DEF InFlight, RemovalKnows, UploadKnows, ConversionKnows, Removals,
       Conversions, Formats
  <2>. QED
    BY <1>1, <2>1 DEF Knows
<1>2. CASE b \notin Books
  BY <1>1, <1>2, DeletingIs DEF StructInv, RequestFits, InFlight, RemovalKnows, UploadKnows,
     ConversionKnows, Removals, Conversions, Formats
<1>3. ASSUME b \in Books
      PROVE  /\ b \notin clashed
             /\ InFlight(r) /\ book[r] = b => (op[r] = "remove" <=> op[q] = "remove")
  BY <1>3, NoClash
<1>4. CASE b \in Books /\ op[q] = "remove"
  <2>1. RowsOf(b)' \subseteq RowsOf(b)
    <3>1. op[r] = "remove" \/ book[r] # b \/ ~InFlight(r)
      BY <1>3, <1>4
    <3>. QED
      BY <3>1, WithoutWork
  <2>2. RemovalKnows(q)
    BY <1>3, <1>4 DEF KnowledgeInv, Knows
  <2>3. ByUserBook(UserOf[q], b)' \subseteq ByUserBook(UserOf[q], b)
        /\ \A f : ByStorageKey(<<b, f>>)' \subseteq ByStorageKey(<<b, f>>)
    BY <2>1 DEF RowsOf, ByUserBook, ByStorageKey, KeyOf
  <2>4. RemovalKnows(q)'
    BY <1>1, <2>2, <2>3 DEF RemovalKnows
  <2>5. at[q] \in Removals
    BY <1>4 DEF StructInv, RequestFits, InFlight
  <2>. QED
    BY <1>1, <1>4, <2>4, <2>5 DEF UploadKnows, ConversionKnows, Removals, Conversions
<1>5. CASE b \in Books /\ op[q] # "remove"
  <2>1. /\ \A row \in RowsOf(b) : row.format = "epub" => row \in rows'
        /\ \A f : <<b, f>> \in objects => <<b, f>> \in objects'
        /\ \A u : <<u, b>> \in library => <<u, b>> \in library'
    <3>1. CASE op[r] # "remove" \/ book[r] # b
      BY <3>1, WithoutRemoval
    <3>2. CASE op[r] = "remove" /\ book[r] = b
      <4>1. ~InFlight(r)
        BY <1>3, <1>5, <3>2
      <4>. QED
        BY <3>2, <4>1, DoneIsDone DEF StructInv, RequestFits, InFlight, Removals
    <3>. QED
      BY <3>1, <3>2
  <2>2. UploadKnows(q) /\ ConversionKnows(q)
    BY <1>3, <1>5 DEF KnowledgeInv, Knows
  <2>3. Own(q, "epub") # {} => Own(q, "epub")' # {}
    BY <1>1, <2>1 DEF Own, ByBookAndFormat, RowsOf
  <2>4. UploadKnows(q)' /\ ConversionKnows(q)'
    BY <1>1, <2>1, <2>2, <2>3 DEF UploadKnows, ConversionKnows, Mine
  <2>5. at[q] \notin Removals /\ \A f \in Formats : at[q] # Deleting[f]
    BY <1>5, DeletingIs, ZenonT(30) DEF StructInv, RequestFits, Removals, Conversions, Formats
  <2>. QED
    BY <1>1, <2>4, <2>5 DEF RemovalKnows, Removals
<1>. QED
  BY <1>2, <1>4, <1>5

\* What the request knows that takes the step.
LEMMA RemovalLearns ==
  ASSUME StructInv, NEW r \in Requests, RemovalKnows(r),
         \/ ListByBook(r) \/ DeleteByUserBook(r) \/ CountByStorageKey(r)
         \/ DeleteObject(r) \/ DeleteUserBook(r) \/ DeleteOrphanedBook(r)
  PROVE  (RemovalKnows(r) /\ UploadKnows(r) /\ ConversionKnows(r))'
<1>. USE DeletingIs DEF StructInv, TypeOK, Goes, Starts, Finds, stored, Formats
<1>1. at'[r] \in Removals \cup {"done"} /\ op'[r] = "remove"
  <2>1. CASE CountByStorageKey(r)
    <3>1. PICK f \in todo[r] : Goes(r, "sweep", IF ByStorageKey(<<book[r], f>>) = {}
                                                THEN Deleting[f] ELSE "sweep")
      BY <2>1 DEF CountByStorageKey
    <3>2. todo[r] \in SUBSET Formats
      OBVIOUS
    <3>3. f = "epub" \/ f = "kepub"
      BY <3>2
    <3>4. op[r] = "remove"
      BY <3>1 DEF RequestFits, Conversions
    <3>. QED
      BY <2>1, <3>1, <3>3, <3>4 DEF CountByStorageKey, Removals
  <2>. QED
    BY <2>1, ZenonT(30) DEF ListByBook, DeleteByUserBook, DeleteObject, DeleteUserBook,
       DeleteOrphanedBook, RequestFits, Removals, Conversions
<1>2. UploadKnows(r)' /\ ConversionKnows(r)'
  BY <1>1 DEF UploadKnows, ConversionKnows, Removals, Conversions
<1>3. CASE ListByBook(r)
  <2>1. PICK b \in Books :
          /\ Starts(r, "remove", "delete rows") /\ Finds(r, b)
          /\ todo' = [todo EXCEPT ![r] =
               {f \in Formats : \E row \in ByUserBook(UserOf[r], b) :
                  row.format = f /\ row.status = "ready"}]
    BY <1>3 DEF ListByBook
  <2>2. at'[r] = "delete rows" /\ book'[r] = b /\ UNCHANGED rows
        /\ todo'[r] = {f \in Formats : \E row \in ByUserBook(UserOf[r], b) :
                                          row.format = f /\ row.status = "ready"}
    BY <1>3, <2>1 DEF ListByBook
  <2>3. \A row \in rows : row.format \in Formats
    BY DEF Row
  <2>. QED
    BY <1>2, <2>2, <2>3 DEF RemovalKnows, ByUserBook
<1>4. CASE DeleteByUserBook(r)
  <2>1. ByUserBook(UserOf[r], book[r])' = {}
    BY <1>4 DEF DeleteByUserBook, ByUserBook
  <2>. QED
    BY <1>2, <1>4, <2>1 DEF DeleteByUserBook, RemovalKnows
<1>5. CASE CountByStorageKey(r)
  <2>1. PICK f \in todo[r] : Goes(r, "sweep", IF ByStorageKey(<<book[r], f>>) = {}
                                                THEN Deleting[f] ELSE "sweep")
    BY <1>5 DEF CountByStorageKey
  <2>2. todo[r] \in SUBSET Formats
    OBVIOUS
  <2>3. f = "epub" \/ f = "kepub"
    BY <2>2
  <2>4. UNCHANGED <<rows, book>> /\ at[r] = "sweep"
    BY <1>5, <2>1 DEF CountByStorageKey
  <2>5. \A g \in Formats : at'[r] = Deleting[g] => ByStorageKey(<<book[r], g>>) = {}
    BY <2>1, <2>3
  <2>6. ByUserBook(UserOf[r], book[r]) = {}
    BY <2>4 DEF RemovalKnows, Removals
  <2>7. at'[r] # "delete rows"
    BY <2>1, <2>3
  <2>. QED
    BY <1>2, <2>4, <2>5, <2>6, <2>7, ZenonT(30) DEF RemovalKnows, ByStorageKey, ByUserBook
<1>6. CASE DeleteObject(r) \/ DeleteUserBook(r)
  <2>1. UNCHANGED <<rows, book>> /\ at[r] \in Removals \ {"delete rows"}
        /\ at'[r] \in {"sweep", "orphan"}
    BY <1>6 DEF DeleteObject, DeleteUserBook, Removals
  <2>. QED
    BY <1>2, <2>1 DEF RemovalKnows, ByUserBook
<1>7. CASE DeleteOrphanedBook(r)
  BY <1>2, <1>7 DEF DeleteOrphanedBook, RemovalKnows, Removals
<1>. QED
  BY <1>3, <1>4, <1>5, <1>6, <1>7

LEMMA UploadLearns ==
  ASSUME StructInv, NEW r \in Requests, RequestFits(r)', book'[r] \notin clashed,
         ReadyFilesAreStored, book[r] \notin clashed => UploadKnows(r),
         \/ CreateUpload(r) \/ FindByChecksumGlobal(r) \/ Recognize(r) \/ GetUserBook(r)
         \/ UpsertUserBook(r) \/ EnsureTag(r)
         \/ FindByChecksum(r) \/ Copy(r) \/ InsertFile(r)
  PROVE  (RemovalKnows(r) /\ UploadKnows(r) /\ ConversionKnows(r))'
<1>. USE DeletingIs DEF StructInv, TypeOK, Goes, Starts, Finds, stored, Formats
<1>1. op'[r] \in {"upload", "duplicate"}
  <2>1. CASE CreateUpload(r)
    BY <2>1 DEF CreateUpload
  <2>2. CASE FindByChecksumGlobal(r)
    <3>1. op[r] = "upload"
      BY <2>2 DEF FindByChecksumGlobal, RequestFits, Removals, Conversions
    <3>. QED
      BY <2>2, <3>1 DEF FindByChecksumGlobal
  <2>3. ASSUME at[r] \in {"load", "own", "enter", "tag", "dedup", "copy", "insert"}, op' = op
        PROVE  op'[r] \in {"upload", "duplicate"}
    BY <2>3 DEF RequestFits, Removals, Conversions
  <2>4. CASE Recognize(r) \/ GetUserBook(r) \/ UpsertUserBook(r) \/ EnsureTag(r)
             \/ FindByChecksum(r) \/ Copy(r) \/ InsertFile(r)
    BY <2>3, <2>4 DEF Recognize, GetUserBook, UpsertUserBook, EnsureTag, FindByChecksum, Copy,
       InsertFile
  <2>. QED
    BY <2>1, <2>2, <2>4
<1>2. (RemovalKnows(r) /\ ConversionKnows(r))'
  BY <1>1 DEF RequestFits, RemovalKnows, ConversionKnows, Removals, Conversions
<1>3. CASE CreateUpload(r) \/ Recognize(r) \/ InsertFile(r)
  <2>1. at'[r] \notin {"dedup", "copy", "insert"}
    BY <1>3, ZenonT(40) DEF CreateUpload, Recognize, InsertFile, Inserts
  <2>2. at'[r] \in {"own", "enter", "tag", "dedup"} => op'[r] = "upload"
    BY <1>3 DEF CreateUpload, Recognize, InsertFile, Inserts, RequestFits, Removals,
       Conversions
  <2>. QED
    BY <1>2, <2>1, <2>2 DEF UploadKnows
<1>4. CASE FindByChecksumGlobal(r)
  <2>1. CASE op'[r] = "upload"
    BY <1>2, <1>4, <2>1 DEF FindByChecksumGlobal, UploadKnows
  <2>2. CASE op'[r] = "duplicate"
    <3>0. op[r] = "upload"
      BY <1>4 DEF FindByChecksumGlobal, RequestFits, Removals, Conversions
    <3>1. PICK row \in ByChecksum : book'[r] = row.book
      BY <1>4, <2>2, <3>0 DEF FindByChecksumGlobal
    <3>2. row \in rows /\ row.format = "epub" /\ row.status = "ready"
      BY <3>1 DEF ByChecksum, RowFits
    <3>3. <<row.book, "epub">> \in objects
      BY <3>1, <3>2 DEF ReadyFilesAreStored, KeyOf
    <3>. QED
      BY <1>2, <1>4, <3>1, <3>3 DEF FindByChecksumGlobal, UploadKnows
  <2>. QED
    BY <1>1, <2>1, <2>2
<1>5. CASE GetUserBook(r) \/ UpsertUserBook(r) \/ EnsureTag(r)
  BY <1>2, <1>5 DEF GetUserBook, UpsertUserBook, EnsureTag, UploadKnows, Mine
<1>6. CASE FindByChecksum(r)
  <2>1. UNCHANGED <<op, book, objects, library>> /\ at[r] = "dedup"
    BY <1>6 DEF FindByChecksum
  <2>2. UploadKnows(r)
    BY <2>1
  <2>3. at'[r] = "insert" => op[r] # "upload"
    BY <1>6 DEF FindByChecksum
  <2>4. op[r] \in {"upload", "duplicate"} /\ at'[r] \notin {"own", "enter", "tag", "dedup"}
    BY <1>6, <1>1, <2>1 DEF FindByChecksum
  <2>. QED
    BY <1>2, <2>1, <2>2, <2>3, <2>4 DEF UploadKnows, Mine
<1>7. CASE Copy(r)
  BY <1>2, <1>7 DEF Copy, UploadKnows, Mine
<1>. QED
  BY <1>3, <1>4, <1>5, <1>6, <1>7

LEMMA ConversionLearns ==
  ASSUME StructInv, NEW r \in Requests, RequestFits(r)', book'[r] \notin clashed,
         ReadyFilesAreStored, FilesAreInTheLibrary,
         book[r] \notin clashed => ConversionKnows(r),
         \/ RequestKEPUBConversion(r) \/ FindKEPUB(r) \/ DeleteKEPUB(r) \/ ResolveSourceFile(r)
         \/ ResolveCanonicalKEPUB(r) \/ InsertShared(r) \/ InsertPlaceholder(r)
         \/ ConvertAndPut(r) \/ ConversionFails(r) \/ UpdateAfterConversion(r)
  PROVE  (RemovalKnows(r) /\ UploadKnows(r) /\ ConversionKnows(r))'
<1>. USE DeletingIs DEF StructInv, TypeOK, Goes, Starts, Finds, stored, Formats
<1>1. op'[r] = "convert"
  <2>1. CASE RequestKEPUBConversion(r)
    BY <2>1 DEF RequestKEPUBConversion
  <2>2. ASSUME at[r] \in Conversions, op' = op PROVE op'[r] = "convert"
    BY <2>2 DEF RequestFits, Removals, Conversions
  <2>3. CASE FindKEPUB(r) \/ DeleteKEPUB(r) \/ ResolveSourceFile(r) \/ ResolveCanonicalKEPUB(r)
             \/ InsertShared(r) \/ InsertPlaceholder(r) \/ ConvertAndPut(r)
             \/ ConversionFails(r) \/ UpdateAfterConversion(r)
    BY <2>2, <2>3 DEF FindKEPUB, DeleteKEPUB, ResolveSourceFile, ResolveCanonicalKEPUB,
       InsertShared, InsertPlaceholder, ConvertAndPut, ConversionFails, UpdateAfterConversion,
       Conversions
  <2>. QED
    BY <2>1, <2>3
<1>2. (RemovalKnows(r) /\ UploadKnows(r))'
  BY <1>1 DEF RequestFits, RemovalKnows, UploadKnows, Removals, Conversions
<1>3. CASE RequestKEPUBConversion(r)
  <2>1. PICK b \in Books : ByBookAndFormat(UserOf[r], b, "epub") # {} /\ Finds(r, b)
    BY <1>3 DEF RequestKEPUBConversion
  <2>2. book'[r] = b /\ at'[r] = "ensure" /\ UNCHANGED <<rows, library>>
    BY <1>3, <2>1 DEF RequestKEPUBConversion
  <2>3. <<UserOf[r], b>> \in library
    BY <2>1, <2>2 DEF ByBookAndFormat, FilesAreInTheLibrary
  <2>. QED
    BY <1>2, <2>1, <2>2, <2>3 DEF ConversionKnows, Own, Mine, ByBookAndFormat
<1>4. CASE FindKEPUB(r) \/ DeleteKEPUB(r) \/ ResolveSourceFile(r) \/ InsertPlaceholder(r)
           \/ ConvertAndPut(r)
           \/ ResolveCanonicalKEPUB(r)
  <2>1. UNCHANGED <<book, library>> /\ at[r] \in Conversions
    BY <1>4 DEF FindKEPUB, DeleteKEPUB, ResolveSourceFile, InsertPlaceholder, ConvertAndPut,
       ResolveCanonicalKEPUB, Conversions
  <2>2. Mine(r) \in library /\ Own(r, "epub") # {}
    BY <2>1 DEF ConversionKnows
  <2>3. \A row \in rows : row.format = "epub" => row \in rows'
    <3>1. CASE FindKEPUB(r) \/ DeleteKEPUB(r)
      BY <3>1 DEF FindKEPUB, DeleteKEPUB, Own, ByBookAndFormat
    <3>. QED
      BY <1>4, <3>1 DEF ResolveSourceFile, InsertPlaceholder, Inserts, ConvertAndPut,
         ResolveCanonicalKEPUB
  <2>4. Mine(r)' \in library' /\ Own(r, "epub")' # {}
    BY <2>1, <2>2, <2>3 DEF Mine, Own, ByBookAndFormat
  <2>5. CASE FindKEPUB(r) \/ DeleteKEPUB(r) \/ ResolveSourceFile(r) \/ InsertPlaceholder(r)
    <3>1. at'[r] \notin {"share", "update"}
      <4>1. CASE FindKEPUB(r) \/ DeleteKEPUB(r)
        BY <4>1 DEF FindKEPUB, DeleteKEPUB
      <4>2. CASE ResolveSourceFile(r)
        BY <4>2 DEF ResolveSourceFile
      <4>. QED
        BY <2>5, <4>1, <4>2 DEF InsertPlaceholder, Inserts
    <3>. QED
      BY <1>2, <2>4, <3>1 DEF ConversionKnows
  <2>6. CASE ConvertAndPut(r)
    BY <1>2, <2>4, <2>6 DEF ConversionKnows, ConvertAndPut
  <2>7. CASE ResolveCanonicalKEPUB(r)
    <3>1. at'[r] = "share" => \E row \in ByStorageKey(<<book[r], "kepub">>) : row.current
      BY <2>7 DEF ResolveCanonicalKEPUB
    <3>2. at'[r] = "share" => <<book[r], "kepub">> \in objects
      BY <2>1, <3>1 DEF ByStorageKey, KeyOf, ReadyFilesAreStored
    <3>3. at'[r] # "update"
      BY <2>7 DEF ResolveCanonicalKEPUB
    <3>. QED
      BY <1>2, <2>1, <2>4, <2>7, <3>2, <3>3 DEF ConversionKnows, ResolveCanonicalKEPUB
  <2>. QED
    BY <1>4, <2>5, <2>6, <2>7
<1>5. CASE InsertShared(r) \/ ConversionFails(r) \/ UpdateAfterConversion(r)
  <2>1. at'[r] \in {"done", "failed"}
    BY <1>5 DEF InsertShared, Inserts, ConversionFails, UpdateAfterConversion
  <2>. QED
    BY <1>2, <2>1 DEF ConversionKnows, Conversions
<1>. QED
  BY <1>3, <1>4, <1>5

LEMMA ActorLearns ==
  ASSUME StructInv, StructInv', KnowledgeInv, Clash, NEW r \in Requests, RequestStep(r)
  PROVE  Knows(r)'
<1>. SUFFICES ASSUME book'[r] \notin clashed'
              PROVE  (RemovalKnows(r) /\ UploadKnows(r) /\ ConversionKnows(r))'
  BY DEF Knows
<1>1. book'[r] \notin clashed
  BY DEF Clash
<1>2. RequestFits(r)'
  BY DEF StructInv
<1>3. ReadyFilesAreStored /\ FilesAreInTheLibrary
      /\ (book[r] \notin clashed => RemovalKnows(r) /\ UploadKnows(r) /\ ConversionKnows(r))
  BY DEF KnowledgeInv, Knows
<1>4. CASE ListByBook(r)
  <2>1. RemovalKnows(r)
    BY <1>4, DeletingIs DEF ListByBook, Starts, Goes, RemovalKnows, Removals, Formats
  <2>. QED
    BY <1>4, <2>1, RemovalLearns
<1>5. CASE DeleteByUserBook(r) \/ CountByStorageKey(r) \/ DeleteObject(r)
           \/ DeleteUserBook(r) \/ DeleteOrphanedBook(r)
  <2>1. book' = book
    BY <1>5 DEF DeleteByUserBook, CountByStorageKey, DeleteObject, DeleteUserBook,
       DeleteOrphanedBook
  <2>. QED
    BY <1>1, <1>3, <1>5, <2>1, RemovalLearns
<1>6. CASE CreateUpload(r) \/ FindByChecksumGlobal(r) \/ Recognize(r) \/ GetUserBook(r)
           \/ UpsertUserBook(r) \/ EnsureTag(r)
           \/ FindByChecksum(r) \/ Copy(r) \/ InsertFile(r)
  BY <1>1, <1>2, <1>3, <1>6, UploadLearns
<1>7. CASE RequestKEPUBConversion(r) \/ FindKEPUB(r) \/ DeleteKEPUB(r) \/ ResolveSourceFile(r)
           \/ ResolveCanonicalKEPUB(r) \/ InsertShared(r) \/ InsertPlaceholder(r)
           \/ ConvertAndPut(r) \/ ConversionFails(r) \/ UpdateAfterConversion(r)
  BY <1>1, <1>2, <1>3, <1>7, ConversionLearns
<1>8. CASE Fails(r)
  <2>1. at'[r] = "done"
    BY <1>8 DEF Fails, StructInv, TypeOK
  <2>. QED
    BY <2>1, DeletingIs DEF RemovalKnows, UploadKnows, ConversionKnows, Removals, Conversions,
       Formats
<1>. QED
  BY <1>4, <1>5, <1>6, <1>7, <1>8 DEF RequestStep, Proceeds

\* A ready row is either an old ready row or was written by a request that
\* knows its object is there.
LEMMA StoredStep ==
  ASSUME StructInv, KnowledgeInv, Clash, NEW r \in Requests, RequestStep(r)
  PROVE  ReadyFilesAreStored'
<1>. SUFFICES ASSUME NEW new \in rows', new.status = "ready", new.book \notin clashed'
              PROVE  KeyOf(new) \in objects'
  BY DEF ReadyFilesAreStored, KeyOf
<1>. USE DEF StructInv, TypeOK, Goes, stored
<1>1. CASE op[r] # "remove" \/ book[r] # new.book
  <2>1. CASE new \in rows
    <3>1. KeyOf(new) \in objects
      BY <2>1, NoClash DEF KnowledgeInv, ReadyFilesAreStored, Clash
    <3>. QED
      BY <1>1, <3>1, WithoutRemoval DEF KeyOf
  <2>2. CASE new \notin rows
    <3>1. new.book = book[r] /\ InFlight(r) /\ op[r] # "remove"
      BY <2>2, WithoutWork DEF RowsOf
    <3>2. book[r] \notin clashed
      BY <3>1 DEF Clash
    <3>3. UploadKnows(r) /\ ConversionKnows(r)
      BY <3>2 DEF KnowledgeInv, Knows
    <3>4. CASE InsertFile(r)
      <4>1. new = NewRow(r, "epub", "ready", FALSE) /\ at[r] = "insert"
        BY <2>2, <3>4 DEF InsertFile, Inserts
      <4>. QED
        BY <3>3, <3>4, <4>1 DEF InsertFile, UploadKnows, NewRow, KeyOf
    <3>5. CASE InsertShared(r)
      <4>1. new = NewRow(r, "kepub", "ready", TRUE) /\ at[r] = "share"
        BY <2>2, <3>5 DEF InsertShared, Inserts
      <4>. QED
        BY <3>3, <3>5, <4>1 DEF InsertShared, ConversionKnows, Conversions, NewRow, KeyOf
    <3>6. CASE UpdateAfterConversion(r)
      <4>1. PICK row \in rows :
              new = IF row.id = r
                    THEN [row EXCEPT !.status = "ready", !.current = ("ready" = "ready")]
                    ELSE row
        BY <3>6 DEF UpdateAfterConversion, Sets
      <4>2. row.id = r /\ at[r] = "update"
        BY <2>2, <3>6, <4>1 DEF UpdateAfterConversion
      <4>3. row.format = "kepub" /\ new.format = row.format
        <5>1. op[r] = "convert"
          BY <4>2 DEF RequestFits, Removals
        <5>2. row.format = "kepub"
          BY <4>2, <5>1 DEF RowFits
        <5>. QED
          BY <4>1, <4>2, <5>2 DEF Row
      <4>. QED
        BY <3>1, <3>3, <3>6, <4>2, <4>3
        DEF UpdateAfterConversion, ConversionKnows, Conversions, KeyOf
    <3>7. CASE ConversionFails(r)
      <4>1. PICK row \in rows :
              new = IF row.id = r
                    THEN [row EXCEPT !.status = "failed", !.current = ("failed" = "ready")]
                    ELSE row
        BY <3>7 DEF ConversionFails, Sets
      <4>. QED
        BY <2>2, <4>1 DEF Row
    <3>8. CASE InsertPlaceholder(r)
      <4>1. new = NewRow(r, "kepub", "converting", FALSE)
        BY <2>2, <3>8 DEF InsertPlaceholder, Inserts
      <4>. QED
        BY <4>1 DEF NewRow
    <3>9. CASE rows' \subseteq rows
      BY <2>2, <3>9
    <3>. QED
      BY <3>4, <3>5, <3>6, <3>7, <3>8, <3>9 DEF RequestStep, Proceeds, CreateUpload, ListByBook,
         RequestKEPUBConversion, Fails, FindByChecksumGlobal, Recognize, GetUserBook,
         UpsertUserBook, EnsureTag, FindByChecksum, Copy, DeleteByUserBook, CountByStorageKey,
         DeleteObject, DeleteUserBook, DeleteOrphanedBook, FindKEPUB, DeleteKEPUB,
         ResolveSourceFile, ResolveCanonicalKEPUB, ConvertAndPut
  <2>. QED
    BY <2>1, <2>2
<1>2. CASE op[r] = "remove" /\ book[r] = new.book
  <2>1. new \in rows
    BY <1>2, WithoutWork DEF RowsOf
  <2>2. new.book \in Books /\ new.format \in Formats /\ new.book \notin clashed
    BY <2>1 DEF Row, Clash
  <2>3. KeyOf(new) \in objects /\ RemovalKnows(r)
    BY <1>2, <2>1, <2>2 DEF KnowledgeInv, ReadyFilesAreStored, Knows
  <2>4. CASE objects \subseteq objects'
    BY <2>3, <2>4
  <2>5. CASE DeleteObject(r)
    <3>1. PICK f \in Formats :
            /\ at[r] = Deleting[f]
            /\ objects' = objects \ {<<book[r], f>>} \/ UNCHANGED objects
      BY <2>5 DEF DeleteObject
    <3>2. ByStorageKey(<<book[r], f>>) = {}
      BY <2>3, <3>1 DEF RemovalKnows
    <3>3. new.format # f
      BY <1>2, <2>1, <3>2 DEF ByStorageKey, KeyOf
    <3>. QED
      BY <2>3, <3>1, <3>3 DEF KeyOf
  <2>. QED
    BY <2>4, <2>5 DEF RequestStep, Proceeds, CreateUpload, ListByBook,
       RequestKEPUBConversion, Fails, FindByChecksumGlobal, Recognize, GetUserBook,
       UpsertUserBook, EnsureTag, FindByChecksum, Copy, InsertFile, DeleteByUserBook,
       CountByStorageKey, DeleteUserBook, DeleteOrphanedBook, FindKEPUB, DeleteKEPUB,
       ResolveSourceFile, ResolveCanonicalKEPUB, InsertShared, InsertPlaceholder, ConvertAndPut,
       ConversionFails, UpdateAfterConversion
<1>. QED
  BY <1>1, <1>2

LEMMA LibraryStep ==
  ASSUME StructInv, KnowledgeInv, Clash, NEW r \in Requests, RequestStep(r)
  PROVE  FilesAreInTheLibrary'
<1>. SUFFICES ASSUME NEW new \in rows', new.book \notin clashed'
              PROVE  <<new.user, new.book>> \in library'
  BY DEF FilesAreInTheLibrary
<1>. USE DEF StructInv, TypeOK, Goes, stored
<1>1. CASE op[r] # "remove" \/ book[r] # new.book
  <2>1. <<new.user, new.book>> \in library
    <3>1. CASE \E row \in rows : row.user = new.user /\ row.book = new.book
      BY <3>1 DEF KnowledgeInv, FilesAreInTheLibrary, Clash, Row
    <3>2. CASE \A row \in rows : row.user # new.user \/ row.book # new.book
      <4>1. new \notin rows
        BY <3>2
      <4>2. new.book = book[r] /\ InFlight(r) /\ op[r] # "remove" /\ book[r] \notin clashed
        BY <4>1, WithoutWork DEF RowsOf, Clash
      <4>3. UploadKnows(r) /\ ConversionKnows(r)
        BY <4>2 DEF KnowledgeInv, Knows
      <4>4. ASSUME NEW status, Sets(r, status) PROVE FALSE
        <5>1. PICK row \in rows :
                new = IF row.id = r
                      THEN [row EXCEPT !.status = status, !.current = (status = "ready")]
                      ELSE row
          BY <4>4 DEF Sets
        <5>. QED
          BY <3>2, <5>1 DEF Row
      <4>5. CASE InsertFile(r)
        <5>1. new = NewRow(r, "epub", "ready", FALSE) /\ at[r] = "insert"
          BY <4>1, <4>5 DEF InsertFile, Inserts
        <5>. QED
          BY <4>3, <5>1 DEF UploadKnows, NewRow, Mine
      <4>6. CASE InsertShared(r) \/ InsertPlaceholder(r)
        <5>1. new.user = UserOf[r] /\ new.book = book[r]
          <6>1. PICK status \in {"ready", "converting"}, current \in BOOLEAN :
                  new = NewRow(r, "kepub", status, current)
            BY <4>1, <4>6 DEF InsertShared, InsertPlaceholder, Inserts
          <6>. QED
            BY <6>1 DEF NewRow
        <5>. QED
          BY <4>3, <4>6, <5>1 DEF InsertShared, InsertPlaceholder, ConversionKnows,
             Conversions, Mine
      <4>7. CASE rows' \subseteq rows
        BY <4>1, <4>7
      <4>. QED
        BY <4>4, <4>5, <4>6, <4>7 DEF RequestStep, Proceeds, CreateUpload, ListByBook,
           RequestKEPUBConversion, Fails, FindByChecksumGlobal, Recognize, GetUserBook,
           UpsertUserBook, EnsureTag, FindByChecksum, Copy, DeleteByUserBook,
           CountByStorageKey, DeleteObject, DeleteUserBook, DeleteOrphanedBook, FindKEPUB,
           DeleteKEPUB, ResolveSourceFile, ResolveCanonicalKEPUB, ConvertAndPut,
           ConversionFails, UpdateAfterConversion
    <3>. QED
      BY <3>1, <3>2
  <2>. QED
    BY <1>1, <2>1, WithoutRemoval
<1>2. CASE op[r] = "remove" /\ book[r] = new.book
  <2>1. new \in rows
    BY <1>2, WithoutWork DEF RowsOf
  <2>2. new.book \notin clashed
    BY <2>1 DEF Row, Clash
  <2>3. <<new.user, new.book>> \in library /\ RemovalKnows(r)
    BY <1>2, <2>1, <2>2 DEF KnowledgeInv, FilesAreInTheLibrary, Knows
  <2>4. CASE library \subseteq library'
    BY <2>3, <2>4
  <2>5. CASE DeleteUserBook(r)
    <3>1. ByUserBook(UserOf[r], book[r]) = {} /\ library' = library \ {Mine(r)}
      BY <2>3, <2>5 DEF DeleteUserBook, RemovalKnows, Removals
    <3>2. new.user # UserOf[r]
      BY <1>2, <2>1, <3>1 DEF ByUserBook
    <3>. QED
      BY <2>3, <3>1, <3>2 DEF Mine
  <2>. QED
    BY <2>4, <2>5 DEF RequestStep, Proceeds, CreateUpload, ListByBook,
       RequestKEPUBConversion, Fails, FindByChecksumGlobal, Recognize, GetUserBook,
       UpsertUserBook, EnsureTag, FindByChecksum, Copy, InsertFile, DeleteByUserBook,
       CountByStorageKey, DeleteObject, DeleteOrphanedBook, FindKEPUB, DeleteKEPUB,
       ResolveSourceFile, ResolveCanonicalKEPUB, InsertShared, InsertPlaceholder, ConvertAndPut,
       ConversionFails, UpdateAfterConversion
<1>. QED
  BY <1>1, <1>2

\* All that is known and stored is kept when the process stops.
LEMMA StopsKeep ==
  ASSUME StructInv, UNCHANGED stored, UNCHANGED <<op, book, todo>>,
         \A r \in Requests : at'[r] = at[r] \/ at'[r] = "done",
         clashed \subseteq clashed', KnowledgeInv
  PROVE  KnowledgeInv'
<1>1. ReadyFilesAreStored' /\ FilesAreInTheLibrary'
  BY DEF KnowledgeInv, ReadyFilesAreStored, FilesAreInTheLibrary, stored, KeyOf
<1>2. ASSUME NEW r \in Requests PROVE Knows(r)'
  <2>1. CASE at'[r] = at[r]
    <3>1. Knows(r) /\ UNCHANGED <<rows, objects, library>>
      BY DEF KnowledgeInv, stored
    <3>2. (RemovalKnows(r) => RemovalKnows(r)') /\ (UploadKnows(r) => UploadKnows(r)')
      BY <2>1, <3>1 DEF RemovalKnows, UploadKnows, Mine, ByUserBook, ByStorageKey, KeyOf
    <3>3. ConversionKnows(r) => ConversionKnows(r)'
      BY <2>1, <3>1 DEF ConversionKnows, Mine, Own, ByBookAndFormat
    <3>. QED
      BY <3>1, <3>2, <3>3 DEF Knows
  <2>2. CASE at'[r] = "done"
    BY <2>2, DeletingIs DEF Knows, RemovalKnows, UploadKnows, ConversionKnows, Removals,
       Conversions, Formats
  <2>. QED
    BY <2>1, <2>2
<1>. QED
  BY <1>1, <1>2 DEF KnowledgeInv

LEMMA KnowledgeStep ==
  ASSUME StructInv, StructInv', KnowledgeInv, [Next]_vars
  PROVE  KnowledgeInv'
<1>1. CASE UNCHANGED vars
  <2>1. UNCHANGED stored /\ UNCHANGED <<at, op, book, todo, clashed>>
    BY <1>1 DEF vars, request
  <2>. QED
    BY <2>1, StopsKeep
<1>2. CASE Restart /\ Clash
  <2>1. UNCHANGED stored /\ UNCHANGED <<op, book, todo>> /\ clashed \subseteq clashed'
        /\ \A r \in Requests : at'[r] = at[r] \/ at'[r] = "done"
    BY <1>2 DEF Restart, Clash
  <2>. QED
    BY <2>1, StopsKeep
<1>3. ASSUME NEW r \in Requests, RequestStep(r), Clash PROVE KnowledgeInv'
  <2>1. ASSUME NEW q \in Requests PROVE Knows(q)'
    BY <1>3, ActorLearns, OthersKnow
  <2>. QED
    BY <1>3, <2>1, StoredStep, LibraryStep DEF KnowledgeInv
<1>. QED
  BY <1>1, <1>2, <1>3 DEF Next, Step

-----------------------------------------------------------------------------
(* No object is forgotten. *)

LEMMA CareInitially ==
  ASSUME Init
  PROVE  CareInv
<1>1. \A r \in Requests : at[r] = "new"
  BY DEF Init
<1>2. ASSUME NEW k \in objects PROVE Cared(k)
  <2>1. PICK u \in Users, formats \in {{"epub"}, Formats}, b \in {FirstBook} :
          /\ rows = {[id |-> "seed", user |-> u, book |-> b, format |-> f,
                      status |-> "ready", current |-> FALSE] : f \in formats}
          /\ objects = {b} \X formats
    BY <1>2 DEF Init
  <2>2. k = <<k[1], k[2]>> /\ k[1] = b /\ k[2] \in formats
    BY <1>2, <2>1
  <2>. DEFINE row == [id |-> "seed", user |-> u, book |-> b, format |-> k[2],
                      status |-> "ready", current |-> FALSE]
  <2>3. row \in rows
    BY <2>1, <2>2
  <2>4. k[2] = "epub" \/ k[2] = "kepub"
    BY <2>1, <2>2 DEF Formats
  <2>5. row \in ByStorageKey(k) /\ (k[2] = "kepub" => row \in ByBookAndFormat(u, k[1], "kepub"))
    BY <2>2, <2>3 DEF ByStorageKey, KeyOf, ByBookAndFormat
  <2>. QED
    BY <2>4, <2>5 DEF Cared, KepubCared
<1>. QED
  BY <1>1, <1>2 DEF CareInv

\* A KEPUB row is kept, turned into another one or taken by a conversion of
\* the same user, except by a removal of that user.
LEMMA KepubStaysCared ==
  ASSUME StructInv, StructInv', KnowledgeInv, Clash, NEW r \in Requests, RequestStep(r),
         ~faulty', NEW u \in Users, NEW b \in Books, b \notin clashed, KepubCared(u, b),
         ~(DeleteByUserBook(r) /\ Mine(r) = <<u, b>>)
  PROVE  KepubCared(u, b)'
<1>0. \A q \in Requests \ {r} : at'[q] = at[q] /\ book'[q] = book[q]
  BY OthersWait
<1>. USE DEF StructInv, TypeOK, Goes, stored, request
<1>1. ASSUME NEW row \in ByBookAndFormat(u, b, "kepub") PROVE KepubCared(u, b)'
  <2>1. row \in rows /\ row.user = u /\ row.book = b /\ row.format = "kepub"
    BY <1>1 DEF ByBookAndFormat
  <2>2. CASE row \in rows'
    BY <2>1, <2>2 DEF KepubCared, ByBookAndFormat
  <2>3. CASE DeleteKEPUB(r) /\ row \notin rows'
    <3>1. row \in Own(r, "kepub") /\ at'[r] = "source" /\ UNCHANGED book
      BY <2>1, <2>3, ZenonT(30) DEF DeleteKEPUB
    <3>2. UserOf[r] = u /\ book[r] = b
      BY <2>1, <3>1 DEF Own, ByBookAndFormat
    <3>. QED
      BY <3>1, <3>2 DEF KepubCared, Mine
  <2>4. ASSUME NEW status \in {"ready", "failed"}, Sets(r, status) PROVE KepubCared(u, b)'
    <3>. DEFINE new == IF row.id = r
                       THEN [row EXCEPT !.status = status, !.current = (status = "ready")]
                       ELSE row
    <3>1. new \in rows'
      BY <2>1, <2>4, ZenonT(30) DEF Sets
    <3>2. new.user = u /\ new.book = b /\ new.format = "kepub"
      BY <2>1, ZenonT(30) DEF Row
    <3>. QED
      BY <3>1, <3>2 DEF KepubCared, ByBookAndFormat
  <2>5. CASE DeleteByUserBook(r)
    <3>1. row \notin ByUserBook(UserOf[r], book[r])
      BY <2>1, <2>5 DEF ByUserBook, Mine
    <3>. QED
      BY <2>1, <2>2, <2>5, <3>1 DEF DeleteByUserBook
  <2>6. CASE DeleteOrphanedBook(r)
    <3>1. <<u, b>> \in library
      BY <2>1 DEF KnowledgeInv, FilesAreInTheLibrary
    <3>2. row \in rows'
      <4>1. CASE book[r] = b
        BY <2>1, <2>6, <3>1, <4>1 DEF DeleteOrphanedBook
      <4>2. CASE book[r] # b
        <5>1. rows' = rows \/ rows' = {other \in rows : other.book # book[r]}
          BY <2>6 DEF DeleteOrphanedBook
        <5>. QED
          BY <2>1, <4>2, <5>1
      <4>. QED
        BY <4>1, <4>2
    <3>. QED
      BY <2>2, <3>2
  <2>7. CASE rows \subseteq rows'
    BY <2>1, <2>2, <2>7
  <2>. QED
    BY <2>2, <2>3, <2>4, <2>5, <2>6, <2>7 DEF RequestStep, Proceeds, CreateUpload, ListByBook,
       RequestKEPUBConversion, Fails, FindByChecksumGlobal, Recognize, GetUserBook,
       UpsertUserBook, EnsureTag, FindByChecksum, Copy, InsertFile, Inserts, CountByStorageKey,
       DeleteObject, DeleteUserBook, FindKEPUB, ResolveSourceFile, ResolveCanonicalKEPUB,
       InsertShared, InsertPlaceholder, ConvertAndPut, ConversionFails, UpdateAfterConversion
<1>2. ASSUME NEW q \in Requests, Mine(q) = <<u, b>>,
             at[q] \in {"source", "canonical", "share", "placeholder"}
      PROVE  KepubCared(u, b)'
  <2>1. CASE q # r
    BY <1>0, <1>2, <2>1 DEF KepubCared, Mine
  <2>2. ASSUME q = r, at'[r] \in {"canonical", "share", "placeholder"}, book' = book
        PROVE  KepubCared(u, b)'
    BY <1>2, <2>2 DEF KepubCared, Mine
  <2>3. CASE q = r /\ ResolveSourceFile(r)
    <3>1. Own(r, "epub") # {}
      BY <1>2, <2>3 DEF Mine, KnowledgeInv, Knows, ConversionKnows, Conversions
    <3>. QED
      BY <2>2, <2>3, <3>1 DEF ResolveSourceFile
  <2>4. CASE q = r /\ ResolveCanonicalKEPUB(r)
    BY <2>2, <2>4, ZenonT(30) DEF ResolveCanonicalKEPUB
  <2>5. CASE q = r /\ (InsertShared(r) \/ InsertPlaceholder(r))
    <3>1. PICK status \in {"ready", "converting"}, current \in BOOLEAN :
            NewRow(r, "kepub", status, current) \in rows'
      BY <2>5 DEF InsertShared, InsertPlaceholder, Inserts
    <3>2. NewRow(r, "kepub", status, current).user = u
          /\ NewRow(r, "kepub", status, current).book = b
          /\ NewRow(r, "kepub", status, current).format = "kepub"
      BY <1>2, <2>5 DEF NewRow, Mine
    <3>. QED
      BY <3>1, <3>2 DEF KepubCared, ByBookAndFormat
  <2>. QED
    BY <1>2, <2>1, <2>3, <2>4, <2>5, DeletingIs DEF RequestStep, Proceeds, CreateUpload,
       ListByBook, RequestKEPUBConversion, Fails, FindByChecksumGlobal, Recognize, GetUserBook,
       UpsertUserBook, EnsureTag, FindByChecksum, Copy, InsertFile, DeleteByUserBook,
       CountByStorageKey, DeleteObject, DeleteUserBook, DeleteOrphanedBook, FindKEPUB,
       DeleteKEPUB, ConvertAndPut, ConversionFails, UpdateAfterConversion, Starts, Formats
<1>. QED
  BY <1>1, <1>2 DEF KepubCared

\* A conversion that will write a row, or has written one, is cared for.
LEMMA ConvertingIsCared ==
  ASSUME StructInv, StructInv', KnowledgeInv, CareInv, Clash, NEW r \in Requests, RequestStep(r),
         ~faulty, ~faulty', NEW q \in Requests, at'[q] \in {"convert", "update"},
         NEW b, b = book'[q], b \notin clashed'
  PROVE  KepubCared(UserOf[q], b)'
<1>1. b \in Books /\ op'[q] = "convert"
  BY DEF StructInv, RequestFits, Removals
<1>2. b \notin clashed /\ UserOf[q] \in Users
  BY <1>1, RequestsAssumption DEF Clash
<1>3. CASE at[q] \in {"convert", "update"} /\ book[q] = b
  <2>1. KepubCared(UserOf[q], b)
    BY <1>2, <1>3 DEF CareInv
  <2>2. InFlight(q) /\ op[q] = "convert"
    BY <1>3 DEF InFlight, StructInv, RequestFits, Removals
  <2>3. ~(DeleteByUserBook(r) /\ Mine(r) = <<UserOf[q], b>>)
    <3>1. SUFFICES ASSUME DeleteByUserBook(r), book[r] = b PROVE FALSE
      BY DEF Mine
    <3>2. InFlight(r) /\ op[r] = "remove"
      BY <3>1 DEF DeleteByUserBook, Goes, InFlight, StructInv, RequestFits, Conversions
    <3>. QED
      BY <1>1, <1>3, <2>2, <3>1, <3>2, NoClash
  <2>. QED
    BY <1>1, <1>2, <2>1, <2>3, KepubStaysCared
<1>4. CASE q # r
  BY <1>3, <1>4, OthersWait
<1>5. CASE q = r /\ at[q] \notin {"convert", "update"}
  <2>. USE DEF Goes, stored, request
  <2>1. CASE InsertPlaceholder(r)
    <3>1. NewRow(r, "kepub", "converting", FALSE) \in rows' /\ book[r] = b
      BY <1>5, <2>1 DEF InsertPlaceholder, Inserts
    <3>2. /\ NewRow(r, "kepub", "converting", FALSE).user = UserOf[r]
          /\ NewRow(r, "kepub", "converting", FALSE).book = b
          /\ NewRow(r, "kepub", "converting", FALSE).format = "kepub"
      BY <3>1 DEF NewRow
    <3>. QED
      BY <1>5, <3>1, <3>2 DEF KepubCared, ByBookAndFormat
  <2>2. \A to : at' = [at EXCEPT ![r] = to] => at'[r] = to
    BY DEF StructInv, TypeOK
  <2>3. CASE CountByStorageKey(r)
    <3>1. at[r] = "sweep" /\ UNCHANGED op
      BY <2>3 DEF CountByStorageKey
    <3>. QED
      BY <1>1, <1>5, <3>1 DEF StructInv, RequestFits, Conversions
  <2>4. at'[r] \in {"convert", "update"}
    BY <1>5
  <2>. QED
    BY <1>5, <2>1, <2>2, <2>3, <2>4 DEF RequestStep, Proceeds, CreateUpload, ListByBook,
       RequestKEPUBConversion, Fails, FindByChecksumGlobal, Recognize, GetUserBook,
       UpsertUserBook, EnsureTag, FindByChecksum, Copy, InsertFile, Inserts, DeleteByUserBook,
       DeleteObject, DeleteUserBook, DeleteOrphanedBook, FindKEPUB, DeleteKEPUB,
       ResolveSourceFile, ResolveCanonicalKEPUB, InsertShared, ConvertAndPut, ConversionFails,
       UpdateAfterConversion, Starts
<1>6. CASE q = r /\ at[q] \in {"convert", "update"}
  <2>1. book[q] = b
    BY <1>6, DeletingIs DEF RequestStep, Proceeds, CreateUpload, ListByBook,
       RequestKEPUBConversion, Fails, FindByChecksumGlobal, Recognize, GetUserBook,
       UpsertUserBook, EnsureTag, FindByChecksum, Copy, InsertFile, DeleteByUserBook,
       CountByStorageKey, DeleteObject, DeleteUserBook, DeleteOrphanedBook, FindKEPUB,
       DeleteKEPUB, ResolveSourceFile, ResolveCanonicalKEPUB, InsertShared, InsertPlaceholder,
       ConvertAndPut, ConversionFails, UpdateAfterConversion, Starts, Goes, Formats
  <2>. QED
    BY <1>3, <1>6, <2>1
<1>. QED
  BY <1>4, <1>5, <1>6

LEMMA KeyIs ==
  ASSUME NEW k \in Keys
  PROVE  k = <<k[1], k[2]>> /\ k[1] \in Books /\ k[2] \in {"epub", "kepub"}
<1>1. k \in Books \X Formats
  BY DEF Keys
<1>2. Formats = {"epub", "kepub"}
  BY DEF Formats
<1>3. k = <<k[1], k[2]>> /\ k[1] \in Books /\ k[2] \in Formats
  BY <1>1
<1>. QED
  BY <1>2, <1>3

\* The removal that is to take an object away goes on until it has counted
\* the rows of its key.
LEMMA SweepGoesOn ==
  ASSUME StructInv, NEW r \in Requests, RequestStep(r), ~faulty',
         NEW q \in Requests, NEW k \in objects, k \in objects', Sweeps(q, k)
  PROVE  Cared(k)'
<1>0. k = <<k[1], k[2]>> /\ k[2] \in {"epub", "kepub"}
  BY KeyIs DEF StructInv, TypeOK
<1>1. CASE q # r
  BY <1>1, OthersWait DEF Sweeps, Cared
<1>2. CASE q = r
  <2>. USE DEF StructInv, TypeOK, Goes, stored
  <2>1. k = <<book[r], k[2]>> /\ k[1] = book[r] /\ k[2] \in {"epub", "kepub"}
    <3>1. k = <<k[1], k[2]>> /\ k[2] \in {"epub", "kepub"}
      BY <1>0
    <3>2. book[r] = k[1]
      BY <1>2 DEF Sweeps
    <3>. QED
      BY <3>1, <3>2
  <2>2. at[r] \in Removals /\ at[r] # "orphan"
    BY <1>2, <2>1, DeletingIs DEF Sweeps, Removals
  <2>3. CASE DeleteByUserBook(r)
    BY <1>2, <2>1, <2>3, DeletingIs DEF DeleteByUserBook, Sweeps, Cared, Removals
  <2>4. CASE CountByStorageKey(r)
    <3>1. PICK f \in todo[r] :
            /\ at[r] = "sweep"
            /\ at' = [at EXCEPT ![r] = IF ByStorageKey(<<book[r], f>>) = {} THEN Deleting[f]
                                       ELSE "sweep"]
            /\ todo' = [todo EXCEPT ![r] = @ \ {f}]
      BY <2>4 DEF CountByStorageKey
    <3>2. UNCHANGED <<book, rows>>
      BY <2>4 DEF CountByStorageKey
    <3>3. k[2] \in todo[r]
      BY <1>2, <2>1, <3>1, DeletingIs DEF Sweeps
    <3>4. todo[r] \in SUBSET Formats
      OBVIOUS
    <3>5. CASE f # k[2]
      <4>1. at'[r] \in Removals \ {"orphan"}
        BY <3>1, <3>4, DeletingIs DEF Formats, Removals
      <4>. QED
        BY <1>2, <2>1, <3>1, <3>2, <3>3, <3>5, <4>1 DEF Sweeps, Cared
    <3>6. CASE f = k[2] /\ ByStorageKey(k) = {}
      <4>1. at'[r] = Deleting[k[2]]
        BY <2>1, <3>1, <3>6
      <4>. QED
        BY <1>2, <2>1, <3>2, <4>1 DEF Sweeps, Cared
    <3>7. CASE f = k[2] /\ ByStorageKey(k) # {}
      <4>1. PICK row \in rows : row.status = "ready" /\ <<row.book, row.format>> = k
        BY <3>7 DEF ByStorageKey, KeyOf
      <4>2. row.user \in Users /\ row \in rows' /\ row.book = k[1] /\ row.format = k[2]
        BY <3>2, <4>1 DEF Row
      <4>4. row \in ByStorageKey(k)'
        BY <4>1, <4>2 DEF ByStorageKey, KeyOf
      <4>3. k[2] = "kepub" => KepubCared(row.user, k[1])'
        BY <4>2 DEF KepubCared, ByBookAndFormat
      <4>. QED
        BY <2>1, <4>2, <4>3, <4>4 DEF Cared
    <3>. QED
      BY <3>5, <3>6, <3>7
  <2>5. CASE DeleteObject(r)
    <3>1. PICK f \in Formats : at[r] = Deleting[f] /\ at' = [at EXCEPT ![r] = "sweep"]
                               /\ objects' = objects \ {<<book[r], f>>}
      BY <2>5 DEF DeleteObject
    <3>2. f # k[2]
      BY <2>1, <3>1
    <3>3. k[2] \in todo[r] /\ UNCHANGED <<todo, book>>
      BY <1>2, <2>1, <2>5, <3>1, <3>2, DeletingIs DEF Sweeps, DeleteObject, Formats
    <3>. QED
      BY <1>2, <2>1, <3>1, <3>3 DEF Sweeps, Cared, Removals
  <2>6. CASE DeleteUserBook(r)
    BY <1>2, <2>1, <2>6, DeletingIs DEF DeleteUserBook, Sweeps
  <2>. QED
    BY <2>2, <2>3, <2>4, <2>5, <2>6 DEF RequestStep, Proceeds, CreateUpload, ListByBook,
       RequestKEPUBConversion, Fails, FindByChecksumGlobal, Recognize, GetUserBook,
       UpsertUserBook, EnsureTag, FindByChecksum, Copy, InsertFile, DeleteOrphanedBook,
       FindKEPUB, DeleteKEPUB, ResolveSourceFile, ResolveCanonicalKEPUB, InsertShared,
       InsertPlaceholder, ConvertAndPut, ConversionFails, UpdateAfterConversion, Starts,
       Removals
<1>. QED
  BY <1>1, <1>2

\* The last ready row of an EPUB goes with a removal that listed its key.
LEMMA EpubStaysCared ==
  ASSUME StructInv, KnowledgeInv, NEW r \in Requests, RequestStep(r),
         NEW k \in objects, k[2] = "epub", k[1] \notin clashed, ByStorageKey(k) # {}
  PROVE  Cared(k)'
<1>0. k = <<k[1], k[2]>> /\ k[1] \in Books
  BY KeyIs DEF StructInv, TypeOK
<1>1. PICK row \in rows : row.status = "ready" /\ <<row.book, row.format>> = k
  BY DEF ByStorageKey, KeyOf
<1>2. row.book = k[1] /\ row.format = "epub"
  BY <1>1
<1>3. ASSUME row \in rows' PROVE Cared(k)'
  <2>1. row \in ByStorageKey(k)'
    BY <1>1, <1>3 DEF ByStorageKey, KeyOf
  <2>. QED
    BY <2>1 DEF Cared
<1>4. CASE op[r] # "remove" \/ book[r] # k[1]
  <2>1. row \in RowsOf(k[1])
    BY <1>2 DEF RowsOf
  <2>2. row \in rows'
    BY <1>2, <1>4, <2>1, WithoutRemoval
  <2>. QED
    BY <1>3, <2>2
<1>5. CASE op[r] = "remove" /\ book[r] = k[1]
  <2>. USE DEF Goes, stored
  <2>1. CASE DeleteByUserBook(r)
    <3>1. CASE row.user # UserOf[r]
      <4>1. row \in rows'
        BY <2>1, <3>1 DEF DeleteByUserBook, ByUserBook
      <4>. QED
        BY <1>3, <4>1
    <3>2. CASE row.user = UserOf[r]
      <4>1. RemovalKnows(r) /\ at[r] = "delete rows"
        BY <1>5, <2>1 DEF KnowledgeInv, Knows, DeleteByUserBook
      <4>2. row \in ByUserBook(UserOf[r], book[r])
        BY <1>2, <1>5, <3>2 DEF ByUserBook
      <4>3. "epub" \in todo[r]
        BY <1>1, <1>2, <4>1, <4>2 DEF RemovalKnows
      <4>4. at'[r] = "sweep" /\ UNCHANGED <<book, todo>>
        BY <2>1 DEF DeleteByUserBook, StructInv, TypeOK
      <4>. QED
        BY <1>5, <4>3, <4>4 DEF Cared, Sweeps, Removals
    <3>. QED
      BY <3>1, <3>2
  <2>2. CASE DeleteOrphanedBook(r)
    <3>1. <<row.user, k[1]>> \in library /\ row.user \in Users
      BY <1>2 DEF KnowledgeInv, FilesAreInTheLibrary, StructInv, TypeOK, Row
    <3>2. rows' = rows
      BY <1>5, <2>2, <3>1 DEF DeleteOrphanedBook
    <3>. QED
      BY <1>3, <3>2
  <2>3. CASE rows \subseteq rows'
    BY <1>3, <2>3
  <2>4. ASSUME at[r] \notin Removals \cup {"done"} PROVE FALSE
    BY <1>5, <2>4 DEF StructInv, RequestFits
  <2>. QED
    BY <2>1, <2>2, <2>3, <2>4 DEF RequestStep, Proceeds, CreateUpload, ListByBook,
       RequestKEPUBConversion, Fails, FindByChecksumGlobal, Recognize, GetUserBook,
       UpsertUserBook, EnsureTag, FindByChecksum, Copy, InsertFile, Inserts, CountByStorageKey,
       DeleteObject, DeleteUserBook, FindKEPUB, DeleteKEPUB, ResolveSourceFile,
       ResolveCanonicalKEPUB, InsertShared, InsertPlaceholder, ConvertAndPut, ConversionFails,
       UpdateAfterConversion, Removals
<1>. QED
  BY <1>4, <1>5

\* A removal that takes the rows of a KEPUB has its key on the list, and found
\* no conversion under way.
LEMMA KepubIsSwept ==
  ASSUME StructInv, KnowledgeInv, Clash, NEW r \in Requests, DeleteByUserBook(r), ~faulty,
         NEW b \in Books, book[r] = b, b \notin clashed', NoFailed(b),
         KepubCared(UserOf[r], b)
  PROVE  "kepub" \in todo[r]
<1>1. InFlight(r) /\ op[r] = "remove" /\ at[r] = "delete rows"
  BY DEF DeleteByUserBook, Goes, InFlight, StructInv, RequestFits, Conversions
<1>2. \A q \in Requests : InFlight(q) /\ book[q] = b => op[q] = "remove"
  BY <1>1, NoClash
<1>3. \A q \in Requests : at[q] \in Conversions => book[q] # b
  BY <1>2 DEF InFlight, StructInv, RequestFits, Conversions, Removals
<1>4. PICK row \in rows : row.user = UserOf[r] /\ row.book = b /\ row.format = "kepub"
  BY <1>3 DEF KepubCared, ByBookAndFormat, Mine, Conversions
<1>5. row.status = "ready"
  <2>1. RowFits(row) /\ row.status \in {"ready", "converting", "failed"}
    BY DEF StructInv, TypeOK, Row
  <2>2. ASSUME row.status = "converting" PROVE FALSE
    BY <1>3, <1>4, <2>1, <2>2 DEF RowFits, Conversions
  <2>3. ASSUME row.status = "failed" PROVE FALSE
    BY <1>4, <2>1, <2>3 DEF RowFits, NoFailed
  <2>. QED
    BY <2>1, <2>2, <2>3
<1>6. RemovalKnows(r)
  BY DEF KnowledgeInv, Knows, Clash
<1>. QED
  BY <1>1, <1>4, <1>5, <1>6 DEF RemovalKnows, ByUserBook

LEMMA CareStep ==
  ASSUME StructInv, StructInv', KnowledgeInv, CareInv, Clash, NEW r \in Requests, RequestStep(r)
  PROVE  CareInv'
<1>. SUFFICES ASSUME ~faulty' PROVE CareInv'
  BY DEF CareInv
<1>1. ~faulty
  BY DEF RequestStep, Proceeds, CreateUpload, ListByBook, RequestKEPUBConversion, Fails,
     FindByChecksumGlobal, Recognize, GetUserBook, UpsertUserBook, EnsureTag, FindByChecksum,
     Copy, InsertFile, Inserts, DeleteByUserBook, CountByStorageKey, DeleteObject,
     DeleteUserBook, DeleteOrphanedBook, FindKEPUB, DeleteKEPUB, ResolveSourceFile,
     ResolveCanonicalKEPUB, InsertShared, InsertPlaceholder, ConvertAndPut, ConversionFails,
     UpdateAfterConversion
<1>2. ASSUME NEW q \in Requests, at'[q] \in {"convert", "update"}, book'[q] \notin clashed'
      PROVE  KepubCared(UserOf[q], book[q])'
  <2>1. ASSUME NEW b, b = book'[q] PROVE KepubCared(UserOf[q], b)'
    BY <1>1, <1>2, <2>1, ConvertingIsCared
  <2>. QED
    BY <2>1 DEF KepubCared, ByBookAndFormat
<1>3. ASSUME NEW k \in objects', k[1] \notin clashed', k[2] = "kepub" => NoFailed(k[1])'
      PROVE  Cared(k)'
  <2>0. k = <<k[1], k[2]>> /\ k[1] \in Books /\ k[2] \in {"epub", "kepub"}
    BY KeyIs DEF StructInv, TypeOK
  <2>1. k[1] \notin clashed
    BY <1>3, <2>0 DEF Clash
  <2>2. CASE k \notin objects
    <3>1. CASE Copy(r)
      <4>1. at'[r] = "insert" /\ book'[r] = book[r] /\ k = <<book[r], "epub">>
        BY <2>2, <3>1 DEF Copy, Goes, StructInv, TypeOK
      <4>. QED
        BY <4>1 DEF Cared
    <3>2. CASE ConvertAndPut(r)
      <4>1. at'[r] = "update" /\ book'[r] = book[r] /\ k = <<book[r], "kepub">>
        BY <2>2, <3>2 DEF ConvertAndPut, Goes, StructInv, TypeOK
      <4>2. UserOf[r] \in Users
        BY RequestsAssumption
      <4>3. KepubCared(UserOf[r], book[r])'
        BY <1>2, <1>3, <4>1
      <4>. QED
        BY <4>1, <4>2, <4>3 DEF Cared, KepubCared, ByBookAndFormat
    <3>. QED
      BY <2>2, <3>1, <3>2 DEF RequestStep, Proceeds, CreateUpload, ListByBook,
         RequestKEPUBConversion, Fails, FindByChecksumGlobal, Recognize, GetUserBook,
         UpsertUserBook, EnsureTag, FindByChecksum, InsertFile, DeleteByUserBook,
         CountByStorageKey, DeleteObject, DeleteUserBook, DeleteOrphanedBook, FindKEPUB,
         DeleteKEPUB, ResolveSourceFile, ResolveCanonicalKEPUB, InsertShared,
         InsertPlaceholder, ConversionFails, UpdateAfterConversion, stored
  <2>3. CASE k \in objects
    <3>1. k[2] = "kepub" => NoFailed(k[1])
      <4>1. ASSUME NEW q \in Requests, at[q] = "failed" PROVE at'[q] = "failed" /\ book'[q] = book[q]
        BY <4>1, DoneIsDone, OthersWait
      <4>. QED
        BY <1>3, <4>1 DEF NoFailed
    <3>2. Cared(k)
      BY <1>1, <2>1, <2>3, <3>1 DEF CareInv
    <3>3. CASE \E q \in Requests : Sweeps(q, k)
      BY <1>3, <2>3, <3>3, SweepGoesOn
    <3>4. CASE k[2] = "epub" /\ ByStorageKey(k) # {}
      BY <2>1, <2>3, <3>4, EpubStaysCared
    <3>5. ASSUME k[2] = "epub", NEW q \in Requests, at[q] = "insert", book[q] = k[1]
          PROVE  Cared(k)'
      <4>1. CASE q # r
        BY <3>5, <4>1, OthersWait DEF Cared
      <4>2. CASE q = r /\ InsertFile(r)
        <5>1. NewRow(r, "epub", "ready", FALSE) \in rows'
          BY <4>2 DEF InsertFile, Inserts
        <5>2. /\ NewRow(r, "epub", "ready", FALSE).status = "ready"
              /\ NewRow(r, "epub", "ready", FALSE).book = k[1]
              /\ NewRow(r, "epub", "ready", FALSE).format = "epub"
          BY <3>5, <4>2 DEF NewRow
        <5>3. NewRow(r, "epub", "ready", FALSE) \in ByStorageKey(k)'
          BY <2>0, <3>5, <5>1, <5>2 DEF ByStorageKey, KeyOf
        <5>. QED
          BY <3>5, <5>3 DEF Cared
      <4>. QED
        BY <3>5, <4>1, <4>2, DeletingIs DEF RequestStep, Proceeds, CreateUpload, ListByBook,
           RequestKEPUBConversion, Fails, FindByChecksumGlobal, Recognize, GetUserBook,
           UpsertUserBook, EnsureTag, FindByChecksum, Copy, DeleteByUserBook,
           CountByStorageKey, DeleteObject, DeleteUserBook, DeleteOrphanedBook, FindKEPUB,
           DeleteKEPUB, ResolveSourceFile, ResolveCanonicalKEPUB, InsertShared,
           InsertPlaceholder, ConvertAndPut, ConversionFails, UpdateAfterConversion, Goes,
           Starts, Formats
    <3>6. ASSUME k[2] = "kepub", NEW u \in Users, KepubCared(u, k[1]) PROVE Cared(k)'
      <4>1. CASE DeleteByUserBook(r) /\ Mine(r) = <<u, k[1]>>
        <5>1. UserOf[r] = u /\ book[r] = k[1]
          BY <4>1 DEF Mine
        <5>2. "kepub" \in todo[r]
          BY <1>1, <1>3, <2>0, <3>1, <3>6, <4>1, <5>1, KepubIsSwept
        <5>3. at'[r] = "sweep" /\ UNCHANGED <<book, todo>>
          BY <4>1 DEF DeleteByUserBook, Goes, StructInv, TypeOK
        <5>. QED
          BY <3>6, <5>1, <5>2, <5>3 DEF Cared, Sweeps, Removals
      <4>2. CASE ~(DeleteByUserBook(r) /\ Mine(r) = <<u, k[1]>>)
        <5>1. KepubCared(u, k[1])'
          BY <2>0, <2>1, <3>6, <4>2, KepubStaysCared
        <5>. QED
          BY <3>6, <5>1 DEF Cared
      <4>. QED
        BY <4>1, <4>2
    <3>. QED
      BY <3>2, <3>3, <3>4, <3>5, <3>6 DEF Cared
  <2>. QED
    BY <2>2, <2>3
<1>. QED
  BY <1>2, <1>3 DEF CareInv

-----------------------------------------------------------------------------
(* The theorems. *)

THEOREM BooksInductive == Spec => []IInv
<1>1. Init => IInv
  BY StructInitially, KnowledgeInitially, CareInitially DEF IInv
<1>2. IInv /\ [Next]_vars => IInv'
  <2>. SUFFICES ASSUME IInv, [Next]_vars PROVE IInv'
    OBVIOUS
  <2>1. StructInv' /\ KnowledgeInv'
    BY StructStep, KnowledgeStep DEF IInv
  <2>2. CASE UNCHANGED vars
    <3>1. CareInv'
      BY <2>2 DEF IInv, CareInv, vars, request, stored, KepubCared, ByBookAndFormat, Mine,
         NoFailed, Cared, Sweeps, ByStorageKey, KeyOf
    <3>. QED
      BY <2>1, <3>1 DEF IInv
  <2>3. CASE Restart
    BY <2>1, <2>3 DEF Restart, IInv, CareInv
  <2>4. ASSUME NEW r \in Requests, RequestStep(r), Clash PROVE CareInv'
    BY <2>1, <2>4, CareStep DEF IInv
  <2>. QED
    BY <2>1, <2>2, <2>3, <2>4 DEF Next, Step, IInv
<1>. QED
  BY <1>1, <1>2, PTL DEF Spec

\* The rows, objects, requests and histories have their types.
THEOREM BooksTypeCorrect == Spec => []TypeOK
BY BooksInductive, PTL DEF IInv, StructInv

\* A file that can be downloaded is in the bucket, unless its book was removed
\* while something else was done to it (books.go:888-906).
THEOREM DownloadsWork == Spec => []ReadyFilesAreStored
BY BooksInductive, PTL DEF IInv, KnowledgeInv

\* Whatever fails, no user has a file of a book that is not in the library.
THEOREM FilesHaveAnEntry == Spec => []FilesAreInTheLibrary
BY BooksInductive, PTL DEF IInv, KnowledgeInv

\* What shows as converting is being converted while no statement fails.
THEOREM PlaceholdersAreServed == Spec => []ConvertingWhileConverted
<1>1. IInv => ConvertingWhileConverted
  BY DEF IInv, StructInv, RowFits, ConvertingWhileConverted
<1>. QED
  BY <1>1, BooksInductive, PTL

\* An object that no row refers to belongs to a request under way or was left
\* by a fault, a clash or a conversion that failed.
THEOREM NothingIsForgotten == Spec => []NothingLeftBehind
<1>1. ASSUME IInv, NEW k \in objects, ~faulty, k[1] \notin clashed,
             k[2] = "kepub" => NoFailed(k[1]), ByStorageKey(k) = {}
      PROVE  \E r \in Requests : InFlight(r) /\ book[r] = k[1]
  <2>1. StructInv /\ CareInv
    BY <1>1 DEF IInv
  <2>2. k = <<k[1], k[2]>> /\ k[2] \in {"epub", "kepub"}
    BY <1>1, <2>1, KeyIs DEF StructInv, TypeOK
  <2>3. Cared(k)
    BY <1>1, <2>1 DEF CareInv
  <2>4. ASSUME NEW r \in Requests, Sweeps(r, k) PROVE InFlight(r) /\ book[r] = k[1]
    BY <2>2, <2>4, DeletingIs DEF Sweeps, InFlight, Removals
  <2>5. ASSUME k[2] = "kepub", NEW u, NEW row \in ByBookAndFormat(u, k[1], "kepub")
        PROVE  \E r \in Requests : InFlight(r) /\ book[r] = k[1]
    <3>1. row \in rows /\ row.book = k[1] /\ row.format = "kepub" /\ RowFits(row)
      BY <2>1, <2>5 DEF ByBookAndFormat, StructInv
    <3>2. row.status # "ready"
      BY <1>1, <2>2, <2>5, <3>1 DEF ByStorageKey, KeyOf
    <3>3. row.status # "failed"
      BY <1>1, <2>5, <3>1 DEF RowFits, NoFailed
    <3>4. row.status \in {"ready", "converting", "failed"}
      BY <2>1, <3>1 DEF StructInv, TypeOK, Row
    <3>. QED
      BY <1>1, <3>1, <3>2, <3>3, <3>4 DEF RowFits, InFlight
  <2>6. ASSUME NEW u, KepubCared(u, k[1]), k[2] = "kepub"
        PROVE  \E r \in Requests : InFlight(r) /\ book[r] = k[1]
    BY <2>5, <2>6 DEF KepubCared, Mine, InFlight
  <2>. QED
    BY <1>1, <2>3, <2>4, <2>6 DEF Cared, InFlight
<1>2. IInv => NothingLeftBehind
  BY <1>1 DEF NothingLeftBehind, NoFailed
<1>. QED
  BY <1>2, BooksInductive, PTL
=============================================================================
