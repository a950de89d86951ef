# A TLA+ model of tools.xdoubleu.com

This directory models the stateful parts of the tools.xdoubleu.com API: the worker pool and
the job queue its background jobs run on, the WebSocket topics that report their progress, the
watch party, sessions, the files of the book library and their way to e-readers, tasks, usage
counts and issue notifications. It holds the modules, the configurations TLC checks them with, and proofs
that TLAPS checks. `PROJECT.json` maps every definition to the lines of `src/` it translates.

    tlasany WorkerPool.tla                        # parse
    tlc -workers 2 -config Signaling.cfg MCSignaling   # model-check
    tlapm WatchPartyProofs.tla                    # check the proofs

## 1. The system

One Go process (`api/`) serves all applications over ConnectRPC and WebSockets, keeps its data
in Postgres and an object store, and is restarted by every deploy. The web client (`web/`) is a
Next.js application. A small helper (`kobo-gateway/`) runs next to an e-reader.

| Part | State it keeps | Operations | Interacts with |
|---|---|---|---|
| worker pool, `api/internal/threading` | channel of work, wait group, two flags per worker | EnqueueWork, WaitUntilDone, Stop, Run | used by the job queue, every topic and the notifications |
| job queue, `api/internal/jobqueue`, `observability/trackedjob.go`, `repositories/job_runs.go` | registered jobs, `running` and `lastRun` of each, rows of `global.job_runs` | AddJob, ForceRun, tick, the closure of a run | enqueues on a pool, calls back into the progress service |
| topics, `threading/eventqueue.go`, `communication/wstools` | subscriber list under a RW mutex, queue of events | Subscribe, EnqueueEvent, delivery, UnSubscribe | a pool of one worker per topic; a goroutine per connection |
| progress feed, `api/internal/progressws`, `web/lib/progressSocket.ts` | a topic per job | UpdateState, UpdateProgress, FetchState | fed by a job's closure, read by browsers |
| watch party rooms, `apps/watchparty/connect.go`, `services/room.go` | `activeRooms` under one mutex | CreateRoom, JoinRoom, LeaveRoom, cleanup | RPC handlers that take the mutex several times |
| watch party signaling, `apps/watchparty/ws.go`, `models/room.go` | connections, buffers and last offers of a room | join, relay, leave, reconnect | two WebSocket handlers share the room |
| book files, `apps/books/internal/services` (`books.go`, `book_files.go`, `conversion.go`), `repositories/book_files.go` | rows of `books.book_files`, objects of the bucket, library and catalog rows | CreateUpload, FinalizeUpload, RemoveFromLibrary, EnsureKEPUB | the object store; conversions outlive their request |
| Kobo sync, `kobo_routes.go`, `connect_library.go`, `repositories/kobo.go` | the kobo-sync tag, tombstones, what a device holds | ToggleTag, UpdateBookStatus, EnableKoboSync, RemoveFromLibrary, library sync | web handlers and devices share rows |
| todos, `apps/todos` | `todos.tasks` | Create, Complete, Reopen, Update, Reorder, Delete, archive | an hourly job |
| sessions and user cache, `api/internal/auth` | cached users, look-ups under way, refresh tokens | Access, resolveUser, refreshTokens, SignOut, SetRole | every request; the browser's cookies |
| usage recorder, `observability/usage.go` | counts in memory, `global.usage_daily` | Record, Flush | every request |
| issue notifier, `observability/jobs/issue_notifier.go`, `api/internal/notifications` | queue of mails, `global.notified_issues` | a job that lists and queues, a worker that mails and records | GitHub, Sentry, the mailer |
| OAuth server and connections, `oauth2as`, `oauthconn` | codes, tokens | token exchange, refresh | MCP clients, GitHub, Sentry, DigitalOcean |
| book resync, games, feeds, recipes, meal plans, shopping list, dashboard, contacts | rows | CRUD, imports, periodic jobs | the job queue, external services |
| Kobo gateway | one configuration file | read, rewrite | the device |

What makes the core hard to test: goroutines that interleave between any two lock operations; a
bounded channel whose full state blocks job, scheduler and progress reports on each other; a
process that forgets everything but the database at each deploy; sockets that close at any
time, with handlers that outlive them; requests that look something up under a mutex and
act on it under the same mutex later; and operations that are several SQL statements, or
statements and calls to an object store, with no transaction around them, any of which may fail
or be the last before a restart. The "hazards" of `PROJECT.json` list these line by line.

What each modelled part has to get right:

* worker pool: everything enqueued is run once; a wait ends neither early nor, while workers run, never;
* job queue: no job overlaps itself; the schedule survives restarts; every job comes round;
* topics: a subscriber misses nothing and is listed once; closed sockets harm nobody else;
* progress feed: whoever watches a run sees it end; jobs do not hang on their watchers;
* signaling: a peer that (re)connects negotiates with the other side's last offer, and nothing else is repeated
  or reordered;
* rooms: rooms are removed only by their presenter or by age;
* book files: a file that shows as ready is in the bucket, nothing unreferenced stays in it, no row
  says "converting" for ever;
* Kobo sync: no copy on a device is lost track of, and devices come to hold what is synced;
* todos: a recurring series survives its completions, the order made by hand is kept, the archive
  takes only what is done;
* sessions: the cache serves the current role, browsers keep their session, sign-out ends it, and a
  visit is not refused without a reason;
* monitoring: counts are neither lost nor doubled, and each open issue is mailed about, once.

## 2. Modules

| Module | What it is |
|---|---|
| `WorkDispatch` | what a pool promises, without channel, flags and counter |
| `WorkerPool` | `WorkerPool` and `Worker.Run`, one action per step another goroutine can see; implements `WorkDispatch` |
| `JobQueue`, `MCJobQueue` | scheduler, closures, `global.job_runs`, restarts; built on `WorkDispatch` |
| `BackgroundJobsProofs` | the invariants of pool and job queue, the refinement of `WorkDispatch` and one action property, proved |
| `Topic` | the event queue, the WebSocket handler and `Subscriber` |
| `TopicFeed` | a topic of numbered events |
| `ProgressFeed` | a topic fed by a job's closure |
| `TopicProofs` | what subscribers rely on, and that a job's clients see its end, proved |
| `Signaling`, `MCSignaling` | the sockets of one room |
| `Rooms`, `MCRooms` | membership of all rooms |
| `WatchPartyProofs` | the invariants of `Signaling`, the type invariant and an action property of `Rooms`, proved |
| `BookFiles`, `MCBookFiles` | uploads, removals and conversions of one content, statement by statement |
| `BookFilesProofs` | its invariants, proved |
| `KoboSync` | tags, tombstones and devices |
| `KoboSyncProofs` | its invariants, proved |
| `Todos`, `MCTodos` | tasks, calls on them and the archive job, statement by statement |
| `TodosProofs` | an invariant and four action properties, proved |
| `Sessions` | one browser's session: cache, shared look-ups, rotation, sign-out, a change of role |
| `SessionsProofs` | its invariants and one action property, proved |
| `Usage`, `Notifier` | the usage recorder; the issue notifier and its delivery worker |
| `Monitoring`, `MCMonitoring` | both in one process, with faults and restarts |
| `MonitoringProofs` | the invariants of both, proved for the composition |

`JobQueue` takes the pool as `INSTANCE WorkDispatch`, which `WorkerPool` is shown to implement,
by TLC on an instance and by proof for all (`ImplementsDispatch`, with the refinement mapping `Progress`: an
item is idle, offered while its caller is in the send, queued while it
is in the channel, running from the receive until its closure returns). `ProgressFeed` composes
a topic with the closure of `JobQueue`, whose scheduling it reduces to "may be claimed whenever it is
not running". `Rooms` and `Signaling` divide the watch party: `Rooms` has the user IDs of
`models.Room` and all rooms, `Signaling` the connections, buffers and offers of one. `Monitoring`
extends `Usage` and `Notifier`: the two share nothing but the process, so a restart is one action
of both. `BookFiles` and `KoboSync` meet in RemoveFromLibrary: the first has its files, the second
its tombstone.

How state and actions correspond to the code:

* **WorkerPool.** `queue` is `pool.queue`, `wg` the wait group's counter, `active` and
  `isDoingWork` the flags of each worker, `pc` the place in `Run`. An *item* is a caller with the
  closure it enqueues; `caller` says whether it is between `wg.Add` and the send. `owed` is history:
  what a `WaitUntilDone` found outstanding and has to outlast.
* **JobQueue.** `running`, `lastRun` and `registered` are the fields of `queuedJob` and the keys of
  `jobs`; `recorded` is what `LastSuccessAt` returns; `todo`, `seen`, `due` and `sending` are the loop state
  of `tick`, where `seen` is the job isDue has seen idle and not yet read `lastRun` of (two loads); `at` is the
  place of each closure. Instants are kept as *ages* that grow when time
  passes and stop at `MaxAge`, by when everything is due. `Crash` keeps only `recorded`.
* **Topic.** `subscribers` is the list, `worker`/`event`/`left` the state of `processEvent`,
  `handler` the place of each connection's goroutine between reading a subscription, adding the
  subscriber, fetching the first message and writing it. The read lock is held in the worker's
  places "deliver" and "unsubscribe". `WriteErrors` says what a write to a closed connection
  reports: an error with a close status (answered by UnSubscribe) or another one.
* **Signaling.** `ws`, `pending` and `lastOffer` are the fields of `models.Room` by side; `holding`
  is a message a handler has read and not relayed yet, `inbox` what each client received. Operations
  of `RoomService` hold its mutex throughout, so each is one step; reading and relaying are two.
  Answers and candidates are the same to the server and are both "other". Maps are iterated in any
  order (`Orders`).
* **Rooms.** `activeRooms` is the map; `at` and `code` are where each tab's request is and the code
  its handler holds between two critical sections. A code is six hex digits nobody compares with those in
  use, so CreateRoom draws any code, one in use and one used before included; `reused` has the codes it drew again.
* **BookFiles.** `rows`, `objects`, `temp`, `catalog` and `library` are the tables and the bucket; `at` is
  the statement a request runs next, and each statement, or call to the bucket, is an action. All
  uploads are of one content, since deduplication is what makes users share objects; the catalog id a
  provider gives it may differ. `old` is the id of the KEPUB row a conversion has found and is about to delete.
  `faulty` and `clashed` are history: what excuses a
  property. A conversion that fails ends at "failed": its row never got a storage key, so a removal does not find the
  object it may have stored (`NothingLeftBehind` excuses KEPUBs of such a conversion, and only them).
* **KoboSync.** A handler is "read the tags", "write the tags" and "see to the tombstone"; a device's sync
  is two queries and an answer that may be lost. `raced` has the books two requests changed at once, `halfway`
  those a request failed on between the tag and the tombstone,
  `dropped` those whose tag a statement took off without a look at tombstones (CreateBook of a book in the
  library, DeleteTag, RenameTag, MergeBooks) and `added` those that got it so (RenameTag to kobo-sync, MergeBooks).
* **Todos.** `tasks` is the table and `at` the statement a call runs next: the place of a new task is
  computed, room is made and the row inserted by three. `stale` has the calls whose reads
  something else has outdated, `late` the tasks an edit made recur when they were completed, being completed or
  about to be archived. A reorder is given any list of ids there have been: some of the open tasks, closed or
  deleted ones, one twice.
* **Sessions.** Token pairs and roles are numbers. `flight` and `held` are the singleflight call of each
  access token; `jar` is the browser. `bare` has the visits that come without a refresh token: those of a
  browser that signed in without being remembered, and those the web server makes when it renders a page.
  `signedOut` has the sign-outs that are past the DELETE and `unrevoked` those of them that deleted nothing,
  because the access
  token had expired or because the DELETE failed, both of which the code passes over. `late` has the refresh
  tokens being rotated when the user
  signed out, `outdated` the access tokens whose look-up read the user before a role changed and
  stored it after the cache was cleared.
* **Usage, Notifier.** `counts` and `batch` are the two maps of the recorder, `unwritten` the entries Flush
  has not added yet; `lost` has the keys a stop of the process, or a panic that flushTick recovers, took from
  memory. The notifier's run is at `provider`, has `todo` left and offers `offered` to the
  channel; the worker is `sending` a mail or recording what was `accepted`.

## 3. Runs

| Run | Instance | Shows |
|---|---|---|
| `worker_pool` | 2 workers, 3 items, 1 waiter, channel of 1, Stop at any time | `WaitGroupExact`, `NoEarlyReturn`, `EveryItemRuns`, refinement of `WorkDispatch` |
| `job_queue` | 2 jobs of different periods, 1 worker, channel of 1, crashes | `OneRunAtATime`, `MemoryAtLeastAsRecent`, `AnnouncedOnlyWhileRunning`, `CollectedWhenDue`, `ScheduledJobsKeepRunning` |
| `topic_feed` | 2 clients, 2 subscriptions, 2 events, channel of 1 | `NothingMissed`, `ListedOnce`, `EventsKeepFlowing` |
| `progress_feed` | 2 clients, 2 subscriptions, unbounded runs, channel of 1, writes that fail with and without a close status | `WatchersSeeCompletion`, `JobsEnd` |
| `signaling` | 2 connections a side, 2 tracks, 2 messages | `OffersInSync`, `BufferedForNobody`, `OthersAtMostOnce`, `InOrder` |
| `rooms` | 2 tabs of one user, 1 of another, 3 codes | `RemovedByItsPresenter` |
| `book_files` | 2 requests of one user, 1 of another, 2 catalog ids | `ReadyFilesAreStored`, `NothingLeftBehind`, `FilesAreInTheLibrary`, `ConvertingWhileConverted` |
| `book_files_refcount` | the same | a ready file loses its object (finding) |
| `kobo_sync` | 2 requests, 1 device, 1 book | `CopiesAreTracked`, `SyncedOrRemoved`, `DevicesCatchUp` |
| `todos` | 3 calls, up to 3 tasks, 2 priorities, reorder lists of up to 3 ids | `SeriesGoesOn`, `PlacedAfterPeers`, `OnlyReorderReorders`, `ReorderedAsAsked`, `ArchivedOnlyWhenDone` |
| `sessions` | 3 requests, 4 token pairs, 1 change of role | `CacheIsCurrent`, `SessionKept`, `SignOutRevokesAll`, `RefusedOnlyWhenRaced`, `RequestsAnswered` |
| `monitoring` | 2 keys, 2 requests, 2 issues of 2 providers, queue of 1, 1 fault | `CountsSurvive`, `MailedOnce`, `OpenIssueIsNotified` |

A "finding" is a run in which TLC must find the property violated: it states what a comment in the
code says, which the code does not keep. `book_files_refcount`: RemoveFromLibrary counts the rows that
refer to an object and deletes the object by a later call, and a row inserted in between is left
without one.

Ten more statements, most of them of the code's comments, do not hold. They are definitions of their modules,
marked "Not so", with the shortest way to break them; each can be checked as the only property of a
copy of the named configuration, or of the instance given.

| Statement | Instance | What happens |
|---|---|---|
| `JobQueue.ScheduledRunIsDue`, `jobqueue.go:71` "the scheduler only runs it once it's due" | `JobQueue.cfg` | a tick decides first and claims later, perhaps after waiting for the channel: a job that was forced meanwhile runs again |
| `Topic.ClosedSubscribersLeave`, `subscriber.go:35` "If the connection would be closed, [UnSubscribe] will be called" | `TopicFeed.cfg`, errors with a close status | the worker calls it under the read lock and asks for the write lock: it blocks itself for good |
| `ProgressFeed.ReconnectDeliversCompletion`, `progressSocket.ts:100` "still delivers the completion" | `ProgressFeed.cfg` | the state fetched before the run released its flag is written after its end was delivered |
| `Signaling.ConnectedViewerIsServed`, `room.go:23` "buffered messages sent while the target has no WS connection" | 1 track, 1 message | the deferred LeaveViewer of the old connection clears the new one: a connected viewer is buffered for |
| `Signaling.AbsentPresenterIsBuffered`, the same line | 1 track, 1 message | the presenter's connection is never cleared: messages to it are written to a closed socket |
| `Rooms.LeaveRemovesTheCaller`, `connect.go:95` "removes the current user" | `Rooms.cfg` | LeaveRoom removes whoever joined as viewer in between |
| `Rooms.RemovedByItsPresenterOnly`, `RemovedByItsPresenter` without its exception | `Rooms.cfg` | CreateRoom draws a code in use and overwrites the room, or a LeaveRoom that saw an old room removes the new one of its code |
| `KoboSync.TogglesAreAtomic`, `books.go:329` "adds or removes a tag from a user_book atomically" | `KoboSync.cfg` | the tombstone is a second statement; when it fails, the copy on the device has neither tag nor tombstone |
| `Sessions.SignOutDeletesEvery`, `service.go:335` "deletes every refresh token belonging to the user" | `Sessions.cfg` | with an expired access token or a failed DELETE it deletes none and answers with success; a rotation under way stores a new one after it |
| `Sessions.SignedInIsServed`, `RefusedOnlyWhenRaced` for visits without a refresh token, too | `Sessions.cfg` | the look-up such a visit shares fails because the client of the first request went away, and it has nothing else to show |

Each module states one type invariant (two in `Monitoring`, of its halves). All are proved (section 4)
rather than checked by a run.

Bounds, and why they are enough. A channel of one is full as soon as one item waits, so blocking,
the case that matters, happens at once. Two workers and three items are the least with one item
waiting while both workers are busy. Two jobs let one block the tick that is about to claim the other, and
as `OneRunAtATime` leaves at most one closure to a job, two names for closures are never short of
one. `MaxAge` 2 separates "just ran", "half a period" and "due" for the two periods. Two clients are
one that vanishes and one that stays; two subscriptions are both of them, or one client before
and after a reconnect. Two connections a side are a peer and its reconnect; two messages are an
offer and a newer one, or an offer and a candidate, and two tracks let offers be repeated in
either order. Three tabs let two requests of one user race with each other and with another
user's; three codes are a room, one more and a code drawn again. `MaxEvents` and `MaxSent` bound the
events published and the messages sent.

`BookFiles`, `Todos` and `Sessions` have three requests: one at work, one that overtakes it
and one that finds what they left; a request runs one operation, so three also bound what is done. In `KoboSync`
requests start over, so two, for what happens at once, are enough.
One content with two catalog ids lets a book be removed from the catalog and come back under another;
two users are the sharer and the one who removes. One book is enough for `KoboSync`, whose actions
touch books independently (the proof is for any number). Three tasks (`MaxTasks`), one of them there at the start
(`StartTasks`) in any priority and order, are a task, the one it is placed after and one more that is
moved, and lists of three ids (`MaxListed`) name some of them, all, or one twice. `MaxPairs` 4 lets three
requests rotate; `MaxChanges` 1 is the change a look-up misses. Two requests
(`MaxRecords`) of one key are one in the batch and one counted since, which merging back has to add, and of two keys
a flush can fail between them; `MaxFaults` 1 puts one failed call or restart anywhere. A queue of one is full at once.

Symmetry is used only in runs without temporal properties, or, in `rooms` and `todos`, with action
properties that do not name a tab, a code or a request. Deadlock is checked in `job_queue`,
`rooms` and `kobo_sync`; the others may stop: a stopped pool, a topic whose worker blocks itself
(`progress_feed`, `topic_feed`),
events, messages, requests or counts used up.

Fairness. Goroutines that can run do run (weak fairness of the worker, the scheduler and the
handlers). A Go channel serves blocked senders in order, and a mutex or a ticker does not starve
a waiter for ever, hence strong fairness of what waits for room in a channel or for a lock
(`Send`, `Receive`, `Admit`, `Start`, `Handle`). Assumed, not in the code: a job's `Run` returns, and a
write to an open connection returns; neither has a deadline in the code, and without it nothing
that waits for it ends. Clients are not fair: they may do nothing or disconnect.

In `Sessions` what was accepted runs on: requests, and look-ups, which run in goroutines of their own;
nothing is assumed of new requests, faults, the administrator or expiry. In `KoboSync` requests run on, a device
keeps syncing (it does so by itself) and an answer gets through now and then (strong fairness, as
any answer may be lost); `DevicesCatchUp` is about the time after the server stops changing. In
`Monitoring` the job comes round every five minutes and the worker never stops (weak fairness of
each); failed calls are bounded by `MaxFaults`, which stands for "not for ever". `BookFiles` and `Todos`
state no liveness: a request that a restart stops is not taken up again by anything.

## 4. Proofs

Every invariant and action property of every run that passes, every module's type invariant, and the
refinement of `WorkDispatch` are proved, for any number of workers, jobs, connections, tracks, tabs,
users, codes, requests, token pairs, devices, books, tasks, keys and issues and any capacity. The
assumptions are the named ones of each module: sets that are finite where they are counted, null values
that are no members, capacities and periods that are positive, at least one worker, at least one catalog
book, and the name `"seed"` of the content there at the start not being a request's.

* `BackgroundJobsProofs`, of the pool: `TypeCorrect`, `WaitGroupIsExact`, `ItemsRunOnce`, `WaitNeverReturnsEarly`,
  `PoolImplementsDispatch`. The inductive invariant adds `Placed` (an item in the channel or held by a worker was
  handed over by a caller that is still counted as having sent it) and `Owes` (whoever waits waits for
  pending items only). `WaitGroupExact` needs the cardinality of two sets to move together with the
  counter, and `NoEarlyReturn` follows because a counter of zero leaves nothing pending. The refinement maps
  each kind of step to one of `WorkDispatch` or to a stutter; that the backlog and the number running stay
  within their bounds is that the items queued are as many as the channel holds, and that each item
  running has a worker of its own.
* `BackgroundJobsProofs`, of the queue: `JobsTypeCorrect`, `JobsRunOneAtATime`, `MemoryIsRecent`,
  `AnnouncementsAgree`,
  `TickCollectsDueJobs`. `running` is taken before the closure is offered and released by its last step,
  so an outstanding closure determines its job (`OneRunAtATime`, with `ClosuresHaveJobs`).
  `MemoryAtLeastAsRecent` needs `MemoryLagsInRunOnly`: the time in memory is behind the row only between the
  insert of the row and `lastRun.Store`, while the closure that wrote the row is outstanding.
  `AnnouncedOnlyWhileRunning` needs `RetractedBeforeRelease`: a closure that is about to release its flag has
  retracted what it announced. `CollectedWhenDue` needs `InspectsRegistered`: the jobs a tick has still to
  inspect, and the one it has seen idle, are registered. It cannot say that what is collected is due: between the two
  loads of isDue a ForceRun may claim the job, run it and insert its row, with `lastRun` not stored yet. That
  state, and no other, is its exception (`Storing`).
* `TopicProofs`: `FeedTypeCorrect`, `SubscribersListedOnce`, `SubscribersMissNothing`, `ProgressTypeCorrect`,
  `CompletionSeen`.
  `TopicInv` is proved once, for a topic of any messages, and serves both feeds: where a handler is fits what it
  holds (`Consistent`), the list has the subscribers whose handlers are past adding them (`Listed`), and
  none of them is in it twice, which the swap with the last element on removal has to keep. For `NothingMissed` the
  invariant says that the worker, the channel and the next event follow each other without a gap
  (`InSequence`), that a delivery has still to reach whoever it has not yet (`DeliveryCovers`), and that a first
  message fetched is no older than what the worker is done with (`UpToDate`). For `WatchersSeeCompletion` it
  says that the end of a run, once announced,
  is the last message there is, in the channel, with the worker or shown (`EndIsLast`), and that who watches is
  subscribed
  (`PresentSubscribed`).
* `WatchPartyProofs`, of signaling: `TypeCorrect`, `BuffersWaitForNobody`, `PeersHaveTheLastOffer`,
  `OthersPassedOnce`,
  `MessagesKeepTheirOrder`. `OffersInSync` is not inductive alone: the invariant also says that a handler that
  relays has read a message (`Carries`), that what is remembered for a track is an offer for that track
  (`Remembered`), and that an installed connection was opened before (`Opened`), so that a connection being
  opened is nobody's and its inbox is empty. The other two compare the messages of one connection by their
  numbers: those passed on were sent (`Numbered`), the one a handler holds is newer than
  all it passed (`HeldIsNewest`), and a connection is opened once (`JoinsOnce`).
* `WatchPartyProofs`, of rooms: `RoomsTypeCorrect`, `OnlyPresentersRemove`. The invariant
  `RoleHolds` says that a request that decided to remove a room holds the code of one its user presents, of one
  that is gone, or a code that was drawn again: until then a room keeps its presenter.
* `BookFilesProofs`: `BooksTypeCorrect`, `DownloadsWork`, `FilesHaveAnEntry`, `PlaceholdersAreServed`,
  `NothingIsForgotten`. The
  invariant has three parts. `StructInv`: a request is at a statement of its operation, and a row is what the
  request that wrote it made of it. `KnowledgeInv`: what a request found in an earlier statement still holds
  when it acts on it. A removal knows the rows it will find and that no row refers to what it deletes, an upload
  that its EPUB and, where it has read so, the entry in the library are there, a conversion that its source is.
  All this is said of books
  no removal shares with another request (not in `clashed`), so the argument is what such a book is safe from: while
  it is removed nobody else works on it, and while it is worked on nobody removes it (`WithoutWork`,
  `WithoutRemoval`, `NoClash`). `CareInv`: an object without a row has somebody who will delete it or write its row
  (`Cared`; `KepubStaysCared`, `EpubStaysCared`, `SweepGoesOn`).
* `KoboSyncProofs`: `TypeCorrect`, `CopiesCorrect`, `RemovalsCorrect`. `BookInv` says of each book that it is raced or
  halfway, or that at most one request is at work on it and knows how far it is: what it read still
  holds before it writes the tags, the tombstone is yet to follow the tag, or the tombstone is there
  before the row goes (`WorkInv`). Between requests it is settled: a copy has tag or tombstone unless its tag was
  dropped, and it has not both unless its tag was added so.
* `TodosProofs`: `TypeCorrect`, `SeriesCorrect`, `ArchiveCorrect`, `OrderCorrect`, `PlaceCorrect`,
  `ReorderCorrect`. `SeriesInv`
  extends the property to tasks the job has listed, open again or not, and adds that a completion under
  way knows whether its task recurs. The exceptions are the code's: a completion that fails half-way, and an edit that
  makes a task recur once nothing looks any more. The order is kept because making room moves a suffix of the list by
  one (`RoomMade`). The last two speak of calls nothing disturbed, over several statements: `PlaceInv` says that
  the place such a call computed is still after those of its peers (`PlaceKnown`), and that the open tasks a reorder
  has reached have the place at which they stood last among those (`OrderKnown`): tasks the list leaves out, and
  ids of closed or deleted tasks, may stand anywhere.
* `SessionsProofs`: `TypeCorrect`, `CacheCorrect`, `SignOutCorrect`, `SessionCorrect`, `RefusalCorrect`. What a
  look-up or a refreshed visit is about to cache is current, too, or its token is in `outdated`
  (`CacheInv`); after a sign-out a request between the two halves of a rotation has a token in
  `late`, unless the sign-out deleted nothing (`SignOutInv`). For `SessionKept` the invariant says that a fresh
  pair on its way to the browser is
  good and known to nobody else, so no concurrent rotation can delete it first (`SessionInv`); that a
  visit with a refresh token is refused only when raced follows from it for the one step that refuses such a visit.
* `MonitoringProofs`: `CountsAreKept`, `IssuesAreMailedOnce` and both type invariants, for the composition.
  `CountsSurvive` is inductive with
  the types. `MailedOnce`
  needs `NotifierInv`: of two mails under way for one issue the second is raced, so is a mail
  under way for an issue mailed before, and what was mailed is recorded, about to be, or raced.

Only model-checked: liveness under fairness (`EveryItemRuns`, `ScheduledJobsKeepRunning`, `EventsKeepFlowing`,
`JobsEnd`,
`DevicesCatchUp`, `RequestsAnswered`, `OpenIssueIsNotified`), which needs ENABLED and is beyond TLAPS, and the
finding.

## 5. What the model leaves out

* Statistics and retention of `job_runs`; the contents of messages; validation, which only turns a connection
  away, and
  origin checks, which do not even do that: `websocket.go:148-151` answers Forbidden and still subscribes, as
  the model does; pings, which only detect a lost connection.
* A WebSocket write that neither succeeds nor fails. It would hold the watch party's mutex, or
  the topic's worker, for as long.
* CreateRoom does not keep to "or returns existing room" when two requests of a user race; no
  property says that a user presents one room.
* The browser's peer connection, which drops collected candidates when an offer is repeated.
* Of books: covers, tags but kobo-sync, reading states, the proxy to the Kobo store, how bytes are converted. A
  KEPUB made by an old converter is not made again on request, either: `connect_files.go:72` returns early when
  the book has a
  KEPUB row of any status, and EnsureKEPUB meets an old row only when two requests start a conversion at once.
  The tags
  an upload writes (ensureTag) are a step of it without effect on its rows. The storage scan
  reports objects and deletes nothing.
* A job registered while a tick inspects. The mutex excludes it in the code; the model allows it, which is more than
  the code does.
* Of todos: subtasks, links, labels, sections, recurrence rules (reduced to whether there is a next date).
  Completing a task twice makes two successors: `SeriesGoesOn` asks for one at least.
* Of sessions: signing in, MFA, passwords, and the OAuth tokens of MCP clients. Refresh tokens that expire: the
  cookie lasts
  as long as the row, so such a browser sends none and is one of `bare`.
* Of monitoring: response bytes, pruning, the weekly digest, mails of other services.
* Recipes, meal plans, the shopping list, contacts and the dashboard write rows by single statements or
  only read; generated code, and the pages of the web client, have no state of this kind.
* All parts marked `not_modelled` in `PROJECT.json`.

## 6. Plan

1. `OAuthTokens`: authorization codes and the rotation of the OAuth server with its grace period; the token
   source that refreshes a connection and stores the rotated token.
2. `Resync`: proposals of the resync job against concurrent edits of the library.
3. `RtcPeer`: the browser's side of signaling, composed with `Signaling`.
4. `FeedPoll`: polling, failure counters and retention; `Games`: the Steam refresh.
5. `Contacts`, `GatewayConf`.
6. Proofs: the invariants of these modules. Every safety property of the present ones is proved; what remains of
   them, liveness, is not for TLAPS.
