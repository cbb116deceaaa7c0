# fertilesoil: specifications, model checking and proofs

fertilesoil manages trees of directories and tells applications about changes to
them. This project models the parts of it where that is hard to get right, checks
the models with TLC, and proves the main results with TLAPS.

Notation: `treemanager.go:190` is a line of the repository's
`internal/httpsrv/treemanager/treemanager.go`; the other paths are shortened the same way.

## 1. Inventory

### The system

    HTTP clients ──► tree manager (gin handlers, one goroutine per request)
                        │  storage.DirectoryAdmin
                        ▼
                 notifying wrapper ──► NATS notifier ──► JetStream stream
                        │                                   │
                        ▼                                   ▼ core NATS subscription
                  CRDB driver / memory driver          client/v1/nats Watch
                        │                                   │ unbuffered channels
                        ▼                                   ▼
                  directories table   ◄── HTTP client ── app controller ──► app SQL store
                                                            │
                                                            ▼ Reconcile callback

| Component | State | Operations | Interacts by |
|---|---|---|---|
| CRDB driver (`storage/crdb/driver`) and schema | rows of `directories`; modes read-only, fast-reads | CreateRoot, CreateDirectory, UpdateDirectory, DeleteDirectory; ListRoots, GetDirectory, GetParents, GetParentsUntilAncestor, GetChildren | one SQL statement per call |
| Memory driver (`storage/memory`) | a `sync.Map` of pointers to directories, no lock | the same interface | shared pointers |
| Storage options (`storage/options.go`) | none | page, page size, offset | used by both drivers and the handlers |
| Notifying wrapper (`storage/notifier`) | none | the four writes, each followed by notifications with retry | calls driver, then notifier |
| Tree manager (`internal/httpsrv/treemanager`) | none of its own | nine handlers | two or three storage calls per request |
| HTTP server (`internal/httpsrv/common`, `cmd/serve.go`) | listener or socket file, audit file, NATS connection, a channel of signals | start, serve, shut down on a signal | goroutines, channels, the file system |
| NATS notifier (`notifier/nats`) | a JetStream context | AddStream, Notify*, publish | JetStream publish with acknowledgement |
| NATS watcher (`client/v1/nats`) | a subscription and two unbuffered channels | Watch | channel sends from the subscription's goroutine |
| HTTP client (`client/v1/impl.go`) | none | one method per route | HTTP |
| App controller (`app/v1/controllerimpl.go`) | none but its tickers and channels | Run, process an event, persist and reconcile | select loop over the watcher, a ticker and the context |
| Seeder (`app/v1/fullsubtree_reconciler.go`) | none | InitializeDirectories | HTTP client, then app store |
| App SQL store (`app/v1/sql`), callback store (`app/v1/callback`) | rows of `tracked_directories` | tracked?, up to date?, create, delete | SQL |
| Migrations, CLI, auth, Helm chart, generated API types | schema version, configuration | | |

### What is hard, and what correct means

* **Writes of the driver.** A delete is one recursive statement that has to take the
  whole live subtree and nothing else, and must be safe against other deletes of
  overlapping subtrees. The foreign key asks that a parent exist, not that it be live.
* **Handlers.** createDirectory and updateDirectory each read and write in two
  statements with no transaction around them: the parent may be deleted in between, the
  snapshot may be stale. With fast-reads it is stale without concurrency.
* **Notification.** Events are published after the commit, one by one, with retries,
  in no order between requests. A crash or an exhausted retry loses events; a lost
  acknowledgement duplicates one. What must hold: nothing is announced that has not
  happened, and success is answered only when everything is announced.
* **Listing.** Every page is a request of its own and every request is two or three
  statements. A walk from the first page to the last must miss nothing that was there all
  along, must be given nothing that does not belong to the listing, and, as long as the
  database answers, may fail only because the directory was deleted. A statement may fail,
  or lose its connection while its rows arrive, which the driver does not notice. Offsets are `int` arithmetic from a client's query.
* **Watcher.** A goroutine, the subscription's callback and the receiver share two
  unbuffered channels that the goroutine closes, errs first. The subscription is core
  NATS: it hears nothing from before it opened.
* **Controller.** A select over the context, a ticker, errors and events; a full pass of
  many requests; a store and a reconciler that are updated one after the other with no
  transaction; and restarts that keep only the store. What must hold: the store says
  nothing false of the tree, whatever was heard and in whatever order; the application
  hears of a change at most once, and of all but the change a run was busy with when it
  ended; it follows its own subtree only; what no event told is found by a later pass.
* **Memory driver.** A deletion lists its descendants with `Range` and marks them one
  after the other, through pointers that other requests hold too. What must hold: only
  what a client asked for goes, nothing comes back, a success is complete, and while
  deletions do not overlap it is the same tree that the database keeps.
* **Server.** The main goroutine and the one that serves race at start and shutdown, and
  processes race for one port or one socket file. What must hold: what requests use stays
  open until they end, an orderly end cuts nothing off, and an interrupt ends the server.
* **Several controllers on one store, with callbacks.** Each reads, acts and tells the
  application in steps, between which another may do the same. What must hold: each change
  is told once and in turn, and restarts bound what is lost or repeated.

`PROJECT.json` lists every hazard at its line, with the properties that cover it or the
reason why none does.

## 2. The plan, and how far it has come

| Step | Module | Composes | State |
|---|---|---|---|
| 1 | `Trees`, `Directories`: the table and the driver's statements | `Directories` uses `Trees` | done |
| 2 | `DirectoryTree`, `AnnouncedTree`: what clients and watchers are promised | `AnnouncedTree` extends `DirectoryTree` | done |
| 3 | `TreeManager`: handlers, notifying wrapper, NATS stream, crashes | over `Directories`; implements `AnnouncedTree` | done |
| 4 | `DirectoriesProofs`, `TreesProofs`, `TreeManagerProofs` | | done |
| 5 | `Listing` and `ListingProofs`: queries, pages and a client's walk | over `Directories` | done |
| 6 | `Watcher`, `AppController` and `AppControllerProofs` | over `DirectoryTree` and `Watcher` | done |
| 7 | `MemoryDriver`, `MemoryListings` and `MemoryDriverProofs` | over `Trees`; refines `DirectoryTree` while deletions do not overlap | done |
| 8 | `SharedStore` and `SharedStoreProofs`: several controllers on one store that calls back | over `DirectoryTree` | done |
| 9 | `ServerLifecycle` and `ServerLifecycleProofs` | | done |
| 10 | `TreeManager` and `AppController`, with the stream between them | | joined by `AnnouncedTree` and the theorem `StreamFeedsTheWatchers`, not in one model |

Two abstract specifications join the parts. `DirectoryTree` is a forest that grows one
directory at a time and loses whole live subtrees; `AnnouncedTree` adds what has been
announced, which is never more than what has happened. `TreeManager` is shown to implement
`AnnouncedTree`, by TLC and by proof. `AppController` runs over `DirectoryTree` itself and a
subscription that may hear any true fact at any later time, again and again or never: the
weakest assumption that `AnnouncedTree` supports, so that what is shown of the controller
holds over the tree manager with its lost, duplicate and unordered events. The two meet in
proofs: `RefinesTheTree` says that the tree manager moves the tree as `DirectoryTree` may, and
`StreamFeedsTheWatchers` that what its stream tells is true of that tree, as `Hear` requires.

## 3. The modules and the code

**`Trees`.** `Below(up, d, visible)` is the result of `WITH RECURSIVE get_children`: the
least set of visible rows that holds `d` and is closed under visible children. Least sets
stand for the recursion so that the operator can be proved about (`TreesProofs`).

**`Directories`** (`driver.go` and the schema). `parent`, `born` and `died` are the columns
`parent_id`, `created_at` and `deleted_at`; `edits` holds every version of name and
metadata. Times are the numbers of the commits, `now` is the last one, 0 is NULL. The
history makes stale reads expressible: `LiveAt(d, t)` and `VersionAt(e, t)` are what a read
at time `t` returns, and `follower` is the time `AS OF SYSTEM TIME
follower_read_timestamp()` reads at. `Insert`, `UpdateRow` and `SoftDelete` are the
statements, each a commit. `Seed` is the table at the start; it has finitely many rows.

**`TreeManager`** (`treemanager.go`, `notifier.go`, `nats.go`). `pc[r]` is where the
goroutine of request `r` is. One action per call of a handler: `Receive`, `ReadParent`,
`ReadDirectory`, `RefuseWrite`, `InsertDirectory`, `WriteDirectory`, `DeleteDirectory`;
then `Publish`, `PublishFails` and `GiveUp` of the wrapper. `owed[r]` are the events the
commit of `r` calls for, `todo[r]` those still to be published, `stream` the NATS stream.
`StatementFails` and the second disjunct of `AfterCommit` are a statement that fails before
and after its commit, `Crash` is the end of a server with all its goroutines.

**`Listing`** (`treemanager.go`, `driver.go`, `options.go`). One client, one walk. `ask` is
the listing, `page` and `limit` what the next request says, `got` what it was given.
`LookUp`, `LookUpAncestor` and the three list actions are the statements of one request,
`Give` is its answer and `HasNext` the next link. `StatementFails` is any of the statements
that fails, which is answered 500. `Arriving` are the rows that come before a connection
breaks: the row loops (driver.go:95, 279, 356, 425) do not ask `rows.Err()`, so that any first part of
a result passes for the whole, and none of it for a directory that is not there. `broken` is
history: a statement failed, or the page that was given is shorter than the one there was.
Integers wrap at `MaxInt`.

**`Watcher`** (`client/v1/nats`). `sub` is how far the goroutine of `Watch` has come,
through its deferred closes; `pending` are the messages of the subscription, the first of
them in the callback's hands.

**`AppController`** (`controllerimpl.go`, `fullsubtree_reconciler.go`, `sql/storage.go`).
`pc` is where `Run` is, `phase` says whether it deals with the base, the rest of a pass or
an event, `list` are the directories a pass has still to look at, `work` is the change in
hand. `row` is the store, `called` counts the calls of the reconciler that it accepted.
`Fetch`, `GetChildren`, `StoreWork` and `Reconcile` are the calls of a pass and of an event,
`Fails` any of them that fails, the `See...` actions the cases of the select. `Killed` ends
the process anywhere; `Start` starts it again with nothing but the store. `client` says
whether this run was built `WithClient`: without one there is no pass and no tick.

**`MemoryDriver`** (`memory.go`, under the handlers of `treemanager.go`). A pointer in the
map is its directory: what is done to a directory is done to everybody's. A deletion is
`LookUp`, `BeginScan`, `EndScan` (the end of `Range`, and `DeletedAt` of the directory
itself), then `NextChild` and `MarkChild` for each descendant, the oldest first. `Range`
meets each key at a time of its own; two steps with a choice of what it has seen of the
directories deleted in between are all it can do. `took[r]` is `affected`; `meant` and
`overlapped` are history. `Spoil` is a test that puts another type into the map it injects.
`First` is what was created before: each of its parents exists and is older.

**`MemoryListings`** (`memory.go`). What the listings return while nothing else goes on, as
sequences of ids, or as a failure (not found, a value of another type, a nil dereference).
`SortedIds` is `sort.Slice` with a comparison that looks into another slice than the one it
sorts: `Moved` puts an element where `SettlesAt` says that insertion stops. Go sorts by
insertion up to twelve elements (`InsertionLimit`), so that of a directory with more parents
than that nothing is stated.

**`ServerLifecycle`** (`serve.go`, `common.go`). `main[p]` is where `serverRunE` is, or how
its process has ended, `runner[p]` where the goroutine of `s.Run` is. `taken` is the process
that bound the address: with a socket it stays taken by a process that is gone, as the file
does. `Listen` and `Serve` are two steps, as in net/http, because a shutdown may come in
between; `RemoveSocket` is the deferred `os.Remove`, which removes whatever is there.
Requests are connected, accepted, answered, refused or cut off.

**`SharedStore`** (`callback.go`, `sql/storage.go`, and of `controllerimpl.go` what leads to
them). `AppController` has the whole of one controller and takes the store's reads and writes
in one step; here each statement (`AskTracked`, `AskParentTracked`, `Compare`, `Insert`,
`Mark`), each callback (`CallCreated`, `CallDelete`) and each `Reconcile` is a step of its
own. `called` and `told` count the calls of the callbacks and of the reconciler. `Fails` is
an error or the end of the process after any step.

### Abstractions that matter

* Ids named by clients exist, live or deleted. An unknown id is answered like a deleted one.
* Text is a name and metadata from small sets. The model keeps both because an update that
  leaves one out writes back what it has read.
* A delete's rows are a set published in any order: SQL promises none.
* `createdAt` order is commit order.
* A panic in a handler is a 500, as the recovery of ginx's engine (outside the repository)
  answers. `updateDirectory` overlooks the
  error of its read and panics on the nil directory.
* The retrier's exponential backoff stops after 15 minutes or with the context: `GiveUp` is
  possible after any failure, and `MaxTries` bounds the failures before it.
* In `AppController` the controller owns its store, so that a read of the store is part of the step that acts
  on what it has read; `SharedStore` drops that. Requests to the tree manager are steps of
  their own.
* The HTTP client is given a server without follower reads, and the order of siblings on
  its first page is left open. The page arrives whole: one that the driver cut short would
  pass for the whole subtree, and `Listing` is where that is modelled. A later pass, each of
  which asks anew, finds what such a page has left out.
* The ticker may fire at any moment; intervals are not modelled.

## 4. What is model-checked

| Run | Distinct states | What it shows |
|---|---|---|
| `tm_core` | 672 449 | Three concurrent creates and deletes on a chain of three, with result rows cut short and lost acknowledgements: `Forest`, `EveryChangeHasOneOwner`, and `ImplementsTree` |
| `tm_faults` | 911 121 | All four operations on a server that reads from followers and a read-only one, with failing statements, lost answers, failing publications and a crash: `StreamTellsTheTruth`, `SuccessIsAnnounced`, `RefusalsChangeNothing`, `HistoryStands`, `CascadeIsComplete`, and every request is answered or dies with its server: `EveryRequestEnds` |
| `list_core` | 332 076 | Walks of all four kinds with pages of one and two, follower reads, concurrent creates and deletes, failing statements and pages cut short: `NothingIsOmitted`, `NothingIsMadeUp`, `FailsOnlyByDeletion` |
| `app_core` | 421 304 | The controller with failing calls, kills, a restart, a shutdown, with or without a client: `StoreTellsTheTruth`, `TracksItsTreeOnly`, `ReconciledOnce`, `OneChangeLostPerRun`; what stands below the base is found, and a canceled controller ends: `DirectoriesAreFound`, `CancelEndsRun` |
| `mem_core` | 85 303 | Three concurrent writes over the memory driver, deletions of overlapping subtrees among them: `OnlyWhatWasAskedFor`, `DeletionsStand`, `SuccessIsComplete`, `HalfDeletionsHaveARival`; `TreeUntilDeletionsOverlap` (the refinement of `DirectoryTree`); and `ListingsAreWhole` whenever all is quiet |
| `server_core` | 348 918 | Two processes at one port or socket, with signals, kills and two requests at any moment: `RequestsHaveTheirFiles`, `OrderlyEndsCutNothing`, `StaleSocketsHaveACause`, `OnlyShutdownsCutOff`, `InterruptsEndTheServer` |
| `shared_core` | 844 438 | One or two controllers on one store with callbacks, events twice and late, passes, errors, restarts: `HeardOnce`, `HeardInTurn`, `DeletionsCalledPerStart`, `OneChangeLostPerStart`, `AloneInOrder` |

Each property has a mutant of the code, an operator next to the definition it replaces,
that TLC finds in violation of it.

### Runs that find the code in disagreement with what the repository says

| Run | What happens | Against |
|---|---|---|
| `tm_read_only` | `DeleteDirectory` does not test `readOnly` | docs/server.md:18 |
| `tm_orphan` | a create looks its parent up, a delete takes the parent, the insert succeeds: a live directory below a deleted one | treeman-openapi-v1.yaml:159 |
| `app_first_page` | a pass sees the first page of the subtree only; a directory on another page whose event was lost is never found | docs/appframework.md:138 |
| `app_shutdown` | after a cancel `Run` returns nil or panics, when it sees the closed channels first | tests/integration/app_test.go:88 |
| `server_sigterm` | SIGTERM is not among the signals caught and cuts requests off | cmd/serve.go:90 |

### Other behaviour to know of

The models show these too, and no run states them. Where a document or a comment of the
repository says otherwise it is named.

Tree manager:

* With fast-reads a server still accepts writes, though docs/server.md:21 says it does not,
  and bases them on stale reads. `tm_faults` lets it, and shows that deletions stay
  permanent and cascades complete all the same.
* Events of different requests have no order in the stream: the deletion of a directory can
  come before its creation, and a watcher that follows the stream is left with the directory.
* Two updates of different fields can lose one of them: each writes both fields, one as read.
* When the connection breaks while the rows of a delete arrive, `rows.Err()` is not asked:
  the client is told of success (or, with no row at all, that nothing was found) and the rest of the deletions is never announced. The
  constant `RowsCut` switches this on; `SuccessIsAnnounced` holds without it only.
* So it is with the rows of a listing (driver.go:95, 279, 356, 425): a page cut short is answered 200 with
  no next link, and the client takes it for the last. `NothingIsOmitted` says what is left:
  the walk misses nothing but the end of the listing, and what it misses comes after all it
  was given. With no row at all a listing of relatives is answered 500, like any statement
  that fails; tests/integration/client_test.go:282-344 expects errors of a bad database, too.
* `page * limit` and `offset + 1 + limit` overflow for values near the largest int: the
  slice bounds turn negative, the handler panics, ListRoots gets a negative OFFSET.

Controller and its store:

* An insert that meets its row ends `Run` with an error, though app/v1/sql/storage.go:61
  says "insert directory but ignore if conflict": a second create event does it, and any
  update event of a tracked directory.
* The row is stored before the reconciler is called. After a crash in between no pass calls
  it again, though tests/integration/app_test.go:23 says that "the application should be
  notified of the new directories via the reconcile loop". `OneChangeLostPerRun` bounds it.
* A deletion whose event was lost is never found: passes list live directories only.
* A directory that is deleted between its listing and its fetch in a pass fails the fetch,
  and with it `Run`; the next start goes on from the store.
* Two controllers may tell the application of a creation after the deletion: the one
  inserts, the other deletes, the first goes on. app/v1/controller.go asks for one controller.
* `UpdateDirectory` of the callback store, and so its callback, is called by nothing.

Memory driver:

* `GetParents` and `GetParentsUntilAncestor` list the farthest ancestor first; the tests of
  the CRDB driver (storage/crdb/driver/driver_test.go:660) expect the nearest first.
* `GetParentsUntilAncestor` of a root and itself dereferences a nil parent; the CRDB driver
  answers with an empty list (driver_test.go:815).
* A directory with more descendants than a page loses one page of them, and success is
  reported (treeman-openapi-v1.yaml:159: "a directory and all of its children").
* A deletion that meets a child deleted by another request is answered 404 with its own
  directory deleted and no event; two overlapping deletions may both claim a directory.

Server:

* An interrupt that comes while the audit file is missing is noted and not seen until the
  file is there.
* A shutdown that comes before `Serve` has begun, be it before or after `net.Listen`, may
  leave the socket's file, as a kill does, and the next server cannot listen.
* The deferred removal of the socket's path may remove the successor's socket.
* When `Run` fails, its error is logged and the process lives on without a listener.

### Bounds, and why they are enough

* Directories: four (`tm_core`, `tm_faults`, `list_core`), five (`mem_core`) or three. A chain
  of three and one to be created is the least tree with a cascade over two levels, overlapping
  deletes, a child created below a parent that is being deleted, and a page boundary between
  levels. With `PageSize` 2, `mem_core` has subtrees of a page and of more.
* Requests: three in `tm_core` and `mem_core` (two overlapping deletes and a write between
  them), two where each may also fail. A third request adds no new pair, and each of the
  properties is about a request and one other.
* `MaxTries` 1: a publication that is not tried again, and one that fails with and without
  the event stored and is. `MaxCrashes` 1: a request dies once. `MaxRuns` 2: one restart.
* `MaxPending` 1: one message on its way. A subscription may hear any true fact at any later
  time, and a fact stays true, so that events still come twice, late and out of order; what
  a second place would add is that messages behind the first are dropped together when the
  connection breaks, and those might as well never have been heard.
* `PageSize` 2 fits the subtree of `app_core`; 1 in `app_first_page` does not.
* With failing calls a controller may spend its restarts: `DirectoriesAreFound` excuses one
  that has none left, and `app_core` has the behaviours of those that do.
* `server_core`: two processes are a server and its successor, and two requests one that is
  under way and one that comes during the shutdown. `shared_core`: two controllers and
  `MaxStarts` 3, so that each may run and one may be restarted. The bound of
  `DeletionsCalledPerStart` (starts + 1) is reached.
* Symmetry: the requests of `tm_core` and `mem_core` and the controllers of `shared_core`
  are interchangeable. The runs with liveness use none.
* `CHECK_DEADLOCK FALSE` in every run: a finite number of requests, walks, processes or runs
  comes to its end, and nothing is left to do.

### Fairness

* `TreeManager`: weak fairness of each request's handler. The Go scheduler runs every
  goroutine, a handler holds no lock, and each call returns: pgx and JetStream with a result
  or an error, the retrier when its time is up. No fairness for clients, crashes or
  followers.
* `AppController`: weak fairness of `Run`, of the watcher's goroutine and callback, and of
  `Start` (the process is restarted by whoever runs it). Strong fairness of `SeeTick`: a
  select picks at random among its ready cases, and the ticker is ready again and again,
  though an event that is taken disables it for a while. None for the tree, for kills or for
  the messages: an event may be lost.
* `ServerLifecycle`: weak fairness of each of a process's two goroutines. Nothing makes the
  audit file appear or a request be answered; the timeout of `Shutdown` is a step of main.
* `MemoryDriver` and `SharedStore` state safety only.

## 5. What is proved

All theorems hold for every number of directories, requests, servers, processes,
controllers, retries, crashes, pages and restarts. The assumptions are those stated as `ASSUME` beside the constants.

| Theorem | States |
|---|---|
| `DirectoriesProofs!TableCorrect` | whatever statements run, the table is well typed, `Forest` and `CascadeIsComplete` |
| `DirectoriesProofs!TableHistoryStands` | `HistoryStands` |
| `TreeManagerProofs!TypeCorrect` | `TypeOK` |
| `TreeManagerProofs!TreeStaysSound`, `RowsStand` | the same of the tree manager, because its steps are steps of the table |
| `TreeManagerProofs!StreamIsTrue` | `StreamTellsTheTruth` |
| `TreeManagerProofs!RefinesTheTree` | `ImplementsTree`: the refinement of `AnnouncedTree` |
| `TreeManagerProofs!AnswersAreHonest`, `RefusalsAreHonest` | `SuccessIsAnnounced`, `RefusalsChangeNothing`, if `RowsCut = FALSE` |
| `TreeManagerProofs!ChangesHaveOneOwner` | `EveryChangeHasOneOwner` |
| `TreeManagerProofs!StreamFeedsTheWatchers` | each fact the stream tells is true of the abstract tree |
| `TreeManagerProofs!RequestsMoveOn`, `AttemptsAreFinite`, `NobodyIsStuck` | each step of a handler brings its request nearer to its end, nobody takes it back, there are finitely many such steps, and one is always possible: `EveryRequestEnds` but for fairness |
| `ListingProofs!TypeCorrect`, `AllIsReal`, `OnlyDeletionsFail` | `TypeOK`, `NothingIsMadeUp`, `FailsOnlyByDeletion` of a walk, if no offset overflows; statements may fail and pages be cut short |
| `ListingProofs!AllIsGiven` | `NothingIsOmitted`, if no offset overflows and the walk starts at the first page; statements may fail and pages be cut short |
| `AppControllerProofs!TypeCorrect` | `TypeOK` of the controller |
| `AppControllerProofs!StoreIsHonest` | `StoreTellsTheTruth` |
| `AppControllerProofs!NothingIsReconciledTwice` | `ReconciledOnce` |
| `AppControllerProofs!ControllerKeepsToItsTree` | `TracksItsTreeOnly` |
| `AppControllerProofs!RunsLoseOneChange` | `OneChangeLostPerRun` |
| `AppControllerProofs!CanceledRunsEnd`, `ControllerIsNeverStuck` | after a cancel each step of `Run` leaves it fewer to take, and it has one: `CancelEndsRun` but for fairness |
| `AppControllerProofs!PassesMissNobody` | a pass lists all that stands below the base, if a page holds it and arrives whole, and keeps each directory until it is tracked or the run ends |
| `AppControllerProofs!PassesEnd` | each step of `Run` leaves a pass fewer steps, if there are finitely many directory ids |
| `MemoryDriverProofs!TypeCorrect`, `DeletedStaysDeleted`, `OnlyAskedForIsDeleted` | `TypeOK`, `DeletionsStand`, `OnlyWhatWasAskedFor` of the memory driver |
| `MemoryDriverProofs!HalfWayMeansARival` | `HalfDeletionsHaveARival` |
| `MemoryDriverProofs!SuccessTakesAll`, `ATreeUntilDeletionsOverlap` | `SuccessIsComplete`, `TreeUntilDeletionsOverlap` (a refinement of `DirectoryTree`), if there are finitely many directory ids |
| `MemoryDriverProofs!WholeListings`, `PagesOfEverySize` | `ListingsAreWhole`, and the same for every page size, if there are finitely many directory ids |
| `ServerLifecycleProofs!TypeCorrect` | `TypeOK` of the server's processes |
| `ServerLifecycleProofs!FilesOutliveRequests`, `OrderCutsNothing` | `RequestsHaveTheirFiles`, `OrderlyEndsCutNothing` |
| `ServerLifecycleProofs!NoStaleSocketWithoutCause`, `NobodyElseCutsOff` | `StaleSocketsHaveACause`, `OnlyShutdownsCutOff` |
| `ServerLifecycleProofs!InterruptedServersEnd` | each step of main in a server that was told to end leaves it fewer stages, and nobody takes it back: `InterruptsEndTheServer` but for fairness |
| `ServerLifecycleProofs!ShutdownTakesNobodyOn` | a server that is shutting down accepts no request |
| `SharedStoreProofs!TypeCorrect`, `EachChangeIsHeardOnce`, `ChangesAreHeardInTurn` | `TypeOK`, `HeardOnce`, `HeardInTurn` |
| `SharedStoreProofs!OrderIsKeptAlone` | `AloneInOrder` |
| `SharedStoreProofs!StartsLoseOneChange`, `StartsBoundDeletions` | `OneChangeLostPerStart`, `DeletionsCalledPerStart` |

The arguments, each an inductive invariant stronger than the property:

* **The table.** `TableInv` is typing, `Forest` and `CascadeIsComplete`. The step that
  matters is `SoftDelete`: `TreesProofs` shows that `Below` is closed and that each member
  but the first has a visible parent, so that a doomed row's live children are doomed and a
  row that stays keeps a parent that is live or was dead before it.
* **The stream.** `TruthInv` says of every event *owed*, not only of those in the stream,
  that it is committed. An event becomes owed in the step that commits; from then on only
  the permanence of rows, versions and deletions is needed.
* **Answers.** `AnswersInv`: before its commit a request owes nothing; while it notifies, what
  it owes is in the stream or still to be published. So when nothing is left to publish,
  all of it is in the stream. A cut result breaks `owed \subseteq todo \cup stream`, hence the
  assumption.
* **Refinement.** An insert is a `Plant`, a delete that dooms something a `Fell` (the doomed
  rows are what lies below among the live ones), a publication a `Tell` of a fact that
  `TruthInv` says is true, and all other steps leave the abstract tree alone.
* **The controller's store** (`Honest`). Every message on its way and the change in hand are
  true facts, and a fact stays true because the tree forgets nothing.
* **Told once** (`Once`). At the reconciler the change in hand is in the store and was not
  told. It came there through a statement that found no such row, and `ReconciledOnce`
  says that a change without its row was never told.
* **Its own tree** (`OwnTree`). Whatever is on the list of a pass has a parent that is
  tracked, on the list, or being stored; the base is in the store before its subtree is
  listed. `BelowIsReached` shows that a listing holds the parent of each of its members, and
  the order of levels that a page cut does not separate a directory from its parent.
* **One change per run** (`FewLost`). What is stored and untold, but for the change at the
  reconciler, grows only when a run ends, by the change in hand.

* **One owner** (`OwnerInv`). No version is younger than the table, so that a new one has no
  author yet; each row has a latest version, so that each row a delete touches is among those
  it returns; and a request owes nothing before its commit, so that the commit makes it
  forget nothing. A delete dooms live rows only, hence rows with no deleter yet.
* **Listings.** `EachHasItsPlace`: in a finite set with a strict total order the number of
  members before one is its place, and every place is taken; so a query returns each of its
  rows once, the directory asked for first. `PlacesGrow`: from one reading to a later one
  without deletions between, a row's place grows or stays, as new rows are younger than
  their parents. `RowsAreFixed`: what a query sees as of a time gone by changes no more.
  Hence `NothingIsSkipped`, the invariant: what was there at the first page and at the last
  so far is given, or its place is on a page to come and after all that was given. What
  arrives of a page is its start (`StartOf`), and a page is full only if it is whole, so that
  the walk goes on only behind whole pages: what it has missed when it ends comes after the
  last row that arrived (`WhatIsMissed`), and it has missed nothing unless that page was cut. For `AllIsReal`, `BelowIsKept` says
  that growth changes nobody's ancestors, `BelowBetween` that a directory that a query has
  above another is above it in the whole tree, with all that is between them. The
  assumption is `PagesFit`: finitely many ids, and no first page times page size near
  `MaxInt`; the pages that follow fit then, too, since a full page has rows (`FitsNext`).
  Without it the statement is false: a negative slice bound panics.
* **The memory driver** (`MemInv`). What a deletion has listed or holds lies below its
  target and is no root. Parents of what exists never change and no directory is removed
  from the map, so that this outlasts whatever other requests do between its steps.
* **Rivals** (`RivalInv`). What a deletion has taken and what it has still to mark are
  disjoint, so that whatever it finds deleted on its list was taken by somebody else.
* **Complete deletions** (`CompleteInv`). What stood below the directory when `Range` ended
  is among what `Range` has seen, so it is listed, or the list is a full page: no two
  directories are of the same age, hence the oldest ones are as many as fit. From then on
  what a deletion has taken and what it has still to mark are together the same set.
* **A tree without overlaps** (`LoneInv`). As long as none overlap, at most one deletion is
  under way, and nothing on its list is deleted. So `Range` begins with the subtree that
  `DirectoryTree` fells in one step, and the marks that follow fell nothing more.
* **The server** (`SInv`). It relates the two goroutines and the stage each has come to:
  files are open from their stage of main to the next-to-last; `Serve` runs only while main
  waits; a request is under way only before the files are closed; and whoever has the address
  has bound it and not let go of it, or lost it to one that let go.
* **Heard once, in turn** (`ShInv`). `Owes` says what a controller has in hand: one that is
  past the insert or the mark of a change is the only one to be so (`OneOwner`), since the
  statement found the row as it was before, and `BooksAreTrue` ties the counts to the row.
* **Alone** (`AloneInv`): while one controller has a creation in hand nobody else can delete
  its row.
* **Bounds by starts.** Both are amortised: each start pays for one loss or one call.
  `LostPaidFor`: what is lost and the controllers that run are together no more than the
  starts. `CallsPaidFor`: a call of a deletion's callback is paid for by the controller that
  goes from the call to the mark, and the mark that succeeds gives it back once.

* **Listings of the memory driver** (`MapInOrder`). Parents are older than their children,
  and no two directories are of the same age. So on one way up the order by age is the order
  by distance, the walk collects the parents youngest first, and the comparison at any two
  neighbouring places says "less", whatever was moved: each element goes all the way down, and
  what comes out is the way up, reversed. Where the argument wants an induction over the
  length, it takes the least number of which the claim is false (`LeastNumber`), since the
  induction theorems of the library cannot be used. `PageOf` cuts a sequence so that its pages
  joined are the sequence.

Three properties of liveness are proved but for their fairness: that each step of the actor
in question decreases a rank, that nobody else's step increases it, and that as long as the
rank is not zero the actor has a step whose guard holds. What TLAPS cannot do is to
conclude from these facts, and from the scheduler's fairness, that the end comes.

* **Requests** (`ServingInv`). `Nearer` decreases the stage, or the number of attempts
  that are left for the events to be published. It needs that every deletion has finitely many
  rows, and so finitely many events, hence that the table has (`FiniteHistory`); and that a row
  that is live at some time has a version of that time, which a read of it returns.
  A creation has a step only while there are ids to be had, which is a bound of the model.
* **The controller.** `StepsToGo` is the rank of a canceled run. A run has a step because the
  tree is a forest: a list is never without a directory whose parent is not on the list
  (`Rooted`), and a finite or infinite set of children has a first page (`FirstPageIsThere`).
  `PassToGo` is the rank of a pass: three for each directory listed, and what is left of
  the one in hand. `ListInv` says that the list is empty wherever
  it is not looked at, so that a pass that begins forgets nothing.
* **The server.** `StagesToGo` counts main's stages; the audit file is the only thing main
  waits for once it has been told to end (`OnlyTheAuditFileIsAwaited`).

Model-checked only: the four properties of liveness (`EveryRequestEnds`, `DirectoriesAreFound`,
`CancelEndsRun`, `InterruptsEndTheServer`), as TLAPS has no rules for fairness. Of
`DirectoriesAreFound` it is proved that a pass finds and ends; that a pass begins again and
again, which rests on the strong fairness of the ticker, and that enough runs are left, is left to TLC.
The disagreements of section 4 are counterexamples and need no proof.

## 6. What is not modelled

* The server's requests in `ServerLifecycle` are opaque, and its end is the crash of
  `TreeManager`. Its readiness, liveness and version handlers answer from probes and keep
  nothing.
* `AddStream`, which runs once before a server starts.
* The readers of the memory driver while writes are under way: `sync.Map` gives each reader
  the pointers one by one, and no document says what a listing then promises.
* Migrations, command-line flags, authentication, logging, connection helpers, encoding of
  requests and answers, generated API types, the no-op notifier, the chart: they hold no
  state of the protocol, or a library does their work.
* Time: intervals, back-off and time-outs are choices that may be taken at any moment.
