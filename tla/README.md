# Verification of pixelgrama

TLA+ specifications of pixelgrama, the configurations with which TLC checks them
on small instances, and theorems about them that TLAPS proves. `PROJECT.json`
lists the runs, the theorems, the hazards they are aimed at, and for every
definition the lines of the code it stands for.

## 1. The system

pixelgrama is one Go binary. `pixelgrama` serves a wall of 16x16 postcards from
one SQLite file; `pixelgrama admin` hides and restores postcards and
`pixelgrama backup` copies the file, both next to the running server, on the
same file. The page in the browser is plain JavaScript: an editor model and the
application around it.

| Component | State | Operations | Interacts with |
|---|---|---|---|
| Store, publication (`internal/store/store.go`) | table `postcards` | `InsertWithPalette`, `List`, `GetPublic` | one connection per process; SQLite's writer lock between processes |
| Store, moderation (`moderation.go`) | `moderation_status`, `moderation_reason`, table `moderation_events` | `Hide`, `Restore`, `ListModeration` | publication, through the tables |
| Store, migration (`operations.go`) | `PRAGMA user_version`, the columns | `Open`/`migrate`, `Ready` | every process that opens the file |
| Store, queries (`exploration.go`, `weekly.go`, `stats.go`) | none | `ListBefore`, `RandomPublic`, `ListPublicBetween`, `PublicStats` | snapshots of the tables |
| Store, backup (`operations.go`) | the destination file | `Backup`, `verifyBackup` | the live file, the file system |
| Rate limiter (`internal/ratelimit`) | client -> count, window start, last seen | `Allow` | the publication handler, before the store; the clock |
| HTTP server (`internal/app`) | none of its own | one handler per route | limiter, store, HTTP caches |
| Editor model (`web/editor.js`) | drawing, undo and redo stacks, open stroke | strokes, fill, flips, clear, undo, redo | the application |
| Browser application (`web/app.js`) | wall, cursor, draft, remix parent, requests in flight | `loadWall`, `publish`, `loadRemix`, event handlers | editor model, server, local storage |
| Lifecycle (`cmd/pixelgrama`) | privileges, listener | start, `admin`, `backup`, shutdown | all of the above |
| Core, challenge, assets, configuration | none | pure functions | |

What is hard about it:

* **Processes.** Inside a process the store has one connection and transactions
  queue; between processes statements interleave. `BeginTx(ctx, nil)` opens a
  DEFERRED transaction: its checks run on a snapshot and its first write comes
  later. A unit test opens one store.
* **Crashes and restarts** between the statements of a migration, and two
  processes that migrate one file.
* **Boundaries of the limiter**: the end of a window, the bound on entries,
  calls that are refused.
* **Answers put together from several queries**, from a clock that is read
  outside the transaction, and from times compared as text; a 304 that must
  not hide a change.
* **Answers out of order** in the browser, strokes interrupted by undo.
* **Processes that fail half way**: privileges dropped call by call, a backup
  that breaks off, a moderation that is committed but not reported, a server
  told to stop while handlers work.

What makes each component correct is stated in section 3 next to the module
that says it.

## 2. Modules

```
PostcardTables        the two tables and what the SQL statements do to them
  Gallery             what the store promises: one publication or verdict at a time
  PostcardStore       the store: transactions, snapshots, the writer lock
                      (implements Gallery)
RateLimiter           the fixed-window limiter
SchemaMigration       Store.Open by several processes, with crashes
NewestRows            ORDER BY id DESC LIMIT, which pages and mosaics are cut with
PublicWall            what a visitor can see of the Gallery
                      (Gallery implements it)
WallClient            the wall in the browser, page by page, over PublicWall
PublishFlow           publication from the browser, over Gallery
PublicViews           mosaic, statistics, shared and random postcards: what the
                      server derives from the tables on request
Commands              the processes of the binary: start, privileges, server and
                      shutdown, backup, admin
EditorGeometry        lines, fill and flips of the drawing
DrawingTimeline       what undo and redo promise: a line of drawings
  EditorHistory       the editor with its stacks, strokes and draft
                      (implements DrawingTimeline, but for overlapping strokes)
MC*                   instances for TLC
GalleryProofs, PostcardStoreProofs, RateLimiterProofs, SchemaMigrationProofs,
EditorHistoryProofs, PublishFlowProofs, CommandsProofs,
PublicReadsProofs (PublicViews and WallClient)
```

### PostcardTables and Gallery

A postcard's id is its position in the table (AUTOINCREMENT; nothing deletes a
row, and a rolled-back insert gives its id back). Drawings, palettes and reasons
are members of sets. Alias, commit, creation time and hash are left out: no
statement modelled here reads them. Ids below 1 are refused before a
transaction starts and are not requested. `Gallery` is the abstract
specification: `Publish` accepts a draft on the newest state, `Moderate` changes
a status and logs it.

### PostcardStore

`db` is the committed tables, `writer` who holds SQLite's writer lock, `tx[p]`
the transaction on p's one connection: its phase, its request and its view
(snapshot, then snapshot with its own writes).

| Action | Code |
|---|---|
| `BeginPublish`, `BeginModeration` | `BeginTx(ctx, nil)` of `InsertWithPalette`, `setModeration` |
| `CheckParent`, `CheckLatest` | the two SELECTs, with `ErrParentNotFound` and `ErrDuplicate` |
| `InsertPostcard`, `InsertRefused` | the INSERT: becomes the writer on the newest state, or SQLITE_BUSY(_SNAPSHOT) |
| `UpdateStatus`, `UpdateTimesOut` | the UPDATE: waits for the lock, up to `busy_timeout` |
| `RefuseModeration` | `changed != 1` |
| `RecordEvent` | INSERT INTO moderation_events |
| `Commit`, `Abort` | `tx.Commit()`; `defer tx.Rollback()`, a cancelled request, a dead process |

SQLite is external: `Snapshot` and `MayUpgrade` model its WAL locking as the
store uses it. A read transaction that wants to write does not wait (SQLite
does not call the busy handler for an upgrade); a first statement that writes
does.

### RateLimiter

`entries` is the map. `AllowKnown`, `Refuse`, `AllowNew` and `AllowEvicting` are
the four outcomes of `Allow`, each with `removeExpired` before it; the mutex makes
a call one step. `removeOldest` walks a Go map, so of equally old entries any
may go. `lastCall`, `refused` and `recent` are history for the properties.

### SchemaMigration

`db` is the committed `user_version`, the set of versions whose DDL was run, and
whether the old rows carry their content identity. Each process walks through
`Open`: `Start` reads the version (outside a transaction), then per version
`BeginMigration`, `PrepareDDL`, `RunDDL`, `PopulateIdentity` (version 3),
`SetVersion`, `CommitMigration`, and `Finish`. `Fail` is every error path: rollback,
`db.Close()`, and `log.Fatal`; `Restart` starts the process again. `Fault` is a
crash or an I/O error at any point. DDL of version 1 is IF NOT EXISTS and,
where the table is there, only reads; the others fail on columns that exist.
What happens after `Open` (a server that stops, an admin command that is done)
is not modelled.

### PublicWall and WallClient

`PublicWall` keeps of the Gallery what a page of the wall depends on: the newest
id and the visible ids. `WallClient` instances it and adds the browser. A call of `loadWall` waits,
its page is read by the server in one snapshot (`ReadPage` with `ListBefore`), and
its answer arrives later, in any order (`Answered`), or it fails (`Failed`).
`LoadFirst` is `loadWall(true)`: page load, change of language, own publication;
`LoadMore` is the button. `steady` (what was visible ever since a first page was
read) and `overlap` (what a call found waiting) are history for the properties.

### EditorGeometry, DrawingTimeline and EditorHistory

`EditorGeometry` has the pure functions of editor.js on a grid whose size is a
constant: `linePoints`, `floodFill` and the two flips. `DrawingTimeline` is a past, a
present and a future of drawings. `EditorHistory` is class `EditorModel` with the
handlers of app.js around it, one action per handler: `PointerDown`,
`PointerMove`, `PointerUp`, `ApplyAt` (Space or Enter), `Clear`, the flips, `Undo`,
`Redo`, `SetTool`, `SetSelected`, `Reload`, `RemixArrives`, `RemixFails`, `Published`.
Nothing in the page keeps a key, a button or a second finger from coming while
a pointer draws; the constant `Concurrent` says whether they do. The editor is mapped to the
timeline twice: for `Timeline` a stroke in progress stands where it began, for
`Shown` where it has got to; what interrupts a stroke (`Interrupts`) is a step of
the second.

### PublishFlow

The browser's side of publication over an instance of `Gallery`. `editor` is what
a publication would send (drawing, palette, `remixParentID`), `draft` what local
storage holds, `publishing` the lock of `publish` and what it waits for, and
`requests` every POST that was sent. A request is sent (`Send`), handled (`Accept`,
`Limit`, `RejectParent`, `RejectRepeat`, `StoreFails`) and answered (`Answered`) in
separate steps; `Lost` and `Load` give it up, and it may still be handled. The
fetch of a remix is read by the server (`RemixRead`) and arrives (`RemixArrives`)
or fails (`RemixFails`). The limiter may refuse at any time. `origin` and
`draftOrigin` are history: what the drawing is a remix of. The checks of a
payload's form are left out, because the page always passes them.

### PublicViews

The server's read side, and the two clocks in it. `history` is every committed
state of the postcards table, oldest first, so that a property can ask which
state an answer describes; `handler[h]` is one request with its route, what
`s.now()` returned, the snapshot of its transaction and the parts of the answer
so far; `answer` is what the last step answered.

| Action | Code |
|---|---|
| `Receive` | `ServeHTTP`: path, then method; `isoWeekFor(s.now())` of the mosaic and the statistics |
| `ReadClock`, `Publish` | `handlePostcard` up to `s.now()`; then `InsertWithPalette` as one step (its statements and its deduplication are in PostcardStore; here more is accepted) |
| `CountAll`, `CountThisWeek`, `CountRemixes`, `GroupPalettes` | the four queries of `PublicStats` |
| `CountWeek`, `ServeWeek` | the two queries of `ListPublicBetween`, the ETag and 304 of `handleWeekly` |
| `Share`, `Random` | `GetPublic` with `handleShare`, `RandomPublic` with `handleRandom` |
| `Moderate` | an admin command in another process, between any two statements |
| `Fail` | an error of a statement, or a client that is gone |

A tick is the smallest step of the clock; `NotBefore` is the comparison of two
RFC3339Nano texts, in which a whole second ("00Z") sorts after its fractions
("00.5Z"). A postcard's content is its palette, which is what tiles and
statistics tell apart. The connection of the server is one (`ConnectionFree`);
the snapshot is SQLite's. `Matches` is what a cache may hold: the ETag of any
mosaic there was before the request.

### Commands

The runs of the binary on one data directory, each `pixelgrama`, `pixelgrama
backup`, `pixelgrama admin hide|restore|list` or an unknown command, started by
root or by another user. A process walks through `main`: `LoadConfig`,
`prepareRuntime` call by call (`MkdirAll`, `DropPrivileges`, `Chown`,
`CheckUser`), `Open`, and its command. `Fail` is `log.Fatalf` after a failed call,
and a crash, at any step.

| Action | Code |
|---|---|
| `Configure`, `ListenAndServe`, `Return` | `main` after `Open`: `app.New`, the listener, the deferred `database.Close()` |
| `Signal`, `Shutdown`, `GraceExpires` | SIGTERM, the goroutine that calls `server.Shutdown`, its ten seconds |
| `Accept`, `Commit`, `Answer` | the handler of POST /postcard, as far as a shutdown can cut it off |
| `Stat`, `VacuumBegins`, `VacuumEnds`, `VacuumFails`, `Verify`, `Remove` | `Store.Backup` and `verifyBackup` |
| `Moderate`, `Encode`, `Audit`, `List` | `runAdminAction`, `runAdminList` |
| `Upgrade`, `CleanUp` | external: a newer release migrates the file; the operator removes a broken backup |

`begun`, `user`, `reported` and `audit` are history for the properties.

## 3. Runs

| Run | Instance | What it shows |
|---|---|---|
| `store` | 2 servers, 2 admins, 2 palettes, 2 postcards, 2 events, fair | no transaction builds on stale tables; deduplication and parent check hold when a postcard is accepted; status and log never disagree; the store implements Gallery; every transaction ends |
| `rate_limiter` | 3 clients, 2 entries, 2 calls per window of 3, clock to 7 | memory, bursts, refusals, evictions |
| `migrate` | 2 processes, versions 0-5 and unversioned, 2 faults, fair | version and columns move together with crashes anywhere, the version rises by one, a future file is never served, the loser of a race comes back and all end up serving |
| `editor_history` | 2 cells, 2 colours, 2 entries of history, every device at once | stacks bounded, draft current, every step of the history on a line of drawings, also those that interrupt a stroke, unless it is another stroke |
| `wall_client` | 2 calls at once, pages of 1, 4 postcards, 2 verdicts | no postcard twice; newest first unless calls overlap; nothing missing between the top and the cursor unless a reset overlaps; the cursor is a postcard that is shown |
| `publish_flow` | 2 publications of one visitor, 2 drawings, 2 postcards, 1 event | no wrong parent, a repeated publication is refused, drafts outlive failures |
| `public_views` | 2 requests, 2 palettes, weeks of 2 seconds of 2 ticks, clock 3 to 5, 3 changes | every answer describes one current state, the numbers add up, the mosaic is the latest of its week, 304 hides no change, later ids are not older unless the requests overlapped |
| `commands` | 2 processes of any command and user, 1 request, 2 postcards, fair | privileges, backups, reports and the stop of the server, with a failure at any step |
| `migrate_race` | violated | README.md:105 against operations.go:102 |
| `publish_remix` | violated | README.md:67 against app.js:511 |
| `week_boundary` | violated | README.md:63 against weekly.go:30 |
| `shutdown` | violated | main.go:83 and 86 against main.go:90 |

Bounds. A property of the store relates one transaction to a commit of another
and, for moderation, to an earlier event on the same postcard: two servers and
two admins give every pair of transactions, two postcards and two events let a
postcard be hidden, restored and repeated between a check and an INSERT, and
MaxPostcards bounds where publications may begin, so that two that overlap make
three. The limiter needs a client more than entries, a limit above one, and
time for three windows. Migration is finite but for faults. The editor's history
reaches its limit with two entries, and with two cells and two colours there
are drawings enough to tell the oldest entry, the present one and a redone one
apart; its graph is finite without further bounds. Pages of one postcard make
every postcard a page boundary, and four of them give a wall of four pages;
three calls, or pages of two with five postcards, show nothing new. Two
publications of the visitor and two postcards let a publication be lost, hidden
and repeated and a draft of one remix meet another; three postcards hold, too.
For the views, the clock runs from the last tick of one week over the first
second of the next (half a second is where the texts disagree with the times),
a mosaic of two is full with two postcards of the three that fit, and three
changes are a publication, a remix of it and a hide, in any order and around
any two statements of two requests; share links and remixes name postcard 1
only (`Named`). Two processes of the binary are every pair of commands, and the
second one may be the restart or repetition of the first; a failed backup and
its successor are the pair that matters, and one request is enough to be cut
off. Symmetry is used only where servers, clients, calls, handlers and data are
interchangeable, and not for liveness.

Deadlock is not checked where processes may be done (bounds reached, everyone
idle, serving or ended); it is checked for the limiter, the editor, the wall,
the publication flow and the views, which can always be used.

### What the code promises and does not

* `migrate_race`: two processes open a new file. The later one has read version
  0; by the time it runs the DDL of version 1 the table is there, so the DDL
  does nothing, and it commits `user_version = 1` over the migrated file. From
  then on every migration fails on a duplicate column: the file needs a repair
  by hand. It takes a web server and a command started together on a new
  volume. From version 1 on it cannot happen (`migrate`, and the theorem
  `Sequential`); that is why `migrate` lets one process be first on a file
  that has no version.
* `publish_remix`: a visitor has the draft of a remix and opens another remix
  that cannot be fetched (hidden, or the network is gone; or the same one).
  `loadRemix` then clears the parent but leaves the restored drawing, and the
  remix is published, and saved with the next edit, without its parent. The
  same happens if a remix arrives while a publication is under way that then
  succeeds (app.js:458). A wrong parent is never named (`NeverWrongParent`).
* `week_boundary`: a postcard made within the first second of a week, but not
  on it, is missing in that week's mosaic and statistics and counts for the
  week before. Everything else about the week holds: the theorem `WeekRule` says
  exactly which week a time counts for, and `MosaicIsLatestOfWeek` that the
  mosaic is the latest of those.
* `shutdown`: `ListenAndServe` returns when `Shutdown` is called, not when it is
  done; `main` does not wait for the goroutine and ends, with handlers still
  working. What they had committed stays, and their clients get no answer.
  What does hold is that the server stops (`StopsOnSignal`).

Three more, which the properties allow for:

* README.md:39 says pixel-identical consecutive submissions are rejected;
  store.go:113 also compares the palette, so the same drawing is accepted twice
  in a row under two palettes. `NoConsecutiveRepeat` states the rule of the code.
* README.md:63 says the mosaic restores chronological order. It is in the order of
  ids, and `handlePostcard` reads the clock as an argument of `InsertWithPalette`,
  which then waits for the connection: of two overlapping publications the one
  that read the clock first may be stored second, and the older postcard is
  shown after the younger one. `RealTimeOrder` says exactly how far this goes: a
  postcard is not older than any that was stored when its request arrived.
* README.md:67 says the editor groups pointer strokes into undo history. Nothing
  looks at which pointer an event is of: a second finger that goes down while the
  first draws overwrites `strokeBefore` (editor.js:471), and Ctrl+Z drops it
  (editor.js:538). The drawing that the first stroke began from is then no
  entry, and no undo removes its cells alone. With one device at a time every stroke is
  an entry (theorem `StrokesAreGrouped`). What else comes during a stroke (a fill,
  a flip, Clear, Enter) is an entry of its own that undo takes back, and undo and
  redo move from the drawing that is shown; `HistoryIsTimeline` has the second
  stroke as its only exception.

Two more hazards are in the models, but contradict no document, and no property
is about them: a moderation that is committed may be reported as failed, if the
result cannot be written (admin.go:124; what is reported as done is done,
`ReportsAreTrue`), and a backup that breaks off leaves a file at which the next
one refuses to start (operations.go:225; it is never reported as verified,
`VerifiedBackupsLast`).

Two properties have an exception in their antecedent, because the code does not
keep them without it; what README.md:39 promises of pages is the server's
cursor, which keeps it:

* `NoGap` excludes a wall that was reset (own publication,
  change of language) while a page was on its way: the late answer draws its
  page on the new wall, out of order, sets its cursor (app.js:406), so that the
  postcards between are missing, and may hide the load-more button. A load-more
  that fails hides the button as well (app.js:411); the cursor stays. Two
  overlapping clicks on load more do no harm: `drawPostcard` skips what is there.
* `DraftOutlivesFailure` is about refused, failed and lost publications. After a
  successful one the draft is removed even if it was drawn after the request
  was sent (app.js:457).

## 4. Fairness

* `PostcardStore!FairSpec`: a transaction that began runs its next statement.
  `InsertWithPalette` and `setModeration` wait for nothing between statements,
  and `busy_timeout` bounds the wait for the lock. Nothing makes a process begin
  a transaction, or abort.
* `SchemaMigration!FairSpec`: `Open` runs its next statement, and a process that
  died is started again (`restart: unless-stopped` in docker-compose.yml; an
  operator repeats a command). Faults are never forced and are bounded. In
  `migrate` the same holds for a process that may run.
* `Commands!FairSpec`: the main goroutine of a server and the one that waits for
  the signal run their next statement. No handler has to come to an end,
  nothing has to be started, signalled or expire: `StopsOnSignal` holds even if
  a handler hangs for ever.

## 5. Proofs

TLAPS proves for all constants, from the named assumptions on them only
(`TableAssumption`, `ProcessAssumption`, `LimiterAssumption`,
`MigrationAssumption`, `GeometryAssumption`, `EditorAssumption`,
`DraftAssumption`, `FlowAssumption`, `ViewAssumption`, `ClientAssumption`,
`PageAssumption`, `CommandsAssumption`):

* **PostcardStore** (`PostcardStoreProofs`). The inductive invariant is `TypeOK`,
  `OneWriter` and `TransactionsSound`: what a transaction has checked holds in its
  snapshot, an INSERT becomes the writer only if that snapshot is the committed
  state, and the lock then keeps it so until COMMIT. `OneWriter` alone is not
  inductive (a COMMIT must know what it commits), nor is the deduplication
  property, which is about a step: it follows from the invariant at `Commit`.
  `Implementation` maps each COMMIT to one step of Gallery and everything else to
  a stutter; `StoreLog` and `StoreParents` then carry Gallery's invariants over.
* **RateLimiter** (`RateLimiterProofs`). `BurstBound` is not inductive: the
  invariant `WindowsAccounted` splits a client's recent admissions into those
  before its window (fewer than Limit) and those in it (at most the count).
* **SchemaMigration** (`SchemaMigrationProofs`). Three invariants. `IInv`, from any
  file: what a process has migrated is in the file and stays, and a transaction
  that holds the lock commits a superset; it gives `NoColumnMissing`. `SInv`,
  from a file that has had version 1: whoever holds the lock is exactly as far
  as the file; it gives `NamesSchema`, `Sequential` and `ServesCurrent`. The
  hypothesis `0 \notin InitialVersions` is needed: `migrate_race` refutes them
  without it. `EInv` takes its place where one process is first on a file that
  has no version (`SpecAfter`, the safety part of the run `migrate`): until version
  1 is committed the others have not started, and the first commits exactly
  version 1; that COMMIT leads from `EInv` to `SInv`, and so to `NamesSchemaAfter`,
  `SequentialAfter` and `ServesCurrentAfter`, for files of every version.
* **PublicWall** (`GalleryProofs!WallImplemented`). A publication adds one visible
  postcard with the next id, a verdict moves one across; so `WallClient` runs
  against what the store really does.
* **EditorHistory** (`EditorHistoryProofs`). `Bounded` rests on the sum of the two
  stacks: `commit` alone looks at the limit, undo and redo keep the sum.
  `TimelineKept` maps past, present and future to undo stack, drawing and
  redo stack, with the drawing before an open stroke as the present until the
  stroke ends, and the drawing that is shown as the present of what interrupts it
  (`EditsMove`: every edit commits what is shown, or begins a stroke).
  `TimelineImplemented` and `StrokesAreGrouped` have no exception when there is one
  device at a time (`~Concurrent`), since then no edit meets an open stroke.
* **EditorGeometry** (`EditorHistoryProofs`), for every drawing and any size, where
  the run has two cells. `LineArrives`: linePoints' `while (true)` ends, at the end
  of the line, with no gap and nothing outside. Its invariant is Bresenham's: after
  i of a columns and j of b rows the error is a(1+j) - b(1+i), so while the end is
  not reached a turn moves, and never past it (`Bresenham`). `RegionIsConnected`:
  the region is the least set with its start that is closed under neighbours of
  one colour, as the painted cells of floodFill's worklist are when it is empty; a
  round that reaches anything reaches a new cell, so as many rounds as cells are
  enough (`RoundsEnd`). `FillSettles` is why leaving out floodFill's early return
  changes nothing, and `FlipsUndo` the flips' test for every drawing.
* **PublishFlow** (`PublishFlowProofs`). `ParentsRight` needs that editor and draft
  never name a parent but their own (`ParentsOwn`). `NeverTwice` relates requests
  to the table (`Recorded`: what was created is on the wall as it was sent) and
  uses the Gallery's theorem on the log: a newest postcard without an event is
  visible, so `RepeatsLatest` compares with it.

* **PublicViews** (`PublicReadsProofs`). `WeekRule` is arithmetic on the clock: for
  any length of the week and any fineness of the clock the comparison of the
  texts puts every time into exactly one week. `AnswersCurrent` is not inductive:
  `RequestsSound` says of every open transaction that what it has counted
  describes its snapshot, and that the snapshot is between the request's arrival
  and now; the history only grows, so it stays so. `NotModifiedCurrent` needs that
  an ETag determines the picture. `RealTimeOrdered` needs that no row is younger
  than the clock, that later states keep the rows and their times, and that a
  request that has read the clock is not older than what it arrived to
  (`TimesOrdered`). `MosaicLatest` combines `WeekRule` with what ORDER BY and LIMIT
  give (`NewestFacts`, `MosaicFacts`) and the invariant that a mosaic is the one of
  its snapshot and week (`OfItsWeek`). `StatsFit` adds to `AnswersCurrent` that GROUP
  BY accounts for every row (`SumsCount`) and that in every committed state a
  remix is newer than its parent (`RemixesYounger`): the oldest public postcard is
  a remix of none. `ViewsTyped` rests on the same facts about the queries.
* **WallClient** (`PublicReadsProofs`). None of its properties is inductive.
  `PageFacts` says what a page is, for any table and cursor: newest first, before
  its cursor, none left out down to the cursor it gives, and that one is its
  last postcard. The invariant `ClientInv` then accounts for what is under way:
  a page that was read is one before its call's cursor (`PagesSound`); while
  calls do not overlap, the one that waits continues the wall (`OneAtATime`);
  while no reset overlaps, a first page comes to an empty wall and is awaited
  alone (`FirstCallAlone`), what was there all the time down to a waiting call's
  cursor is on the wall, and what comes after it is on the call's page
  (`Accounted`). TLC finds `ClientInv` to hold on the run's instance, with pages of
  one and of two postcards.
* **Commands** (`CommandsProofs`). `Unprivileged` walks the system calls: each phase
  of `prepareRuntime` fixes what the calls before it have taken away. `BackupsLast`
  rests on two facts about the destination: VACUUM INTO never touches a whole
  file, and a process that would remove one (`rejected`) implies that none was
  reported. `ReportsHold` counts the events of a process by its phase.

Sorted pages, the wall that is drawn postcard by postcard and the sum over the
palettes are values of a CHOOSE or of a recursive function, and that there is
such a value takes induction. The library's induction theorems take an operator
as a parameter, which no prover here can instantiate; instead, `LeastNumber` (a set
of numbers has a least one, from `WFMin`) is applied to the set of sizes at which
the statement fails: one step down it holds, and a contradiction follows.
`DescendingExists`, `DrawsExists` (and with it `DrawnStepwise`), `SumsCount`,
`RoundsExist`, `RoundsEnd` and `LineArrives` are proved so. `WalkExists` takes the
least set of states that a loop does not leave in place of induction.

Only model-checked: liveness (`TransactionsEnd`, `EventuallyOpen`, `StopsOnSignal`),
which TLAPS cannot prove. Every other property of a run that passes is a theorem
about the specification, or the safety part of the specification, of that run.

## 6. Not modelled

* The checks of a payload's form, of query parameters and of the environment,
  client addresses, hashing, the palette catalog, PNG and HTML rendering, CSS and
  the daily challenge: pure functions of one input, without state. Where a
  handler or `main` uses them they are the choice between going on and one
  refusal.
* `Cache-Control` of a shared PNG: a public postcard may stay in caches for a year
  after it was hidden. The code chooses so, and no document says otherwise.
* `Store.List`, which only tests call.
* Container files and workflows, which are outside the program.
