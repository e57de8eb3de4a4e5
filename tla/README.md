# The Bag Database in TLA+

The Bag Database indexes the ROS bag files of its storages in a PostgreSQL
database and serves them to a web front end. These modules model the parts of
it where concurrency, failures and order decide whether the index is right, and
whether what a page shows and says is so. Names of Java files are relative to
`src/main/java/com/github/swrirobotics/`, those of the front end to
`src/main/webapp/resources/js/`.

## The system

| part | state it keeps | operations | depends on |
|---|---|---|---|
| `bags/storage/BagScanner` | a single-thread executor's queue of scans and metadata updates; the map of storages | `initialize`, `reset`, `scanStorage`, `scanAllStorages`, `bagStorageChanged`, `updateAll...` | storages, `BagService`, `ConfigService` |
| `.../filesystem/FilesystemBagStorageImpl` | the watcher of its directory | `updateBagExistence`, `updateBags`, `uploadBag`, `watchEventsOccurred` | the file system, `BagService`, the scanner as listener |
| `.../filesystem/watcher/*RecursiveWatcher` | a watch key per directory, a thread, a settle timer | walk the tree and register, receive events, restart the timer, notify | `java.nio` watch service |
| `.../s3/S3BagStorageImpl` | the cached list of keys, a timer | the same as a directory, plus `checkForUpdates` | the S3 service, the scanner as listener |
| `bags/BagService` | tables `bags`, `topics`, `message_types`, `tags`, `bag_positions` | `updateBagFile`, `updateBagInDatabase`, `insertNewBag`, `removeMissingBags`, `removeDuplicateBags`, `updateBag`, tags, filters, images, video | the database, `ScriptService`, the geocoder |
| `scripts/ScriptService`, `RunnableScript` | the list of running scripts, an executor, the results | run on request or on new bags, time out, cancel, save results, apply output | Docker, `BagService` |
| `config/ConfigService` | `settings.yml` | read, rewrite | the file system |
| `status/StatusService` | latest status, a bounded queue of errors | `statusUpdate`, `clearErrors` | web socket |
| controllers (`admin`, `bags`, `account`, ...) | HTTP sessions | the requests that call the services above | all of it |
| `views/BagDatabaseViewport` | one STOMP connection, the list of subscriptions | connect, subscribe | the broker |
| `stores/ScriptStore`, `ScriptResultStore`, `views/ScriptResultGrid` | runs that are waited for, the results shown | run a script, wait, reload, refresh | `scripts/run`, `scripts/list_results`, `/topic/script_finished` |
| `views/BagUploadWindow` | the files to upload and their status, the target | add, upload, clear | `bags/upload` |
| `views/BagTreePanel`, `BagTreeFilterPanel`, `stores/BagTreeStore` | the folders loaded so far, a filter, counts | expand, search, refresh | `bags/treenode`, `bags/filteredcount` |
| `views/BagDetailsWindow` with `BagPropertyGrid`, `TagGrid`, `SetTagWindow`; `stores/BagStore` | a copy of a bag, its tags | edit, save, set and remove tags | `bags/get`, `bags/update`, tags |
| `views/BagGrid`, `SearchPanel`, `MapWindow` | the rows found, selections, a menu | search; details, tags, map, download, link, scripts of what is selected | `bags/search` and the above |
| `views/ScriptGrid`, `ScriptWindow`, `ScriptCriteriaWindow` | the list of scripts, a form | create, edit, save, remove | `scripts/...` |

How they interact: a change of a directory wakes its watcher, which after a
settle delay calls the storage's `watchEventsOccurred`; a bucket's timer finds
that the set of keys has changed; either way `bagStorageChanged` puts a scan on
the executor's queue. A scan runs `updateBagExistence` and `updateBags` in one
transaction and, if `removeOnDeletion` is set, a second check and
`removeMissingBags` in another. `updateBagFile` starts the automatic scripts of
a new bag, whose output comes back as tags and metadata of the bag. Web requests
read and write the same tables at any time. A page sends requests and goes on
without waiting; each answer, and each message from the server, comes to a callback
that works on whatever the page's widgets are by then.

What is hard about it:

* *interleaving*: the scanner thread, web requests, watcher threads, timers and
  script threads share the tables and the storages' state. Entities are loaded,
  kept for as long as a scan takes and stored with all their columns;
* *stale state*: files are looked at several times during a scan (existence
  check, listing, reading, second check) and may differ each time; the bucket's
  key cache answers for the bucket;
* *failure*: an exception ends a transaction, a timer or the rest of a queue
  entry; a crash loses the queue;
* *order*: a page's requests are answered in any order, and messages take another way
  than answers. What is asked for last is not what comes last;
* *liveness*: nothing repeats a scan. That the index catches up depends on every
  change leading to a scan whose looks at the files come after it.

What makes each part correct:

* index and scanner: one row per content; a row stays the same bag for life; the
  removal takes only bags whose file was gone; every new file ends up indexed;
* watcher: every change in a registered tree is followed by a notification,
  every directory ends up registered; a stopped watcher is silent;
* scripts: every run is announced in the end, once what it leaves is committed; its
  output reaches the bag; no run drops out of the list unnoticed;
* page: it shows what is stored and comes to show what has been stored; what it says of
  a save, an upload or a tag is true; nothing it waits for is waited for in vain;
* uploads: a file that was there is kept, one reported as uploaded is whole;
* script editor: no script runs by itself on a bag its criteria exclude, and a removed one
  stays so;
* configuration: a reader sees the old or the new settings;
* status: the queue is bounded and keeps the latest errors.

## Modules

`BagScanner.tla` is the scanner with its storages, the rows of the table `bags`
and everything that acts on them. `MCBagScanner.tla` gives it small instances,
`BagScannerProofs.tla` proves its safety for all instances.

| TLA+ | code |
|---|---|
| `fs` | what lies in each storage at each path. A content is a value of `Contents` (its MD5 sum stands for it), `Garbled` is a file `BagReader` rejects, for instance one being copied |
| `rows`, `nextId` | the committed table `bags`: storage, path and file name, MD5 sum, `missing`, and one field for all that users edit |
| `sess`, `wrote`, `held`, `fresh`, `lost` | the persistence context of the scanner's transaction: the copies it loaded, those it changed, those of them it has flushed, those it inserted, and `missingBagMd5sums` |
| `queue`, `phase`, `cur`, `todo` | `myExecutor`'s queue and how far the running scan is |
| `dirty`, `BagStorageChanged` | a directory's watcher between the change and the settle timer's notification (`RecursiveWatcher`, abstracted to one pending notification per directory) |
| `keys`, `CheckForUpdates`, `PollFails` | a bucket's `myKeyCache` and the runs of its `myUpdateTimer` |
| `watched`, `WatcherWalks`, `closed` | which timers are alive, and which watchers at work: a directory's is once its thread has walked the tree, some time after the start; whether `reset` has closed the S3 clients |
| `missed` | not in the code: the directories that changed before that walk, until a scan of them begins |
| `StartScan`, `QueryRows`, `ListFiles`, `UpdateBagFile`, `CommitScan` | the first transaction of `scanStorage`: `updateBagExistence`; the queries of `updateBags`; the listing; `updateBagFile` on each file; the commit |
| `Recheck`, `Purge` | the second transaction: `updateBagExistence`; `removeMissingBags` and the commit |
| `RequestScan`, `AdminRemoveMissing`, `AdminRemoveDuplicates` | the administrator's buttons |
| `EditBegin`, `EditEnd` | `BagService.updateBag`: load, then store all columns |
| `Reset` | `BagScanner.reset`, called when a saved configuration names another bag path |
| `Restart` | the process dies and `initialize` scans every storage |

Choices of the model, and why they are sound for what is checked:

* The steps of a scan are split wherever another thread's step in between can be
  noticed: between the transactions, at the two looks at the files, at each file
  and at the commit. `updateBagExistence` is one step: its loop checks one file
  after the other, and a file that changes during the loop is as one that changed
  before or after it, row by row.
* One file is read in one step, and its MD5 sum and metadata agree. The code
  reads them one after the other.
* PostgreSQL at READ COMMITTED: `DbView` is what a query of the scan sees, its own
  changes included. A changed row is locked once Hibernate flushes it, which it
  does before the next query (`Flush`), so an administrator's `DELETE` or an edit waits
  for the rows in `held`, and not yet for one that has just been given another path. A
  flush of a row that has been deleted meanwhile throws (`CanFlush`): within
  `updateBagFile` only this file is skipped, but the transaction can then not be
  committed (`QueryFails`).
* An upload to a directory is a file that appears; its two steps (a check for
  the name, a copy in place) are not distinguished from another program's.
* The storages are those of one configuration: `deleteUnownedBags` then finds
  nothing. The unique constraint on MD5 sums is not in the model, since
  `UniqueMd5` shows the code never gets there.
* One user edit at a time. Two edits of one row overwrite each other, as two
  saves of a form do.
* Requests to S3 fail one at a time (`S3Fails`): a listing or a download.

Not in `BagScanner`: the metadata updaters that share its executor, topics, message types, tags
and GPS positions of a bag.

`RecursiveWatcher.tla` is the watcher that `BagScanner` abstracts to `dirty`: the
abstract class and its subclass `DefaultRecursiveWatcher`. `MCRecursiveWatcher.tla`
gives it small trees, `RecursiveWatcherProofs.tla` proves its safety for all trees.

| TLA+ | code |
|---|---|
| `exists` | the directories below the storage's base directory that are not ignored (`ignorePaths`, names with an `@`). They come and go |
| `mapped`, `live` | the keys of `watchPathKeyMap`, and those whose `WatchKey` is of the directory that is there now |
| `signalled` | the watch keys queued in the `WatchService` |
| `thread`, `running`, `closed` | where the watch thread is, its flag, and whether the service has been closed |
| `timer`, `tasks` | the settle timer that waits, and the timer tasks at work. `cancel` does not stop a task at work, so there may be several |
| `walker`, `visit`, `opened` | who holds the watcher's lock in `walkTreeAndSetWatches`; directories it has found, and those it has visited but not listed |
| `VisitDirectory`, `VisitFails`, `ListDirectory`, `WalkBreaks`, `EndWalk` | the walk: `preVisitDirectory` with `registerWatch`; `visitFileFailed`; the listing of a directory, which comes after its registration; the exception that a closed service throws out of the walk |
| `StartThread`, `BeforePollEventLoop`, `PollEvents`, `RestartWaitSettlementTimer`, `ExitLoop` | the watch thread |
| `TimerRunsOut`, `WatchEventsOccurred`, `UnregisterStaleWatches`, `FireListenerEvents` | the timer task |
| `Stop` | `stop`, which `FilesystemBagStorageImpl.stop` and so `BagScanner.reset` calls |
| `ChangeFile`, `CreateDirectory`, `DeleteDirectory` | what others do to the tree, and the event it leads to |
| `unseen`, `deaf` | not in the code: the directories changed since the last call of the listener, and whether a directory has been left without a working key |

The walk is split at every directory because directories come and go meanwhile;
the other synchronized methods are one step each. The check for stale keys looks at
every path in one step: a directory that vanishes or appears during it is as one
that did so before or after. The base directory is there when the storage starts
and is not deleted. `deaf` is set in the two cases in which the code leaves a
directory without a key and does nothing about it: `register` fails, or the
directory is a new one of the name of one whose key is still in the map. What
changes in a directory before the first walk has registered it raises no event, as the
comment of `start` says (`Noted`); in `BagScanner` that is `missed`.

`ScriptService.tla` is the running of scripts: `ScriptService` and `RunnableScript`.
`RunLife.tla` is what it promises to whoever starts a run: a run is started, may be
cancelled, ends with or without a result, and is announced after it was cancelled or has
ended. `ScriptService` takes an instance of it in which a run is started once `runScript`
has submitted it, over when its transaction is, and stored when that
transaction has been committed with a result (`RunsLive`). `MCScriptService` gives it two runs,
`ScriptServiceProofs` proves the refinement and the module's invariants for all instances.

| TLA+ | code |
|---|---|
| `call`, `slot`, `list` | calls of `runScript`, which hold no lock, and the `ArrayList` `runningScripts`. `add` reads the size (`AddBegins`), then writes the element and the new size (`AddEnds`) |
| `task`, `outcome`, `future` | a `RunnableScript` in `taskExecutor`, how its container ended, and the `Future` in the list |
| `late`, `TimeoutPasses` | the runs whose timeout has passed, counted from `initialize`, which `runScript` calls |
| `SaveResult`, `ProcessScriptOutput`, `CommitRun` | the transaction of a run: its row in `script_results`, the bags its output names, the commit or the rollback. A commit may fail for any outcome, as when the script has been deleted; an I/O error may come before the output has been read or after |
| `bag`, `ScanEnds` | whether a run's bag can be seen in the database. The bags of automatic scripts are those of a scan's open transaction |
| `results`, `updated` | what runs leave in the database |
| `check`, `pos`, `finished`, `oldSize` | `checkRunningScripts`: its loop over the list, and `removeAll` |
| `Kept`, `Place`, `Unfinished` | what `removeAll` keeps, each element in the next free place |
| `disturbed`, `CheckThrows` | the `ConcurrentModificationException` of the loop, or a `null` found in the list |
| `announced` | the messages on `/topic/script_finished` |
| `torn` | not in the code: two changes of the list have overlapped |

The list is an `ArrayList` that is changed without a common lock, a data race; the
model has the outcomes of the interleaved reads and writes: an element overwritten,
a gap, a removal that loses what was added meanwhile. The pool starts runs in any
order. An interrupt does not end a container. A commit and the end of its `Future`, which
follows at once in the same thread, are one step. Status messages and the text of results
are left out.

### The pages

The front end is single-threaded JavaScript; its concurrency is that of requests under
way, messages, several windows and the server. In each of the following modules one action is
one callback of the page, one handler of a click, or one transaction of the server.
Requests and messages are sets or counters: the next to be answered is any of them.
What ExtJS itself does is external and modelled as far as these widgets use it: a store
replaces its rows by those of an answer, and a tree's nodes by those of a folder; a
`BufferedStore` forgets an answer when it has been told to load again; a mask keeps clicks from
what it covers. Times, layout, colours and texts of messages are left out.

`Viewport.tla` is `BagDatabaseViewport`, `ScriptResults.tla` a script's run as the page
sees it. Its server is `RunLife`, so that what holds here holds with `ScriptService`
in its place. `ScriptResultsProofs` proves its safety.

| TLA+ | code |
|---|---|
| `socket`, `isStompConnected`, `subscriptions` | the connection, the flag and the list of the viewport. After an error it stays down: `connectWebSocket` does not exist |
| `frames`, `broker`, `inbox` | SUBSCRIBE frames, subscriptions at the broker, messages. A message is delivered only to who has subscribed when it is sent |
| `request`, `RunScript`, `StartRun`, `RefuseRun`, `RunAnswered`, `RunAnswerLost` | `ScriptStore.runScript` and `ScriptController.runScript` |
| `pendingScripts`, `ReloadIfScriptFinished` | `waitForCompletion`, `reloadIfScriptFinished` |
| `asked`, `answers`, `shown`, `selected` | the grid's store and selection: `autoLoad`, Refresh, `getScriptResults` |

`BagUpload.tla` is `BagUploadWindow` with `uploadBag` of a directory, both in full.
`BagUploadProofs` proves its safety.

| TLA+ | code |
|---|---|
| `list`, `status`, `target` | the records of the window's store and its fields. `added` keeps an item from being added twice: two records of one file are two items |
| `posted`, `goal`, `heard` | requests of `postDocument`; each keeps the record it was sent for, even when that has gone from the list |
| `stage`, `CheckDirectory`, `MakeDirectory`, `CheckFile`, `OpenFile`, `CopyFile` | `uploadBag`, between any two steps of which another request may go on |
| `TurnAway` | an answer that is not the application's, whose decoding throws: the record stays Uploading |
| `directories`, `older`, `bytes` | the file system. `bytes` are the items whose bytes a file may hold: two that copy to one file at a time leave a mixture |
| `ClearFinished`, `Sweep`, `Round` | the loop over the store that removes from it, and one round of it |

`FolderView.tla` is `BagTreePanel` with its filter and its store, `getTreeNodes` and
`checkFilteredBagCounts`. `BagPanelsProofs` proves its safety together with that of
`BagActions`. The two are about one panel, so their names differ (`TreeSpec`, `TreeTypeOK`),
and what both speak of, bags and folders, is in `PanelNodes.tla`.

| TLA+ | code |
|---|---|
| `tree`, `loaded`, `fetches` | the `TreeStore` and its requests, one for each folder. `stray` marks one whose folder's node has been replaced meanwhile. After one that fails (`LoadFails`) the folder can be expanded again |
| `filtered`, `filter`, `visible` | the store's filter, which `FilterNodes` applies from the leaves up |
| `filteredBagCount`, `asked`, `answers` | the numbers beside the folders and the requests for them. `Fill` gives new nodes 0; an answer sets those it names |
| `Shown`, `Counted` | which names the page and the server find to match: the server ignores case |

`BagDetails.tla` is a bag in windows: `BagDetailsWindow`, `BagPropertyGrid`, `TagGrid`,
`SetTagWindow`, `saveBags`, with `getBag`, `updateBag`, `setTagForBag` and their kin.
`BagDetailsProofs` proves its safety.

| TLA+ | code |
|---|---|
| `stored`, `there` | the row of the bag with its tags; the scanner or an administrator may remove it |
| `others`, `OtherWrites` | a scan or the output of a script writes the same columns |
| `source`, `saveOn`, `saving` | the grid's copy, its Save button, the request to save. A new value that is empty or 0 (`Falsy`) enables the button only if there was a value before. `SaveLost` gives up a request that the server may still serve (`late`) |
| `shownTags`, `requests`, `asked`, `tagLists` | the grid of tags, requests that set or remove tags, and reloads of the grid |
| `Fitted`, `Merged` | `updateBag`: the fields of the request, the coordinate only if both halves of it are there and null otherwise; and its tags added to the row's |
| `lastSaver`, `outcome` | not in the code: whose save was the last to write the row, if none else has written it since, and what its window was told |

`BagActions.tla` is the list, the tree's selection and what a user starts from them. A piece
of work is a record of `jobs`: its kind, the bags it was started for, those it has
been done for, and how far it is. `BagPanelsProofs` proves its safety.

| TLA+ | code |
|---|---|
| `known`, `tagged`, `TagChanged` | the bags in the database and those with the tag that users set, which another page, a script or a request given up may set or take off |
| `cleared` | not in the code: the bags from which others took the tag after it had been set here |
| `terms`, `load`, `answer`, `list` | the list's store, which `filterBags` clears and loads |
| `selection` | `pruneRemoved: false`: it keeps bags that the list no longer has; the tree's has folders too |
| `menu`, `CreateBagContextMenu`, `MenuItem` | the menu, which is for the bags that were selected when it was opened |
| `ListInfoButton`, `TreeInfoButton`, `ListButton`, `TreeButton` | the buttons of the two headers |
| `Read`, `ReadAnswered`, `DownloadNext`, `SubmitTag`, `SetTagForBag`, `TagAnswered` | the work itself; tags are set bag after bag until one fails, for whatever reason (the bag is gone, the value too long, somebody inserts the same tag), downloads started one after the other (in any order) |
| `TagLost` | the answer does not come, or not in time: the window says that there was an error |

`ScriptEditor.tla` is the list of scripts, one window at a time, the requests of both, and
what the scanner does with the criteria. `ScriptEditorProofs` proves its safety.

| TLA+ | code |
|---|---|
| `scripts`, `given`, `meant` | the table; ids that have been given; and, not in the code, every set of criteria a script was stored with |
| `form`, `reply`, `requests`, `Save` | the window. Until `scripts/get` is answered the hidden id of the form is 0, so saving adds a script |
| `deleting`, `shown`, `asked`, `answers` | the list, the question whether to delete, reloads |
| `AddScript`, `UpdateScript`, `Remove` | the transactions of `ScriptService` |
| `bag`, `looking`, `session`, `LoadCriteria`, `RunAutomaticScripts`, `EndScan` | `runAutomaticScripts` in the scan's session, which keeps the criteria it has once loaded. They are loaded after the scripts by a query of their own |


## Runs

The bounds on outside events of `MCBagScanner` are the `...Bound` definitions there; in
`MCRecursiveWatcher` it is `ChangeLimit`; elsewhere they are the constants named `Max...`
and the finite sets. `CHECK_DEADLOCK FALSE` everywhere: with its queue
empty, or its user idle, and the outside events used up the system rests.

| run | instance | shows |
|---|---|---|
| `scan_safety` | a directory and a bucket, two paths, two contents, one change, one removal, one edit, one failed request | `TypeOK`, `UniqueMd5`, `SessionSound`, `RowIdentityKept` |
| `scan_mirror` | a directory, two paths, two contents, three changes, a crash | `PurgeTakesOnlyGone`, `EventuallyMirrors` |
| `bucket` | a bucket to which objects are added, three changes or uploads, a forced scan, a reset, a crash | `EventuallyMirrors` |
| `watch` | three nested directories, two timer tasks, three changes, registrations that may fail | `TypeOK`, `NothingForgotten`, `TreeCovered`, `ChangesReported`, `StopsForGood` |
| `scripts` | two runs for one thread: a user's with a timeout, the scanner's without one | `TypeOK`, `ListSound`, `AnnouncedIsOver`, `TimedRunsAnnounced`, `RunsLive` |
| `results` | two runs, a click on Refresh, a connection that breaks | `TypeOK`, `SubscribedOnce`, `OnlyStoredShown`, `AwaitedResultShown` |
| `results_missed` | one run | a violation of `FinishedResultShown` |
| `upload` | two files of two names, two targets, two requests | `TypeOK`, `UploadedIsStored`, `OlderFilesKept`, `ClearTakesFinished`, `UploadEnds` |
| `folders` | a folder in a folder, a bag in each, one text to search for, three clicks, one change of the index | `TreeTypeOK`, `FilterShowsMatches`, `CountsSettle` |
| `details` | two windows on a bag, its coordinate, with null, 0 and another value, and a tag; two changes: edits, tags set or removed, a write by a scan or a script | `TypeOK`, `LastSaveShown`, `TagsSettle` |
| `actions` | two bags and a folder, one search, one piece of work of five kinds, two changes of tags by others | `TypeOK`, `TaggedAsTold`, `TagsComeToShow`, `DownloadsGoOn` |
| `editor` | a script whose criteria match nothing, an id to be given, one window, one save | `TypeOK`, `AutoRunsMatch`, `RemovedForGood` |

Why the bounds are enough to be interesting: two paths and two contents are what
it takes to move a bag, to replace it, to have a duplicate and to let two rows
claim one path; storages start in every possible state, so that up to four files are
there before the first of the changes; three changes let a file go away, come
back and go elsewhere around one scan. `Ids` is larger than the number of
insertions a run can make, except in `scan_safety`, where four insertions are
the end of it and only safety is checked.

For the watcher, a chain of three directories is what it takes for a directory to
appear below one that is not registered yet; three changes create two directories
behind a walk and then touch a file in the inner one, or delete, create and touch
one; two timer tasks let one start while another is at work. Every subtree may be
there at the start.

For the scripts, two runs of two callers are what it takes for two changes of the list
to overlap, with each other or with the check's removal, and one thread makes one
run wait behind the other's container, which may never end.

For the pages: two runs make one message come while another is waited for, and two
lists of different content be under way at once. Two uploads are what it takes to race for a
directory, with a target of the same name twice or a file sent again. A folder in a folder
has a count that its own bags do not make up, and three clicks search, expand or refresh
while the answers of the first are under way. Two windows save and change tags of one bag in any
order. Two changes are what it takes to save in one window what the other has removed, to
change what a scan or a script has written since the window was opened, to empty one half of
a coordinate and enter a 0 for it, or to make two lists of tags come in the wrong order.
Two bags of which one may be gone are what tells "some" from "all" in
tags and downloads, two changes by others take a tag off each of them or off and back on
one, and a folder is what is selected in the tree without being a bag. Once no work is left
to start (`MaxJobs`) nothing more is selected, since selections are for that only. A script
with criteria that match nothing shows every run that should not have been.

Fairness of `BagScanner` (`FairSpec`): the executor's thread goes on as long as it can, each
directory's settle timer fires after a change, and each bucket's timer goes on
as long as it is alive. Nothing is assumed of users, of administrators, of
whoever changes files, or of crashes; an edit in progress may stay so.

Fairness of `RecursiveWatcher`: the watch thread, the settle timer and every timer
task go on as long as they can, as threads do. Nothing is assumed of whoever changes
the tree or stops the watcher. The bound on changes matters here: events that never
pause for the settle delay would restart the timer for ever: "It is reset whenever a
new event occurs", as the class comment says.

Fairness of `ScriptService`: a call of `runScript` that has begun returns, the threads of
the pool go on except inside a container, timeouts pass, and the check is scheduled
every half second. Nothing is assumed of containers, of who asks for runs, or of
the scan that inserts a bag.

Fairness of the pages: the server answers a request and the page takes the answer; a
message arrives as long as the connection is up; a timer of the page goes off. Nothing is
assumed of users, of runs of scripts, of connections, or of the scanner. `ScriptEditor` has
only safety and no fairness.

What the liveness properties of the pages leave out, they name. `AwaitedResultShown` speaks
of runs that the page waits for before they are announced, with the subscription in place.
`CountsSettle` and `TagsSettle` say that the numbers and tags come to be right unless
something intervenes that makes outdated answers arrive last (`Calm`), which nothing in the code
prevents. `TagsComeToShow` excuses a lost answer, after which nothing is loaded again, and a
tag that somebody takes off. `UploadEnds` speaks of every item, however often it is sent,
unless something that is not the application has answered it. `UploadedIsStored` is
about items whose name no other item has, and `AutoRunsMatch` excuses removed
scripts; the findings below show why.

`EventuallyMirrors` says that once the files rest, the flags are right and every
bag file is indexed, with two exceptions it names: two rows of a storage with one
path, for which every scan throws; and a directory that changed after the scan at the start
had begun and before its watcher had walked it, until the next scan of it
(`RecursiveWatcher.java:103`).

### What the violation shows

`results_missed`: the page begins to wait for a run when the answer to its request comes. A
run that is over quickly is announced before that; the message finds nobody waiting, and then
the page waits for a message that has been. So the results panel does not "automatically
refresh when this script finishes" (`ScriptStore.js:100`).

More disagreements between the code and what it says of itself, without a run of their own:

* `removeMissingBags` deletes by the flag, in all storages, but only the scanned storage's
  flags have been checked just before (`BagScanner.java:381`). `scan_mirror` has one storage.
* A bag moved to another storage is a duplicate there and, a scan later, a deleted row here;
  nothing looks at the file again (`BagService.java:1650`).
* A file replaced between the existence check and the listing gets a second row with one
  path, and from then on `Collectors.toMap` throws (`FilesystemBagStorageImpl.java:142`).
* An edit that overlaps a scan restores the old `path` or `missing` (`BagService.java:1035`).
* A scan refreshes a bucket's key cache without telling anybody, so a change it saw but did
  not act on is not seen by the timer either (`S3BagStorageImpl.java:197`).
* A directory that is deleted and created again within the settle delay is still in
  `watchPathKeyMap` and keeps its dead key (`DefaultRecursiveWatcher.java:153`); `deaf`.
* An automatic script is started inside the transaction that inserts the bag; if it is over
  before the scan commits, its output finds no bag (`BagService.java:1703`).
* `reset` stops the storages and nothing starts them again before the next restart
  (`BagScanner.java:134`), though its comment says it "reinitializes everything"; in
  the model `watched` stays empty.
* `updateBagFile` finds the row of a bag as a duplicate of itself, so a forced full
  scan re-processes nothing (`BagService.java:1651`), though
  `docs/web-interface/administration.md:40-41` says that it "forces the Bag Database to
  re-process all existing bags".
* An exception in a `TimerTask` ends its timer, so one failed request ends the polling
  of a bucket (`PollFails`); an exception in a scan ends the scan, which nothing repeats.
* A script's timeout counts from its submission, and cancelling a run does not stop its
  container (`ScriptService.java:129`), though `docs/scripts/scripts.md:58-59` gives it as
  the time "the script's container may run before it is killed".
* Output in which a key has a value of the wrong type rolls the run's transaction back,
  and the result is lost with it (`CommitRun`, outcome `"malformed"`).
* A lost connection is not made again (`BagDatabaseViewport.js:206`).
* Two uploads of one name may overwrite each other (`FilesystemBagStorageImpl.java:341`), and
  of two uploads to a new directory one may fail (line 335).
* Counts of an old search come back after the filter has been cleared (`BagTreePanel.js:350`);
  `bagCount` also counts the bags of a folder whose name only begins alike
  (`FilesystemBagStorageImpl.java:242`), and a folder that holds only folders gets
  no count of matches (`Bag.java:54`).
* Saving a bag brings back a tag that was removed after the window was opened
  (`BagService.java:1033`). Of a coordinate with one half, or with 0 entered where nothing
  was, the window shows what the row has not (`BagService.java:1023`,
  `BagPropertyGrid.js:55`); a save that the server refuses looks like one that went well
  (`BagStore.js:89`).
* A script removed between the scanner's two queries runs with no criteria, that is, on any bag
  (`ScriptService.java:386`).

## Proofs

`BagScannerProofs.tla` proves for any storages, paths, contents, identifiers,
bounds and removal policies, from the assumptions of `BagScanner` (identifiers are
natural numbers, the markers for "none" are none of the values):

* `TypeCorrect`: `Spec => []TypeOK`
* `Md5sUnique`: `Spec => []UniqueMd5`
* `SessionsSound`: `Spec => []SessionSound`
* `IdentityKept`: `Spec => RowIdentityKept`
* `OneDirectoryPurge`: `Spec => PurgeTakesOnlyGone`, when nobody edits bags and the
  only storage is a directory
* `OwnPurgeTakesOnlyGone`: when nobody edits bags, with any storages, the same of the rows
  of the scanned directory's own bags

The inductive invariant is `IInv == TypeOK /\ UniqueMd5 /\ SessionSound`. `UniqueMd5`
alone is not inductive: a commit replaces rows by copies that were taken when the
scan started, and between the two a row may have been deleted, edited or changed.
`SessionSound` says what is needed of the copies: a copy of a row that is still
there is of the same bag; a copy of a deleted row can not be stored, because the
flush of a changed one fails and an unchanged one is not written; an inserted and
not yet committed row has a content that no committed row and no other inserted
row has, which is what the check for duplicates in `updateBagFile` gives, since it
sees the scan's own changes and nobody else inserts; and identifiers are never
handed out twice. There is one lemma per action; `NextInv` puts them together and
also shows that every step keeps each row's identity, from which `IdentityKept`
follows.

For the purge, `GoneInv` adds that a row whose file is not there has been without it at
some time since it was last written (`AbsentIsGone`), and that at the purge the session
holds every own row, changed exactly where its flag was wrong at the second look, and calls
missing only rows that were without their file then (`SecondLook`). The file may have come
back between the two: then the row goes all the same, which is why the property
speaks of what was gone and not of what is. The hypotheses are where the code stops keeping
the promise: an edit stores an old path, a bucket's files are looked up in a
cache, and bags of other storages are removed by flags that nobody has just checked (see
the findings above). Without any one of them TLC finds the property violated, with two
changes of a file and one edit, with a bucket, or with a second storage whose scan is
requested.

`RecursiveWatcherProofs.tla` proves for any tree of directories, any number of timer
tasks and any number of changes, from `TreeAssumption` (from every directory the way
up leads to the root) and `HolderAssumption` (the holders of the lock differ):

* `TypeCorrect`: `Spec => []TypeOK`
* `EveryDirectoryCovered`: `Spec => []TreeCovered`
* `NoChangeForgotten`: `Spec => []NothingForgotten`

The inductive invariant `Inv` adds to these three: `exists` is a tree; keys are of
directories that are there, and as long as the watcher is at work every mapped
directory that is there has its key (`KeysSound`); who holds the lock is walking
(`LockSound`); nothing has happened before the thread begins (`StartSound`).
`NothingForgotten` needs `TreeCovered`: a change in a directory without a watch
raises no event, so it must be shown that a walk is to come or under way, after
which the listener is called anyway. `TreeCovered` speaks of the path to a
directory (`PathTo`), and the lemmas about paths carry it through the walk: a
directory that has been listed hands its place on each path to the next directory
of the path, which the listing has found.

`ScriptServiceProofs.tla` proves for any runs, callers, timeouts and size of the pool:

* `TypeCorrect`: `Spec => []TypeOK`
* `NoneLost`: `Spec => []ListSound`
* `NewsIsTrue`: `Spec => []AnnouncedIsOver`
* `ImplementsRunLife`: `Spec => RunsLive`, the refinement of `RunLife`

The invariant of `NewsIsTrue` says what each run has in the database at each of its stages
(`Stored`: in the end its output only with its result, and neither of a run that an exception
has ended, though a commit that fails may leave neither of any) and that a `Future` is done
only after the commit or rollback (`Done`). It needs nothing of the
list, so it holds however the race on the list ends. The step simulation uses the same
invariant: each action is mapped to one of `Start`, `Cancel`, `End`, `Announce` or to a
stutter, and what it takes to enable the abstract action is what the invariant says of the stage
the run is at.

The list needs an invariant of its own (`ListInv`). That it never grows past the runs is not
obvious, since a caller writes the size it has read long before: `Sizes` bounds the list and
every size that anybody has read by the number of calls that have returned. `Alone` says what
"no two changes overlap" means for the steps: the caller that adds is the only one and has read
the size the list still has, and while finished runs are removed nobody adds. Until two changes
of the list overlap, `ListSound` follows from the two with lemmas about `Kept` and `Place`:
what is removed is what is finished, and the rest moves up in its order, none lost and none
doubled. What the theorem covers is the adds that break the check's loop, between announcing
some runs and removing any. It is silent once two adds, or an add and a removal, have
overlapped (`torn`): then the code may lose runs (`ScriptService.java:453`), and so does the
model.

`ScriptResultsProofs.tla` proves for any runs, topics and bounds:

* `TypeCorrect`: `Spec => []TypeOK`
* `EachTopicOnce`: `Spec => []SubscribedOnce`
* `NothingInvented`: `Spec => []OnlyStoredShown`

`SubscribedOnce` becomes inductive with what the connection is up to when the flag is not
set and with nothing having been sent before it is up; `OnlyStoredShown` with what the
stages of a request say of `started`, and with `RunLife`'s own `LifeOK`. The type bounds the
reloads of the list, which takes counting (`Owed`): each reload under way is owed to the
start of the page, to a click, or to a run that the page has ceased to wait for (`Dropped`),
and a run is waited for once, however often its message comes.

`BagUploadProofs.tla` proves for any files, names, targets and bounds, from
`NameAssumption` (each file has a name, the root is a target, the files are finitely many)
and `PostAssumption`:

* `TypeCorrect`: `Spec => []TypeOK`
* `FinishedCleared`: `Spec => ClearTakesFinished`
* `NothingOverwritten`: `Spec => OlderFilesKept`
* `UploadsStored`: `Spec => []UploadedIsStored`

Requests are checked, opened and copied in steps of their own, so what a file holds depends
on who else has opened it. The invariant says that requests are numbered as
they are sent (`Numbered`); that an item shows as Uploaded only if a request of its own is
stored (`Backed`); that who has found no file has found no older one, and none becomes older
afterwards (`Checked`), from which the first theorem follows; and that a
file which is being or has been copied holds its own bytes only, unless
another request names its place (`Whole`). The last needs no order of the steps.

`FinishedCleared` is about a loop, for lists of any length. `RoundsExist` shows that a loop of
any number of rounds has a run, so that the recursive function of `Swept` is one;
`Cleared(at, n)` is the loop's invariant: after `n` rounds the unfinished ones of the
first `n` records have moved up, each behind those before it, and the rest follows
unchanged. Its induction is by the smallest round at which it fails (`Smallest`, from
the well-foundedness of inclusion on finite sets).

`BagDetailsProofs.tla` proves for any windows, fields, tags, values and bounds:

* `TypeCorrect`: `Spec => []TypeOK`
* `SaveIsShown`: `Spec => []LastSaveShown`

What a window shows must be what the row holds, but for the cases that `ShownAs` names, already
when its save has been committed and the window has not been told (`Written`): in between the
mask keeps the user from editing. What `updateBag` makes of a coordinate is a case of `ShownAs`
(`FittedShown`), and so is what an edit can do that leaves the button grey (`EditStep`); a
write by others ends the claim. `Fresh` says that a window that is not open has no save, so
that no window is filled anew while its save is under way. The type bounds the reloads of tags
by the requests that ask for them (`Counted`).

`BagPanelsProofs.tla` proves for any bags, folders, searches and bounds:

* `TypeCorrect`: `Spec => []TypeOK`
* `ToldTheTruth`: `Spec => []TaggedAsTold`

`Sound` says what each stage of a piece of work means for the database: what has been done is
tagged, gone, or has had the tag taken off by somebody else since; who is served has done
all. It holds although other work, removals and changes of tags go on between any two bags,
and however a request ends: an error, be it a bag that is gone, any other exception or
an answer that never comes, undoes nothing. It does not say why there was one. The type needs
`ListSound`: the list's selection has no folders, so only details are ever opened for one.

Of the folder view it proves for any tree of folders, any texts and bounds, from
`NodeAssumption` and `TreeAssumption` (each node is in one folder or in the root, and
the bags, which the panel counts, are finitely many) and those of `FolderView` on texts
and bounds:

* `TreeTypeCorrect`: `TreeSpec => []TreeTypeOK`
* `FilterShown`: `TreeSpec => []FilterShowsMatches`

What the filter leaves is a recursive function over a tree of any depth. It needs no
induction: `FilterMatches` shows that whatever satisfies the function's equation is the
plain set of folders and matching bags, since bags have nothing below them and a
folder matches without its contents. That every visible node can be reached takes an
invariant of the loads under way (`Hanging`): an answer brings nodes of the folder it is for,
and that folder is in the store still, unless a refresh has replaced it and the
answer goes astray. The type bounds the requests for counts, which takes counting again
(`Paid`): a search pays for two, and a folder that is being loaded for the one that it makes
when it has come.

`ScriptEditorProofs.tla` proves for any scripts, criteria, bags and bounds, from the
assumptions of `ScriptEditor` (the markers are neither scripts nor criteria):

* `TypeCorrect`: `Spec => []TypeOK`
* `OnlyOnMatchingBags`: `Spec => []AutoRunsMatch`
* `NoneComesBack`: `Spec => RemovedForGood`

`AutoRunsMatch` is about the table, but runs are started from what the scanner's session has
read earlier. `SessionSound` closes the gap: what the session holds of a script that is there
is one of the sets it has been stored with. It may have been replaced since, but is
none of another script, and a script that was gone when its criteria were read stays gone,
which is `NoneComesBack`.

Only model-checked: the liveness properties (`EventuallyMirrors`, `ChangesReported`,
`StopsForGood`, `TimedRunsAnnounced`, `AwaitedResultShown`, `UploadEnds`, `CountsSettle`,
`TagsSettle`, `TagsComeToShow`, `DownloadsGoOn`), since liveness under fairness is out of the
prover's reach. `PurgeTakesOnlyGone` is proved under the hypotheses above only, and false
without them. Every other property of a passing run is a theorem.

## Plan

1. Done: `BagScanner`, `RecursiveWatcher`, `ScriptService` with `RunLife`, and the pages.
2. Done: the proofs of every safety property that a passing run checks.
3. `MassUpdates`: the metadata updaters of `BagScanner` on the scanner's executor,
   with script output of `BagService` (`addTagsToBag`): bags
   deleted between the list of identifiers and the update, and what is
   left when one bag of many fails.
4. `Settings`: `ConfigService` with its readers, and `reset` after a change; a
   crash between truncating and writing. `StatusQueue`: the bounded queue of errors,
   shown to implement a queue that keeps the latest ones.
5. `ByteRanges`: the ranges of a download as pure functions against a reference
   definition over all small ranges and lengths. To prove: a region lies in the
   file.
6. More abstract specifications. `Notifier`, a change that is followed by a
   notification: `RecursiveWatcher` implements it, and `dirty` of `BagScanner` is it.
   `Index`, the table as its users see it, rows that appear, change their place and
   go: `BagScanner` implements it by committed rows only, with the step
   simulation proved.

Each run is aimed at one question, and the small modules of 4 and 5 share one.

## Not modelled, and why

* Image and video decoding, reading a bag's metadata: pure functions of a file.
* Filters, sorting and paging of the table: queries that change nothing.
* Accounts and security, the geocoder: configuration and one HTTP request, with no
  protocol of their own.
* In the front end: the administration window, whose buttons send one request each; the login,
  configuration and about windows; the grids of topics and message types, which show
  fields of a loaded bag; the status line and the grid of errors, which come with
  `StatusQueue`; sorting, paging, saved columns, the drawing of maps, tooltips.
* What stands under 3 to 5 of the plan is not modelled yet.
