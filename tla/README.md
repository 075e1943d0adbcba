# Verification of the OpenWPM crawler

TLA+ specifications, model-checking configurations and machine-checked proofs
for the OpenWPM fork in `src/OpenWPM` and the analyses of its crawls in
`src/OpenWPM-Data-Analytics`. Paths below are relative to `src/OpenWPM` unless
they say otherwise; those of [the analyses](#analyses-analyzers-analysis) are
relative to `src/OpenWPM-Data-Analytics/main`.

- [The system](#the-system)
- [Modules](#modules)
- [The models and the code](#the-models-and-the-code)
- [Runs](#runs)
- [Fairness](#fairness)
- [Where the code departs from its comments](#where-the-code-departs-from-its-comments)
- [Proofs](#proofs)
- [Not modelled](#not-modelled)

## The system

A crawl is driven by one `TaskManager` process. It owns one
`BrowserManagerHandle` per browser; each handle starts a `BrowserManager`
process, which starts Firefox with the OpenWPM extension. The extension and the
manager send records to one `StorageController` process, each over a socket of
its own. The controller batches and writes them through a storage provider and
tells the manager through a queue which visits are complete; the manager then
invokes the callback of the visit, on which `crawler.py` takes the visit's job
off a Redis queue shared by all workers.

| Component | State | Operations | What makes it correct |
|---|---|---|---|
| `StorageController` (`openwpm/storage/storage_controller.py`) | `store_record_tasks`, `finalize_tasks`, shutdown flag, time of the last record, handler coroutines | one handler per connection; finalize; batch timeout; completion queue feeder; shutdown | no record lost or finalized twice, nothing reported before it is saved, every finalisation reported while it serves, shutdown ends |
| `ArrowProvider` (`openwpm/storage/arrow_storage.py`) | `_records`, `_batches`, `flush_events`, `storing_lock` | `store_record`, `finalize_visit_id`, `flush_cache` | a token resolves only when its data is on disk |
| SQLite, in-memory, LevelDB, local and cloud providers | a transaction, two caches, a write batch, files | the same interface, and `store_blob` | what was finalized is saved once, a content that was accepted is not lost or replaced, a crash costs less than a batch |
| `StorageControllerHandle`, `DataSocket` | queues, last status | launch, status, completed visits, shutdown | backpressure bounds the backlog, the shutdown is not lost |
| `TaskManager` (`openwpm/task_manager.py`) | browsers, `failure_count`, `failure_status`, `closing`, `unsaved_command_sequences` | execute a command sequence, watchdog, callback thread, close | one sequence at a time per browser, one callback per visit, the failure limit ends the crawl, close ends |
| `BrowserManagerHandle` (`openwpm/browser_manager.py`) | command and status queues, pids, `restart_required`, `is_fresh`, profile path | launch with up to four attempts, restart, close, kill, execute_command_sequence | an answer belongs to its command, every started visit is finalized, a restart keeps or clears the profile as asked |
| `BrowserManager` process | the driver, the queues | run a command, answer, shut down | one answer per command |
| `CommandSequence` | list of commands, callback | append, finalize, mark_done | Initialize first, Finalize last, callback once |
| Commands (`openwpm/commands`) | windows and frames of the browser, parts of screenshots on disk | load, browse, restart the tab, dump frames, take screenshots | no page outlives its visit, a dump and a picture show what they say they show, whatever pages do meanwhile |
| Profile commands, storage watchdog | tar files | dump, load, size check | a stateless visit starts from a clean profile |
| `MPLogger`, `ServerSocket` | listener thread, queues | log, close | records sent before close are written |
| `RedisWQ`, `crawler.py` | main and processing queue, leases, retries, `unsaved_jobs` | lease, renew, complete, check leases, signal handler | a job is neither lost nor completed without its data, retries are bounded |
| Extension session (`Extension/src/loggingdb.ts`) | current visit id | Initialize, Finalize, saveRecord | a record is attributed to the visit that caused it |
| Extension instruments | pending requests, responses, navigations, log counters | event listeners | each event is recorded once with its own attributes |
| Privileged APIs, deployment, configuration, schemas, utilities | little or none | | |
| Analyses (`src/OpenWPM-Data-Analytics`) | the rows read since the last reset, the results of each analyzer | select, analyze, save a table, view it | a script is judged by its own calls only, and the table and its portions say what was found |

The hard behaviours are: two processes that finalize the same visit over
different sockets; coroutines that await between reading and changing shared
dictionaries; a shutdown that races with sockets that still hold data; timeouts
of commands against their late answers; a failure counter and a restart flag
that three threads write; leases that expire while a job is being worked on;
asynchronous browser events that complete in any order. `PROJECT.json` lists
the ones of most weight at their lines under `hazards`, with the properties
that cover them.

## Modules

| Module | What it is |
|---|---|
| `ArrowProvider` | state and coroutines of the batching provider, as operators |
| `StorageController` | the controller process on top of it |
| `VisitCompletion` | abstract contract of the storage: records are accepted and settled, a visit is promised and reported |
| `TaskManager` | the manager process: user thread, command threads, watchdog, callback thread, browser process with its queues |
| `VisitLifecycle` | abstract contract of a crawl: a visit is started once, ended by promises, its callback invoked at most once |
| `BrowserLaunch` | one browser handle in detail: launch attempts, status messages, profiles, recovery, reaping |
| `StorageProviders` | the providers that do not batch in Arrow tables, with crashes and a later crawl |
| `PageWindows` | the windows of a browser under Initialize, Get, Browse and Finalize |
| `PageFrames` | the recursive dump of a page whose frames come and go |
| `PageScreens` | command sequences with screenshots, and how these are taken and put together |
| `JobQueue` | the Redis job queue and the crawl workers that share it |
| `Extension` | the background page of the extension: session, instruments, pending events |
| `ScriptSettings` | pure: how requests for JavaScript instrumentation are validated, completed and merged |
| `PageScript` | the script in a page that watches what `ScriptSettings` yields, the content script, the queue of records |
| `MPLogger` | the log: senders, sockets, receiving threads, listener, close |
| `Analyzers` | pure: what each analyzer takes from a row of the crawl's database and makes of it |
| `Analysis` | `run_analysis.py` and `view_results.py` with those analyzers |
| `MCStorageController`, `MCTaskManager`, `MCJobQueue`, `MCExtension`, `MCPageScript`, `MCMPLogger`, `MCAnalysis`, `MCStorageProviders` | values of the constants for TLC |
| `MCBrowserCommands` | composes `PageWindows`, `PageFrames` and `PageScreens` for TLC, with values of their constants |
| `StorageControllerProofs`, `StorageProvidersProofs`, `TaskManagerProofs`, `BrowserLaunchProofs`, `JobQueueProofs`, `ExtensionProofs`, `MPLoggerProofs`, `BrowserCommandsProofs` | theorems and their proofs |

`StorageController` extends `ArrowProvider`, because the provider only runs in
the controller's event loop, and `PageScript` extends `ScriptSettings`. The
other parts are joined at their interfaces, each seen from both sides:
`TaskManager` knows of the storage controller only what `VisitCompletion`
promises (finalize messages in, completions out), of a browser's life only
alive, dead or restarting (`BrowserLaunch` has the rest), and `JobQueue` knows of
a visit only that its callback comes while the controller serves, which
`FinalizationIsReported` shows, and may not come once it is stopped. That a controller
may end without reporting a finalisation (below) is part of both models. `StorageProviders` is the other side of the interface that `StorageController`
calls, for the providers it does not contain. What `TaskManager` calls a command is in
`PageWindows`, `PageFrames` and `PageScreens` at the grain of WebDriver calls. `PageScript` ends where a record reaches the
background page, and `Extension` begins there.

Operators whose comment begins with *Seeded bug* are not part of a
specification. Each is a variant of the definition it stands next to, with a
bug of the kind one could write there, and exists to show that a property
fails when the code is wrong in that way; `PROJECT.json` says which.

## The models and the code

### Storage: `ArrowProvider`, `StorageController`

**Steps.** The process runs an asyncio loop, so an action is what one coroutine
does between two suspensions. `_handle_meta` and `finalize_visit_id` become
several actions because they await the store_record tasks:

- `FinalizeNothing`: the visit has no tasks, the token is `None`;
- `FinalizeAtOnce`: all tasks are done, so awaiting them does not suspend, and
  popping, the provider's finalisation and the new entry are one step;
- `FinalizePop`, then `FinalizeResume` or `FinalizeFails`: some task is pending
  (or has failed); other coroutines run between the two.

**Connections.** `unread` holds what a client may still send together with what
is in its socket; nothing can tell the two apart, since a handler's view is the
order in which it reads. `MayFollow` is the clients' protocol: neither the
manager (`browser_manager.py` 456-461, 486-490) nor the extension
(`loggingdb.ts` 23-37) sends a record of a visit after its own finalize of that
visit. Nothing orders messages of different connections, which is where most
of the interesting interleavings come from.

**Provider.** `buffer` is `_records`, `batches` is `_batches`, and a token is
the index of its finalisation in the history `finalized`. `flush_events` holds
the tokens whose event is not set. `saved` and `rejected` say where rows ended:
on storage, or in a batch that `pyarrow` refused (line 82), which the code logs
and drops. `storing_lock` is not modelled: no `write_table` in the repository
suspends, so the code under the lock runs without interruption anyway.

**Exceptions.** A record of an unknown table is a `KeyError` in its task, seen
by whoever awaits the task: a handler dies (`FinalizeFails`), the shutdown takes
the process with it (`ShutdownFails`). A `create_table` message or an unknown
meta action ends its handler (`HandleFatal`).

**Shutdown.** `main` is where `_run` is: serving, draining (server closed,
waiting for connections), finalizing, waiting (for the feeder and the tokens),
done or crashed. `environment.yaml` (line 29) pins Python 3.12.2, whose
`Server.wait_closed` waits for the connections that are still open; with an
older Python it returns at once, and the seeded bug `AllClosedAtOnce` shows
that `CleanShutdownSavesAll` would not survive that.

**Time.** There is none. The batch timeout may fire whenever no task is ready to
run and no handler is about to resume, since such work does not take the 30
seconds that `BATCH_COMMIT_TIMEOUT` lasts.

**Abstracted.** The content of a record is its table and visit; whether
`pyarrow` can convert it is a constant set `Invalid`. Page content and
`Initialize` messages only set the time of the last record (`HandleIgnored`).
The order inside a list is dropped where the code only iterates over all of it.
The status queue, the relaxed flag, logging and the unstructured provider are
left out.

### Providers: `StorageProviders`

A pair of providers is chosen at the start. No coroutine of theirs suspends, so a
call of the controller is a step, except that a gzip file is opened in one and
written in another (`OpenFile`, `WriteFile`), since the process may be killed in
between. `cache1` is the open transaction of SQLite, or the first cache of
`MemoryStructuredProvider`; `cache2` its second. `finalized` is the history of
finalisations, `saved` when there is no token or it is done. The controller
finalizes a visit only if records of it came since the last time (line 214), and
at its shutdown all that are left, then flushes and closes the one provider and
the other (`CloseStructured`, `CloseUnstructured`). `Killed` loses what is in
memory, `NextCrawl` starts again on the same paths. `store_blob` is never called
with `overwrite`. The two caches of names (`file_name_cache`) answer what the
bucket would, so that `Known` asks for the files only. Left out: how a statement
or an object is made, the queues from the in-memory providers to a test, and a
disk or a bucket that fails.

### Commands: `PageWindows`, `PageFrames`, `PageScreens`

In all three a step is one WebDriver call, and pages do what they like between two.
Commands of one browser are executed one after the other by its process.

`PageWindows` follows `close_other_windows` and `tab_restart_browser` statement by
statement (`step`), with the list of handles they work on (`others`). A window
holds a blank page or one of a visit; it may open another, close itself or
navigate to `about:blank`. A page that Get gave up waiting for (`TimeoutException`) is
still `coming`, and arrives later. A call in a window that is gone raises: the command
has failed, the browser is restarted and the visit is over. Browse clicks links
of the same site, so that the page stays one of its visit. `session` is the visit
id of the extension, which takes its messages in order; one assumption is made:
that it has handled them when Firefox loads the page (`LoadPage`). The code sends
the visit id just before `webdriver.get` without an answer, and leaves five
seconds between closing the windows and the message that ends a visit.

`PageFrames` unfolds the recursion of `execute_in_all_frames`: `frames` has an entry
per nested call, `frame_stack` is the list that all share, as it is a default
argument, and `down` is where `switch_to_parent_frame` is. `page_source` maps a path
of frames to the frame whose source is stored there. A frame that is stale when it
is to be entered is skipped; anything else that raises ends the dump (`Fail`).
How deep a frame is, is the number of its `Ancestors`: what is in every set of frames that
has the frame and, of each frame in it, the one that frame is in. A page is a forest
(`TreesAssumption`), and stays one.
`command_sequence.py` 164 calls the key of the dump `document_url`; it is `doc_url`
(`browser_commands.py` 441).

`PageScreens` builds a command sequence (`Get`, `AddScreenshot`; `browse` is a `get`
here) and executes it. Pages have rows; a part of a full page is a file that shows
so many of them from the position the page has when it is taken, named after the
position that was read before. `Stitch` reads the files of the visit in any order.
Files stay where they are. Pages grow at any time, and once in a command they
shrink or scroll (`Disturb`); `undisturbed` records that, and an exception while
scrolling. Names of visits are random numbers of 53 bits: that one is the beginning
of another, which would confuse the pattern of `browser_commands.py` 257, is left
out, and so are the mouse moves of `bot_mitigation` and a disk that fails.

### Manager: `TaskManager`

`main` is the user's thread: the construction (`__init__`, with the failure of
`_launch_browsers` and what follows it), the crawl script, which submits
sequences and may close, and the steps of `_shutdown_manager`. `thread[b]` is
the command thread of a browser (`execute_command_sequence`, `browser_manager.py`
372-520), at the command it sends, awaits or decides about. `proc[b]` is the browser
process with the generation of its Firefox, the two queues between them and
the extension's socket (`inbox`). An answer carries the command it is for,
which the code does not know: that is what `AnswersBelongToCommands` is about.
A restart replaces the queues, as `launch_browser_manager` does, so a late
answer goes to a queue nobody reads; the properties depend on it. `unsaved`,
`failureCount`, `failureStatus`, `closing` and `restartRequired` are the shared
variables of the code, read and written where the code reads and writes them.
A timeout may happen whenever an answer is awaited. The controller reports
finalisations until its feeder returns (`FeederReturns`: nothing is waiting to be put, no
matter what its handlers have yet to read), then puts the visits that its `shutdown`
finalizes: those without a finalisation, and any that got a record after theirs
(`StorageStops`). A close whose archiving of a profile raises is `"aborted"`: nothing
after it is done. That the controller is joined for at most 300 s
(`storage_controller.py` 530) is left out, as is a handler of it that fails, since all
records of the manager and the extension are of known tables. The visit under
`INVALID_VISIT_ID` that carries the configuration is left out, since nobody
waits for its finalisation.

### Launching: `BrowserLaunch`

An attempt to spawn is a number that names the browser manager process, its
profile directory, its geckodriver and its display. `h` is where the handle's
thread is, with the attributes of `BrowserManagerHandle` (pids, profile path,
archives); `stage[n]` is how far process `n` has come through
`deploy_firefox`, including its death at any point. `content` holds which
browsers left traces in a profile, so that `ProfileSinceReset` can compare it
with the browsers used since the last reset. Time is in ticks: an attempt times
out after `SpawnTimeout`, the watchdog reaps geckodrivers and displays that are
older than `ReapAge`. `task_manager.py` 223-270 reads process lists and pids at
different moments; `scan` is what it has decided to kill and not yet killed. A forced
close (`ForceClose`) kills and archives from another thread while a launch goes on:
the thread's later attempts are not killed any more, and the watchdog is over. The
watchdog is taken to live until then; a process that ends between `process_iter` and
`process.name()` (`task_manager.py` 264, 268) would end its thread with
`NoSuchProcess`.

### Job queue: `JobQueue`

One redis command is one step. The WATCH/MULTI/EXEC of `_maybe_renew_job` is
`Watch` and `Exec` with a flag that any write to the watched keys clears.
Queues are counts of copies per job, since a worker may get any job and the
order is no one's promise. A worker has a main thread and a callback thread
with `unsaved_jobs_lock` between them; a signal runs the handler of
`crawler.py` 160-175 on the main thread, which may hold that lock. It closes the manager
by force, which waits for the callbacks that are owed, unless the manager is being
closed already: then it exits at once, so that a second signal frees a close that hangs.
`lost` counts the callbacks that will never come (`LoseReport`, only while the manager
closes). Getting a job with its lease, `unsaved_jobs` and the start of the visit
(`crawler.py` 209-233) are two steps, `Pop` and `SetLease`.

### Extension: `Extension`

A listener runs to its first `await` in one step; what comes after is a task
that continues later, when the tab may be closed and the visit over. `Firefox`
and `Command` are the environment: events of one request come in the order of
the webRequest API, with a redirect; messages from the browser manager arrive
in order. The visit of a record is looked up when it is saved (`loggingdb.ts`
186), its ordinal is taken where the code calls
`incrementedEventOrdinal`. Contents of records are dropped but for the body
hash and the pairing of navigation events.

### JavaScript instrumentation: `ScriptSettings`, `PageScript`

`Full`, `Merge` and the refusals translate `js_instrumentation.py`. Objects
are a small fixed world: an API object, a part it refers to, an heir that has
it as prototype, with one property of each kind the code treats differently
(value, method, accessor with and without setter, a value that cannot be written, one
that cannot be redefined, object, missing). Watching adds a layer to
`own`; `plain` is the same page without instrumentation, moved along by the
same accesses, so that `ReadsAsWritten` can compare them. The log keeps
`inLog`, the counters per script and symbol, and the queue with its timer
(`js-instruments.ts` 60-110, 200-260). The recursion of `instrumentObject` is a
function over the depth that is left (`visit`), with one object's part of it in
`InObject`; it yields steps, the properties replaced and those read by `isObject` on the
way, which log if they have been replaced before (`ReadsItself`). A request whose object
the page cannot evaluate ends the loop (`Throws`). `inLog` is cleared by the next write
to a value (`Resumed`), also after one that threw; the layers of a property log one after the other (`LogLayers`).
`OrdersAssumption` says what the requests may be: what
`js_instrument_settings.schema.json` accepts, with a depth that is a natural number: the schema allows any number, which
`instrumentObject` treats as 0, or as the next one up.

### Log: `MPLogger`

A connection carries frames; a long record is written in two parts
(`EmitHead`, `EmitTail`), and two processes that share a connection after a
fork may mix them, which ends its receiving thread (`garbled`). Records of the
extension make two trips: the listener hands them to the logger of the main
process, which sends them once more. `listener` goes through the start
handshake, the loop, the shutdown sleep and the drain of `mp_logger.py` 190-235. The sleep
may end while records are under way (`missed`). The records of a process in `Faulty` may
be undecodable (`json.loads`, `dill.loads` at 251, 272 and 274), which ends the
listener (`Raises`);
`owner` is the main thread in `close`.

### Analyses: `Analyzers`, `Analysis`

`Analyzers` has an operator for what the `_read_row` of each analyzer takes from
a row, and one for its `_classify`. What an analyzer keeps between two calls of
`_reset` is a bag of facts: a flag is a fact that is there or not, a set the
facts with a detail, a counter the copies of one. `Reads` and `Classify` select
by the name of the analysis. The lists are those of `utils/analyzers_utils.py`
with the classes that cannot be instantiated in `Broken`.

`Analysis` runs the chosen ones one after the other. `Analyze` and `ReadRow` are the
loop of `_analyze` in `dynamic_analyzer.py` and `cookie_dynamic_analyzer.py`, one row
at a time, `Finish` what comes after it; `AnalyzeRequests` is the loop of
`static_request_analyzer.py`; `Save` makes the table, `View` one venn diagram and
its dumps. The query of the cookie analyzers selects columns that it does not
group by, and that of the request analyzers has no order: what SQLite picks is a
choice of the model. Whether a host is a first party, and which request
matches a tracker, is given (`FirstParties`, `matches`). Texts are numbers in the order
that SQLite gives the texts, so that sorting by them is modelled as it is done. A crawl without visits ends
in the division of `runHealth`. Rows that make `_read_row` raise have no facts, as
they are logged and skipped; but arguments that are not JSON raise outside of the `try`
in five analyzers (`canvas_dynamic.py` 28, for one) and end the run (`RaiseOnRow`).

## Runs

State numbers are distinct states. Deadlock is not checked, because every part
is meant to end.

| Run | Module | Checks | Bounds | Result |
|---|---|---|---|---|
| `core` | `MCStorageController` | `ReportImpliesSaved`, `NoDoubleFinalization`, `NoOrphanedRecord`, `CleanShutdownSavesAll`, `FinalizationIsReported`, `ShutdownTerminates`, `ImplementsVisitCompletion` | two connections, two visits, `CacheSize` 1, eight messages: one visit is finalized by both sides, with a refused record, one of an unknown table and a fatal message | holds, 134,056 |
| `refused` | `MCStorageController` | `SuccessMeansDataSaved` | as `core` | violated |
| `providers` | `MCStorageProviders` | `FinalizedIsSaved`, `ContentIsKept` | five pairs of providers, two visits of one crawl with four records, one of them refused by SQLite, a visit of the next crawl, four contents of which three have one hash, batches of two | holds, 640,262 |
| `commands` | `MCBrowserCommands` | `PagesAreOfTheSession`, `StableFramesAreDumped`, `PicturesShowThePage` | windows: two visits, seven windows opened in all, popups may go blank, a page may come after its timeout; frames: two dumps of a page that has two frames and may get two more, cutoff at depth 2 instead of 5; screens: two visits of two commands, two suffixes, pages of 0 or 5 rows in a window of 2 | holds, 1,166,900 |
| `manager` | `MCTaskManager` | `AnswersBelongToCommands`, `OneProcessPerVisit`, `SuccessMeansAllCommands`, `CloseLeavesNothing`, `ResetIsolatesVisits` | one browser, two sequences (one resets, blocks and has a callback), one user command, failure limit 1, forced close, memory watchdog, archived profiles | holds, 2,931,558 |
| `manager_live` | `MCTaskManager` | `ShutdownEnds`, `ImplementsVisitLifecycle` | the same without user command, with a profile limit and failing dumps | holds, 238,043 |
| `launch` | `BrowserLaunch` | `OneBrowserManager`, `ProfileIsClosedForArchive`, `ProfileSinceReset`, `WatchdogSparesTheLiving`, `OrphansAreReaped` | three processes, two attempts per launch, a timeout of one tick, a forced close at any time | holds, 2,438,080 |
| `queue` | `MCJobQueue` | `JobInOnePlace`, `EndedMeansEmpty`, `CrawlEnds` | one job, two workers, one of them mortal, one retry | holds, 101,021 |
| `extension` | `MCExtension` | `OrdinalsFollowEvents`, `NavigationIsNotStale`, `RecordsInOpenVisit`, `RequestsAreSaved` | four configurations, one request with a redirect, two navigations, one note, up to two visits | holds, 402,998 |
| `page` | `MCPageScript` | `AskedIsWatched`, `ReadsAsWritten`, `RecordedOnce`, `RecordsArrive` | nine lists of settings, two of them refused, three accesses, log limit 1 | holds, 852,174 |
| `logger` | `MCMPLogger` | `WrittenInOrder`, `ClosedMeansWritten`, `CloseEnds` | main process and browser manager on one connection with one record each, an extension with two; those of the browser manager may be undecodable | holds, 456,756 |
| `analysis` | `MCAnalysis` | `ResultsAreOfTheirRows`, `TableSaysWhatWasFound` | five crawls of up to 13 calls by up to four scripts, each analysis alone and four combinations, thresholds of 2 for 12 and 50 | holds, 9,402 |

`commands` looks at windows, frames or screenshots of a browser, one of the three in
each behaviour: the commands of a browser are executed one after the other, and the
three modules share no variable.

The modules state more properties than the runs check: the type invariants, which the
proofs use, properties that a theorem states and a run need not repeat
(`TokenImpliesSaved`, `RetryLimit`, `StatusInOrder`, `RecoveryArchiveExists`, `RecordsInOrder`,
`TrackersAreFound`), two of `Analysis` that only TLC can check
(`CookiesCountOnce`, `PortionsAreDisjoint`), and some
of `PageScript`, `StorageProviders` and the modules of the commands that say
less than those above. A cfg can name any of them.

Why the bounds are enough:

- *Storage.* Every race of the controller is between two holders of one visit's
  tasks (two handlers, or a handler and the shutdown), between one visit and the
  flush of another, or between a handler and the feeder. Two connections that
  share a visit and a second visit with a batch of its own produce all of
  them. The proofs remove the bounds for the safety properties.
- *Manager.* Browsers share only the failure count and the storage; what a
  restart or a late answer can do needs one browser and two visits in a row, the
  second of which meets what the first left. Two browsers with the watchdog
  exceed what TLC explores in reasonable time; the race on the failure count
  needs them and is described below. The proofs of the safety properties and of
  the refinement are for any number of browsers and sequences.
- *Providers.* Two visits share a transaction, two contents of different visits a
  hash, and a batch of two is written by its counter, a timeout or the shutdown.
  What an earlier crawl leaves to a later one needs two crawls and one content.
- *Windows.* What a visit can leave behind meets the next visit. Seven windows are one for
  each visit and tab restart and a few popups; each restart of the browser uses one up
  too.
- *Frames.* With four frames one is past the cutoff, one is added and others vanish
  while the driver is in them or on its way back. The second dump meets the shared
  stack that the first has left, finished or failed.
- *Screens.* Five rows in a window of two take three parts, the last of which overlaps
  the one before; a page that was not loaded has none. The parts that a visit leaves meet
  those of the next; two full pages in one visit, which the code mixes up, are described
  below.
- *Launch.* Three processes: one that is left behind, one that replaces it, and
  a restart of that. The proofs are for any number.
- *Queue.* Two workers can renew, take and complete the same job at once; jobs
  meet only in `empty`, where one that moves is enough to mislead a reader.
  With one job, the second worker is the one that renews, times out or crashes. The
  proofs are for any number.
- *Extension.* Requests are independent but for the ordinals; their order within one
  request is the property. Two navigations are what it takes to pair wrongly.
  The proofs are for any number.
- *Page.* Three accesses are one over the limit, one under, and one by way of
  the other object; the lists of settings have one case per branch of the code.
- *Log.* One fork that shares a connection, one client that does not, and an
  extension record that can be in flight when another is drained. The proofs are
  for any number.
- *Analyses.* The crawls have one row per branch of each `_read_row` and for each
  condition of a `_classify` a script on either side of it. Stretches of rows begin
  and end at the first, in the middle and at the last row; a visit has two pages,
  one or none with calls.

What the properties say is stated in front of each, with the code it is about.

## Fairness

Liveness is checked under weak fairness of what the platform runs, never of
what a user, a page or a browser does.

- *Storage.* Each coroutine that is ready: resuming a handler, running a task,
  the feeder's rounds, the batch timeout, the steps of `_run` and `shutdown`. The
  event loop runs what is ready and its timers fire. A client closes its
  connection only once a shutdown is requested: `TaskManager` closes its socket
  and the browsers before it asks the controller to stop (`task_manager.py`
  318-329). Nothing obliges a client to send or the manager to stop;
  `FinalizationIsReported` speaks of finalize messages that a handler has read
  and of a controller nobody has asked to stop.
- *Manager.* Threads run and queue reads time out (`MainNext`, `ThreadNext`,
  `CallbackNext`), and so does the controller (`StorageNext`): it reports what it was told
  until its feeder returns, and ends (`ShutdownTerminates`). Nothing makes it report all
  it was told: `ShutdownEnds` allows for a close that hangs because it did not
  (`ReportLost`), and for no other. The browser process may hang, the extension may never
  handle its inbox, the user need not submit or close; `ShutdownEnds` is for a
  relaxed close.
- *Launch.* The handle's thread and the watchdog run, and time passes: strong
  fairness of `Tick`, because a tick is not enabled while somebody has something
  due.
- *Queue.* Workers run, and a callback that comes is called; one may never come once the
  manager is being closed (`LoseReport`). A lock that is
  free again and again is acquired (strong fairness), as `threading.Lock` gives
  with the short sections of this code. A lease nobody extends expires.
  `CrawlEnds` assumes `Punctual`: from some time on no lease expires under a
  worker that is at work; without it see below. It names the two hangs the code has: a
  signal handler that waits for the lock of the thread it interrupted (`OwnLock`), and a
  close that waits for a callback that never comes (`NeverReported`).
- *Extension, page.* The background page serves callbacks and digests that are
  due; timers fire and messages are delivered.
- *Log.* Threads run and a frame that was begun is finished. `CloseEnds` begins
  with a listener that is in its loop, and allows for one that a record has killed.

## Where the code departs from its comments

The run `refused` ends in a counterexample to what the documentation says:

- **A visit with dropped records counts as successful.** `_create_batch` logs a batch
  that `pyarrow` refuses and goes on (`arrow_storage.py` 82-87); the visit is reported
  with `True` all the same, while `command_sequence.py` 61-63 promises `True` only if
  all data is saved.

Others were met while modelling. Where a property of a module states them, its
name is given; it is in no run, and checking it yields the counterexample.

Storage:

- **A completion can be lost in a shutdown, and the manager then never closes**
  (`AllFinalizeTasksReported`; `ShutdownEnds` and `CrawlEnds` name the case). `update_completion_queue` returns once
  the flag is set and its list is empty (`storage_controller.py` 327), while handlers
  drain their sockets until line 374. A finalisation they read later is appended at
  194 and never put, although line 326 says that all are, and `shutdown` (264-277) puts
  only visits that still have record tasks. The callback of such a visit is never invoked,
  `_mark_command_sequences_complete` waits for it at `task_manager.py` 395, and
  `_shutdown_manager` for that thread at 332. Of all that the models show, this is what we
  would repair first.
- No token does not mean saved (`ReportMeansDataSaved`). A visit finalized by
  both sides has no tasks the second time and is reported at once, while its
  batch is still in memory; line 334 says its data was saved either way.
- Records after finalize (`NoRecordAfterFinalize`). The `crawl_history` row of
  the `FinalizeCommand` is sent (`browser_manager.py` 438) after the extension
  was told to finalize, on another socket; `storage_providers.py` 75 rules such
  records out. The shutdown finalizes the visit again, as interrupted.

Providers:

- A reported visit may lose its contents (`ReportedContentIsSaved`). LevelDB keeps up
  to 99 contents in memory (`leveldb.py` 46-51) and `store_blob` gives the
  controller nothing to wait for, so that it reports a visit whose records are saved
  (`storage_controller.py` 331-335) and a crash takes the contents;
  `command_sequence.py` 61-62 says all data is saved. `BatchIsBounded` limits the
  damage.
- An empty file is never written again (`GivenBytesAreStored`). A file that a killed
  process has opened exists for good (`local_storage.py` 37), also for later crawls
  that come upon the same content; `storage_providers.py` 102 says the bytes are
  stored.
- With the in-memory provider no visit is marked as incomplete
  (`in_memory_storage.py` 77-94), as it is with the others.

Manager:

- A reset can be overridden (`ResetIsolatesVisits`, with `ProfileLimited`). With
  `maximum_profile_size` set, the last statement before the restart replaces the reset a
  sequence asked for by the size check (`browser_manager.py` 510); the next visit runs in
  the same profile and browser, while `command_sequence.py` 51-52 says otherwise.
- The failure count is compared outside the lock that counts, and a success of
  another browser may reset it in between (`ExceededLimitIsNoticed`,
  `browser_manager.py` 466 and 484).
- If the launch of a restart raises, its thread ends and the browser counts as
  ready without a process (`ReadyBrowserIsAlive`, `browser_manager.py` 516).
- The assertion about the profile archive (`browser_manager.py` 630) ends a
  shutdown halfway, before the controller was told (`ShutdownIsNotAbandoned`),
  also the one of a failed construction.
- A forced close may wait for completions that a killed browser's visit will
  never have; `ShutdownEnds` is checked without it.
- A forced close in the midst of a launch leaves the browser that its thread goes on to
  launch (`browser_manager.py` 153; `OneBrowserManager` holds, but nobody closes it).
- With failing dumps a command thread that raised leaves an unread answer.
- A construction that fails in `_launch_browsers` closes the manager and goes on
  to use it (`task_manager.py` 205-211): `save_configuration` then fails on the
  stopped controller.

Browser launch: a geckodriver that crashes leaves its Firefox, whose process is
looked up as its child (`browser_manager.py` 598-608); `extension_enabled=False`
ends in an assertion after all status messages were sent (755).

Commands:

- A blank page keeps its popups (`TrafficIsStopped`, with `PagesLeave`).
  `tab_restart_browser` returns at once if the driver's window shows `about:blank`
  (`browser_commands.py` 95), and its count of windows is skipped: what the page opened
  after the others were listed stays, against line 88, and into the next visit.
- A page may come after its visit (`PagesAreOfTheSession`, with `PagesArriveLate`).
  `GetCommand` catches `TimeoutException` and leaves the navigation under way
  (`browser_commands.py` 138); if the window is still blank at Finalize it is kept (95), and
  the page that comes then has no visit, or the next one's.
- Two pictures of one visit are mixed (`PicturesHaveTheirNames`, with three commands in a
  visit). The parts are found by the visit alone (`browser_commands.py` 255), so that
  those of an earlier command are pasted too, and the name may be that of either; line
  282 says it is the same for all.
- A full page begins where it was scrolled to (`EntirePage`). What is above the position
  that `bot_mitigation` or a script has left is black (`browser_commands.py` 342);
  `command_sequence.py` 115 says the entire page.
- One screenshot replaces another (`PicturesAreKept`, with three commands in a visit).
  `save_screenshot` and `screenshot_full_page` give their files one name if the suffix is
  the same, as it is by default (`browser_commands.py` 243 and 283-284,
  `command_sequence.py` 119).
- `bot_mitigation` moves the mouse to half the height and half the width, in this order,
  for the centre of the window (`browser_commands.py` 51-53).

Queue: a worker may leave though a job is left (`NoJobIsLeftBehind`), since `empty`
reads two lengths and a job moved back in between is in neither (`rediswq.py` 75);
`EndedMeansEmpty` shows the damage is limited: the last worker stays. If leases keep expiring under workers that are still busy, `complete`
forgets the retries of a job that waits to be taken again, and the crawl may go
on for ever (`CrawlEnds` without `Punctual`). The signal handler waits for the
lock its own thread may hold (`crawler.py` 168).
Both this and the lost completion keep a worker from ending.

Extension:

- The ordinals of navigation records are taken after an `await`, so they do not
  follow the events as `extension-session-event-ordinal.ts` 1-4 says; those of
  requests do (`OrdinalsFollowEvents`).
- A committed navigation may be paired with the start of a later one
  (`navigation-instrument.ts` 114), though never with an earlier
  (`NavigationIsNotStale`).
- The content hash is that of the first chunk whose digest is ready, and a
  response without a chunk is never saved (`RequestsAreSaved` excludes it);
  `docs/Configuration.md` 375 speaks of the hash of each script.
- The call stack instrument is refused by `config.py` 253; the model keeps it,
  since the extension does.

Page script:

- Merging a request for a whole object with one for a list keeps only the list
  (`js_instrumentation.py` 72, against the docstring 224-226); `AskedIsWatched` excludes
  what only the whole request covers.
- A request that the page cannot evaluate ends the loop, and all later requests are
  dropped (`js-instruments.ts` 758-764).
- A `defineProperty` on a frozen heir throws where the page alone would ignore the write,
  and leaves `inLog` set: nothing is logged until the next write to a value (623-632).
- The property given to an heir is not writable, so its second write is lost (625); a
  property that does not exist has one value that its object and all heirs share (494-507);
  a value that cannot be written is overwritten (629). `ReadsAsWritten` excludes
  properties with such a write (`strayed`).
- A page that is left takes its queue with it (98).

Log: `close` before the listener has reached its loop waits for ever
(`mp_logger.py` 222), and so does one after a record that `json.loads` or `dill.loads`
refuses has ended the listener (251, 272-274, 285); extension records that are handled in
the final drain, and what is under way when the three seconds end, are
lost (229-232); frames mixed by two processes end the thread that receives them
(`socket_interface.py` 81-86).

Analyses, in `src/OpenWPM-Data-Analytics`:

- The default analysis analyses nothing (`AllAnalysesRun`, with a selection
  `<<"all">>`). `all_analyzers` makes an object of every class; three dynamic classes still
  take an engine first, and `analyser_query` is abstract in all static ones, so that a
  `TypeError` ends the run (`utils/analyzers_utils.py` 79). `README.md` 50 says it runs
  all of them.
- What is counted is in no portion (`FoundIsInAPortion`). The portions of a venn diagram
  are those of True, False and None; a count above one equals none of them
  (`utils/gather_buckets.py` 13, `view_results.py` 30-31).
- Nothing is dumped (`SourceIsDumped`). A portion has triples, a response is looked up
  among them as a pair (`utils/dump_source_code.py` 23), so the folders that
  `view_results.py` 30 announces stay empty.
- One row ends the run (`RaiseOnRow`). Arguments that are not JSON raise in
  `parseArguments`, which five analyzers call outside of their `try`
  (`analyzers/dynamic_analyzer.py` 99, `canvas_dynamic.py` 28).
- Two properties of thirteen are never found (`ListedAreFound`). A missing comma joins
  them (`analyzers/custom_analyzers/jsenum_dynamic.py` 11 and 21).

## Proofs

TLAPS checks every theorem for all values of the constants; the assumptions are
the `ASSUME`s of the modules, on types, on names that must not collide and on sizes that
are not zero (a window, a batch). Five say more: a crawl has at least one worker; the requests for
instrumentation are those of the schema, with a natural number as depth (`OrdersAssumption`); a database is finite, and the
calls of a visit, and its cookies, are told apart by their ordinals (`DatabasesAssumption`; the
extension gives none twice, and a browser that is restarted goes on with the
next visit, `browser_manager.py` 486-490); the
frames of a page do not go round in a circle (`TreesAssumption`); and `ReapAssumption`, that the watchdog
reaps nothing as young as a launch that still waits for a message (300 s in
`task_manager.py` 262 against 120 s in `browser_manager.py` 62); without it, it
could kill the geckodriver of a launch that is about to succeed.

**`StorageControllerProofs`**, for any visits, connections, tables, messages and
cache size. None of the properties is inductive; the invariant is built in layers, each with a lemma about one step:

1. `WellFormed`: types, rows and tasks belong to the visit they are filed
   under, a handler that does not wait holds no tasks. Gives `TypeCorrect`.
2. `StorageMovesOn`, a property of steps: rows go from the buffer of their visit
   to a batch and from there to storage, and an event is set only by writing
   every batch.
3. `Durable`: every record read is pending, failed, buffered, batched or
   settled; the records of a finalisation are batched or settled, and settled
   once its token is done. Gives `TokensAreHonest`.
4. `Exclusive`: a record is unread, in one visit's tasks, held by one handler or
   in one finalisation. Gives `TasksFinalizedOnce`.
5. `NoOrphanedRecord` is preserved given `WellFormed`. Gives
   `RecordsKeepAnOwner`.
6. `ShutdownOK`: what is already empty at each stage of the shutdown; with
   `Durable` and the previous theorem it gives `ShutdownSavesAll`.
7. `MarkersOK` and `EntriesOK`: an interrupted finalisation has its marker, an
   entry's token is that of a finalisation of its visit. Give `ReportsAreHonest`.
8. `PromisesOK`: a finalisation is about records that were read. With all of the
   above, `StepRefines` maps every step to a step of `VisitCompletion` or a
   stutter, and `Refinement` follows.

**`JobQueueProofs`**, for any jobs, workers and number of retries.
`JobInOnePlace` is not inductive: two workers that find the same lease expired
both move the job, unless the transaction of one fails. `WatchHolds` says what
an undisturbed transaction may rely on (the job is in the processing queue and
has the count that was read), `Taken` ties the times a job was taken to its
retry count and its place, and `Forgotten` says that `complete` removes a job
before it forgets its retries. Together with the types they are inductive and
give `JobsStayInOnePlace` and `RetriesAreCounted`. `AllEndedMeansEmpty` needs one more,
`Attention`: while a job waits, some worker has yet to look at the main queue,
and while one is processed, some worker has yet to look at both. A worker that
reads the two lengths while a job moves is misled; the invariant says that whoever
moved the job is then still at work.

**`BrowserLaunchProofs`**, for any number of attempts, any limit of attempts per
launch and any waiting time. `LaunchIndInv` has three parts over the types, since
a launch, its profile and the watchdog rest on each other:

- `LaunchInv`: only the last browser manager may be alive, and it is dead where
  the handle may start another (`LiveOK`); the queue holds the messages up to the
  stage its browser manager has reached, and at its end a failure (`QueueOK`);
  `OK` is the answer of one that has quit its browser (`AnswerOK`). Each needs
  the others: an old process could fill the queue of a new attempt. Gives
  `StatusIsInOrder` and `OneManager`.
- `ProfileInv`: which attempt the handle's profile belongs to (`PathOK`), what is
  in it at each stage of an attempt and in the archives (`TracesOK`), which
  pids the handle knows (`KnownPids`), and that none is left in a profile it is
  done with (`PathGecko`). Gives `ArchivedWhenClosed`, `ArchiveToRecoverFrom` and
  `TracesSinceReset`.
- `WatchdogInv`: a geckodriver or a display whose pid the handle does not know
  yet is no older than the handle has waited (`GeckoAge`, `DisplayAge`); what a
  scan has picked was left by a dead browser manager (`ScanOK`), and stays so
  until it is killed. Gives the action property `LivingAreSpared`.

**`ExtensionProofs`**, for any requests, navigations, visits and sets of
instruments. Three invariants, over the same types:

- `HttpOK`: handlers and records of a request are ordered alike by event and by
  ordinal, and none is later than the request (`LastEvent`); an action that waits
  keeps the key of its event (`Continued`, `KeysKept`). Gives
  `EventsAreOrdered`.
- `NavOK`: a pending navigation is never later than the last one, that of a new tab
  is empty, and a handler that will look it up finds nothing older than itself.
  Gives `NavigationsAreTheirOwn`.
- `VisitsOK`: messages of a visit are in turn (`InTurn`): after its Initialize,
  before its Finalize, none after. Gives `RecordsStayInTheirVisit`, an action
  property.

The second part of the module is about `PageScript`, for any lists of requests that the
schema accepts, any scripts, limit and number of accesses. What is watched and logged is
computed by functions that go on from number to number (the depth of `visit`, the
layers of `LogLayers`, the lists that `FlattenSeq` joins). The lemmas of the library about such functions take
an operator, which the provers cannot instantiate; `Upwards` does the induction
with sets instead, by the least number outside a set (`LeastExists`, from
`WellFoundedInduction`), and `Iteration` gives the function.

- `PiecesInv`: the pieces in the page are those that the accepted requests give.
  Everything else about them is a fact about operators: merging keeps what was asked
  (`MergedIs`, `CleanedIs`), and `InstrumentObject` has a piece of
  everything that is asked for and can be replaced, at the top (`InObjectIs`) and below
  (`VisitGoes`), for the requests before the first that throws. Gives `AskedWatched`.
- `ReadsInv`: `ReadsAsWritten` and the type of `plain`; a write is followed through the
  setters for the kind of its property (`SetReadsBack`). Gives `ReadsWhatWasWritten`.
- `RecordInv`: the records on their way (received, on the wire, in the queue) are
  numbered in their order, the counters of the log are the numbers of records of
  each script and symbol (`Logged`), and `inLog` is set only between a write that threw and
  the next to a value; for the rest of the time they are the accesses that were due, up to
  the limit, whatever the page script has logged itself. That several layers log one access once
  is not a fact about one step of a log: all layers but the last log as the page script
  (`LogLayersIs`). Gives `RecordsAreInOrder` and `AccessesAreRecorded`.

**`TaskManagerProofs`**, for any number of browsers, any sequences and any
settings, failing dumps and forced closes included. Over the types (`Typed`,
which gives `StateIsWellFormed`) there are four invariants:

- `ShutdownInv`: who is still there at each stage of a close. `StagesOK` and
  `BrowsersOK` say which browsers the user's thread has closed already,
  `StorageOK` in which order the controller is stopped, `CallbacksOK` that the callback thread outlives what is unsaved.
  The property speaks of the end of a close only, hence the stages. Gives
  `NothingIsLeft`.
- `VisitsInv`: a visit is held by one browser, in its thread or its queue
  (`Holds`), and ran on no process but the one that browser has now. Without the
  second half a restart between two commands would not be excluded. Gives
  `VisitsRunOnOneProcess`.
- `SuccessInv`: the commands a thread has got past were answered OK
  (`ProgressOK`); therefore a Finalize that is queued, executed, handed to the
  extension, sent to the controller or reported is that of a complete visit.
  Gives `SuccessIsEarned`.
- `AnswerInv`: at each stage of a thread its browser is quiet, works on the
  current command alone, or is to be restarted with new queues (`StageOK`).
  Gives `AnswersAreOwn`, assuming `~DumpsFail`: with a launch that raises, the
  answer described [above](#where-the-code-departs-from-its-comments) stays in
  the queue.

The second part of the module is the refinement: `LifecycleInv` says that whatever a browser does
about a visit comes after its start, that completions were promised and that a
callback invoked is owed no more. With it `VisitStep` maps each step to a step of
`VisitLifecycle` or a stutter, and `LifecycleIsImplemented` follows.

The third part is about resets: `ResetInv` says that what is on a browser besides its
current sequence came before it (`OrderOK`), and that a sequence with a reset
leaves a live process behind only when the manager hands out nothing more
(`ResetOK`). Gives `ResetsAreHonoured`, assuming `~ProfileLimited`; the
override described [above](#where-the-code-departs-from-its-comments) is why.

**`MPLoggerProofs`**, for any processes, extensions, shared connections and
numbers of records.

- `OrderInv`: the way of a sender's records has five stages (sent, its
  connection, the listener's queue, for records of an extension the connection
  of the main process, the file), and what is further on is older (`WaysOK`).
  The file alone says nothing about what may still arrive, so order in the file
  is not inductive. Within a stage records rise (`RisingOK`). Gives
  `LogIsInOrder`.
- `CloseInv`: at each stage of a close, which receiving threads have ended and what
  they have left (`StatusOK`, `EndOK`), and that a record sent is on its way, in the
  file, or was lost on a connection that broke (`KeptOK`). What was sent
  before the close (`BeforeOK`) therefore has nowhere else to be in the end
  (`SettledOK`). Gives `CloseWritesAll`.

**`StorageProvidersProofs`**, for any visits, crawls, records and contents and any size of a
batch.

- `RowsInv`: over the types, a row is on storage at most once and not in a cache any more
  (`OneCopy`), as long as the process lives every row of the crawl is in a cache or on
  storage (`RowsKept`), and what a finalisation has to save is on storage or in the cache
  its flush will write (`FinalizedKept`). What is on storage after a crash says nothing of
  what was in the caches, hence `RowsKept`; and a row that is finalized twice would be
  saved twice without `OneCopy`. Gives `FinalizedRowsAreSaved` and `NothingIsEarly`.
- `ContentsInv` adds that the batch of LevelDB has nothing that is on storage and fewer
  contents than its counter says (`BatchOK`), that a file that is being written is
  there already, but incomplete (`FileOK`), and where the bytes of every content that was
  accepted are (`FilesHold`, `BatchHolds`): a kill moves those of the batch to `lost` and the
  name of the open file to `cut`. Gives `AcceptedContentIsKept`,
  `CrashCostsABatch` and the action property `StoredContentStays`.

The second part of the module is about `Analysis`, for any crawls, any list of analyses, any
thresholds, and whatever SQLite picks. `OrderedIs` shows that sorting yields each row
once and in order, since each has a different number of rows before it; hence those of
one id stand together (`IdsStandTogether`). Both properties speak of an analysis that
has ended, so `StretchOK` says what holds while one reads: its facts are those of
the rows of the stretch that it is in (`Stretch`), and its results those of the stretches
before. `StretchGoesOn` and `StretchEnds` take it from row to row. `RunsOK` keeps what each
analysis has found until the table is made. Gives `ResultsAreRight`, `TableIsRight`
and `TrackersAreRight`. What a `_classify` makes of its facts is left open by the proof, but for
one thing: it is a natural number (`AmountIsNumber`), without which a 0 and a result could be
confused.

**`BrowserCommandsProofs`** has a part for each of the modules it extends.

- `PageWindows`, for any number of visits and windows, assuming `~PagesLeave` and
  `~PagesArriveLate`: the page of a visit does not navigate to `about:blank`, for which
  `tab_restart_browser` does nothing, and none comes when Finalize has found its window blank
  ([above](#where-the-code-departs-from-its-comments)). That no page outlives its
  visit is not inductive. `WindowsInv` says when pages may be open at all (`PageTime`: from the
  load in Get to the end of the restart in Finalize) and that the extension has nothing to
  read then (`PagesOK`). The restart looks at one window only, so all depends on which:
  the driver is in the window of the visit except while it closes others (`DriverOK`),
  that window holds the page of the visit or is gone as long as there is any page
  (`MainOK`), and the one window that is left in the end is the new one (`NewOK`).
  `SetOK` says that the last message before a load is its visit, `ComingOK` that a page
  still coming at its time is that of the visit, in its window. Gives
  `PagesKeepTheirSession`, `RestartStopsTraffic` and `DriverStays`.
- `PageFrames`, for any page, any cutoff and any number of dumps. `FramesInv` says that each
  frame on the stack is in the one before and has as many ancestors as it has frames below
  it on the stack (`StackOK`), where the driver is at each step of a call (`CallOK`) and of
  the way back (`DownOK`), and that a frame that stays, and is in one that was dumped, was
  dumped itself, is in what a call on the stack has yet to recurse into, or is too deep
  (`FoundOK`). Frames on the stack may vanish meanwhile, so that none of
  this follows from the page alone. In the end nothing is left to recurse into, and if a
  frame that stays were missing, so would be the one it is in, and so on up; as the page is
  a forest (`TreeOK`), one of these would be at the top. `SourcesOK` has the paths in the
  dump. Gives `StableFramesInDump`, `SourcesAreTheirOwn` and `TopComesBack`.
- `PageScreens`, for any heights, any window and any number of visits and commands.
  `ScreensInv` says that the page of the visit is open under each command (`CommandOK`), that
  the parts on disk have the indexes up to some and, while a command takes parts, all up to
  its own (`IndexesOK`), and that they are all its own if no full page came before in the
  visit (`OwnParts`). If the page keeps its place they join: each position is the one before or at
  most a window lower, and the same one only at the end (`PlaceOK`). So the rows from the
  first position to the bottom of the last part are all in some part, and whichever is
  pasted uppermost shows a row where it was. Gives `PicturesAreRight`,
  `PicturesStayInTheirVisit` and `PartsAreComplete`, the last two also for pages that
  move and commands that are given up.

Only model-checked:

- `CookiesCountOnce` and `PortionsAreDisjoint` of `Analysis`, a sum over the rows of the
  table and the digits of a number: each needs an induction over data whose step is an
  operator, which the installed provers cannot instantiate. They hold in `MCAnalysis` when a cfg
  names them; no run does, since `analysis` is about what the table is made of;
- all liveness properties, since fairness and `ENABLED` are beyond the prover.

## Not modelled

- Selenium and geckodriver themselves, preferences, how rows reach a bucket or a
  Parquet file, the serialisation of values and call stacks: I/O, or data no property
  is about. Of the commands: the choice of links, plain dumps of the source, and the
  search helpers of `webdriver_utils.py`, which no command calls.
- A `write_table` that raises: later tables stay unsaved and their events unset
  (`arrow_storage.py` 157). The providers of the repository raise there only
  when the disk or the bucket does.
- The status queue and the backpressure on submission (`task_manager.py` 422),
  which delay a sequence and decide nothing else. If no status ever came, the
  assertion of `storage_controller.py` 565 hides the error that line 566 raises.
- The rules of `config.py` other than those for JavaScript settings, each a test
  of one value; schemas, utilities, crawl scripts.
- Of the analyses: the static analyzers and the three dynamic ones that cannot be
  made, malformed command lines, the formatting of dumped sources, the notebooks.
- Two browsers at once with the watchdog, and more than two visits in a row, for
  size; see [Runs](#runs).
