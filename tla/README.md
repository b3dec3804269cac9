# Verification of rpi-calendar-kiosk

TLA+ models of the calendar and PC-metrics kiosk, checked with TLC on small
instances and, where it matters most, proved with TLAPS for every instance.
Line numbers and names refer to this repository; `PROJECT.json` maps every
definition of a module to the lines it stands for.

## 1. The system

A Raspberry Pi runs one Rust process, `rpi-schedule-kiosk`. It syncs a Google
calendar and task list, receives metrics from Windows PCs, serves both over
HTTP and keeps a full-screen Chromium on its own page. systemd restarts it.

```
   Google  <--- sync_once, complete_task ---+             phones edit too
                                            |
   token.json <-> GoogleSession <---- CalendarState (data, update_lock) <-> cache file
       ^                                    |
       | push_token.ps1            api_state, api_complete_task
       PC                                   |
   rpi-schedule-monitor -- POST /api/system --> MonitorStore
   (one per PC)                             |
                                   web/app.js in Chromium (polls every 2 s)
```

### Components

| Component | State | Operations | Correct when |
|---|---|---|---|
| Calendar state and sync (`rust/src/calendar.rs`, `google.rs`) | tasks, last sync, error, auth flag; `update_lock`; the cache file | `load`, `run_sync_loop`/`sync_once` every 5 minutes, `complete_task`, `apply_success`, `remove_completed_task`, `record_error`, `save_cache` | syncs and completions take turns; no completed task comes back; a partial read or a failure loses nothing; the file follows the memory; what is applied was in the account during the read; after trouble it comes back into line |
| Google session, token (`google.rs`, `scripts/push_token.ps1`) | `token.json`, `token.json.tmp`, the document in memory | `GoogleSession::load`, `access_token`, `refresh_token`, `save_token_document`; a push from the PC | the file is whole at any crash; a pushed token stays; an expired token is never an error |
| HTTP server (`server.rs`) | `AppState` | `api_state`, `api_system`, `api_complete_task`, `guard_request`, `serve` | each handler's steps are part of the component whose state it touches |
| Metrics agent and store (`monitor.rs`, `signature.rs`) | per PC the last sample and when it was received; of the agent the ids of physical disks and the previous totals | `push_loop`, `collect`, `refresh_physical_disk_ids`, `verify`, `normalize`, `update`, `snapshots` | ONLINE means recent; a PC that pushes in time is never OFFLINE; a stopped one is; no traffic is invented but that of an interface that appears; only physical drives are listed |
| Page: tasks (`web/app.js`) | the last state, revision, selected task, pending completion | `poll`, `renderAll`, the detail, `completeSelectedTask` | a confirmed task does not flash back; the page comes to show the server's list |
| Page: PC panel (`web/app.js`) | devices, the selected host | `renderSystemMonitors`, `selectNextMonitor` | the panel shows a listed device, all can be reached, the status is the server's |
| Page: calendar, day (`web/app.js`) | view, transition sequence, return timer; the day and the signature the list was drawn with | `openCalendar`, `transitionCalendar`, `closeCalendar`, `renderAll` | no timer or animation of an older transition decides; the list counts from today |
| Process and unit (`rust/src/bin/kiosk.rs`, the `.service`) | server task, browser thread, the unit | `run`, `run_browser`, `Restart=`, start limit | what ends is replaced |
| Installation (`scripts/`) | the secret on the PC and on the Pi, the scheduled task; unit files | `install_host_monitor.ps1`, `register_host_monitor.ps1`; staged copy and rollback of the unit | server and agents sign with one secret; the unit's rollback is planned |
| Screen timers (`scripts/`) | HDMI output | on at 7, off at 23 | planned |
| Python layer (`src/soma0sd_rpi_schedule`) | the same, in threads | the predecessor of the Rust programs; `--auth` is still in use | planned |

How they interact: the sync loop and the handlers share `CalendarState`, and
`update_lock` is held from before the session is loaded until after the cache
is saved. `api_state` reads the data and the store without that lock, so a
poll sees any intermediate state. Axum drops a handler at whatever await it is
when its client disconnects, and the page does disconnect after 55 s; Google
may then still apply the PATCH, and a file operation handed to the blocking
pool still runs. The page's polls are started by a timer, whether or not the
earlier one has been answered. Agents and server do not share a clock, and a
push may arrive after its sender has given up. Both read the secret they sign
with when they start, and only then.

The hard behaviours, each with its line and the properties that cover it, are
the `hazards` of `PROJECT.json`. They are of six kinds: cancellation between
two awaits (handlers, saves), answers that are older than what was done since
(syncs, polls, pushes, token documents), partial failure (three reads of a
sync, the four file operations of a save), time-outs racing late effects
(PATCH, push, completion), restarts between two steps, and installation steps
that are repeated or interrupted while the programs run.

## 2. The modules

| Module | Models | State ↔ code | Actions ↔ code |
|---|---|---|---|
| `TaskBoard` | what the server promises about the list it shows | `open` Google's open tasks, `shown` the list, `done` completed here | `Complete`, `Refresh`, `Restart`, `Close`, `Open` |
| `CalendarSync` | the sync loop and the completion handlers | `mem` is `CalendarData`, `lock` is `update_lock`, `cache` the cache file (with its payload or missing), `spc`/`hpc` the await each task of the runtime is at | one action per stretch between two awaits: `SyncAcquire` … `SyncSave`, `SyncAbort`; `Request`, `Acquire`, `Check`, `Session`, `Remove`, `Save`, `Leave`; `Cancel`, `CancelSave` (axum drops the handler), `Orphan` (its file operation still runs) |
| `CalendarSyncProofs` | proofs | | |
| `SyncRound` | one round of the sync, request by request | `source`/`page` the request, `retried` the 401, `got` the answers so far, `left` the lists still to be read, `session`/`stored` the access token; `present` the account | `Start`, `GetJson`, `RefreshToken`, `SaveFails`, `RefreshFails`, `Refused`, `Forbidden`, `RequestFails`, `NextPage`, `LastPage`, `ApplySuccess`, `RecordError`; `PhoneEdit`, `NetworkChange`, `ConsentChange`, `TokenExpires` |
| `SyncRoundProofs` | proofs | | |
| `SavedFile` | what a save of the cache promises, as `TaskBoard` does for the list | `stored` what a start finds in the file, `saving` the payload of the save that runs, `pending` whether dropped saves have operations still to run, `loose` what those may leave | `Begin`, `End`, `Drop`, `Disturb`, `Crash` |
| `CacheFile` | the cache file down to names and files | `path` and `temporary` the two names, `content` the files' payloads, `pc` the save's step | `Begin`, `Open`, `WriteTemporary`, `RenameTemporary`, `SaveFails`; `Drop`, `Orphan`, `Crash` |
| `CacheFileProofs` | proofs | | |
| `TokenFile` | `token.json` down to names and files | `token` and `temporary` are the two names, `content` the files' documents, `pc` the session's step | `Load`, `AccessToken`, `RefreshToken`, `RemoveTemporary`, `CreateTemporary`, `WriteTemporary`, `RenameTemporary`; `Drop`, `Orphan`, `Push`, `Crash` |
| `TokenFileProofs` | proofs | | |
| `MonitorStore` | push loop, signature window, store, in discrete time | `phase`/`started`/`sampled` the agent's round, `late` pushes without a sender, `collected`/`received` an entry | `Collected`, `Accepted`, `Failed`, `NextRound`, `LateArrives`, `ServerRestart`, `Tick`; `flawless` remembers that no push failed and no collection was `Slow` |
| `MonitorStoreProofs` | proofs | | |
| `PcMetrics` | the secret from installation to signature, drives and traffic from Windows to the store | `secret`/`piFile`/`agentFile` the files, `serverKey`/`agentKey` what the running programs have read, `ids`, `age`, `total`, `previous` the collector, `sample`, `entry`; `carried`/`listed` what was received, and what interfaces that appeared had counted | `MakeSecret`, `BeginCopy`, `EndCopy`, `Register`; `ServerStarts`, `ServerStops`; `AgentStarts`, `AgentStops`, `Collect`, `RefreshIds`, `RefreshFails`, `Push`, `PushFails`; `Mount`, `Traffic`, `InterfaceListed`, `InterfaceGone` |
| `PcMetricsProofs` | proofs | | |
| `KioskPage` | task list, detail, completion and calendar on the page, against `TaskBoard` | `stateCache`, `stateRevision`, `selectedTask`, `detail`, `completion`, `calendar`, `finish` (timers and animations not yet over), polls in flight | `Poll`, `PollAnswered`, `PollDelivered` (with `RenderAll`), `OpenTaskDetail`, `OpenEventDetail`, `CloseEventDetail`, `CompleteSelectedTask`, `CompletionConfirmed`, `CompletionFailed`, `OpenCalendar`, `CloseCalendar`, `Finish` |
| `KioskPageProofs` | proofs | | |
| `MonitorPanel` | the PC panel | `monitorDevices`, `selectedMonitorHostname`, `panel` what is drawn | `PollDelivered` (with `RenderSystemMonitors`), `SelectNextMonitor`; the sort is `Rank`, the number of devices before one |
| `MonitorPanelProofs` | proofs | | |
| `KioskProcess` | process and unit | `main`, `server`, `browser`, `unit`, its recent starts | `Serve`, `Interrupted`, `SpawnBrowser`, `BrowserThread`, `BrowserStarts`, `BrowserEnds`, `Select`, `CancelServer`, `CancelBrowser`, `DropRuntime`, `Killed`; `UnitStopped`, `Restart`, `StartLimit`, `Forget`, `PortChange` |
| `BoardDay` | `KioskProcess` with the page in its browser, and the day | `data`/`cache` the signature of the data, `drawn` that of the list, `list` the day it counts from | `Synced`, `Midnight`, `Answered`, `Rendered`, `Dropped`; every step of `KioskProcess`, with `PageFollows` and `DataFollows` |

The composition goes through two contracts. `CalendarSync` is shown to implement
`TaskBoard` with `shown` refined by the tasks in memory, and `KioskPage` takes
it, instantiated, as its server. What holds of the page therefore holds against
the real server as far as `CalendarSync` is faithful. `SavedFile` is the other
one: `CacheFile`, down to names and files, is shown to implement it, and
`CalendarSync` takes from its instance of it what a save, an orphaned operation
or a crash may leave in the cache (`File!Reach`). `CacheFile` has one save after
the other, which is `SavedFile`'s `Begin`; that the sync loop and the handlers
do take turns is shown of `CalendarSync` against the same contract
(`SavesInTurn`), from `LockOwner`. So neither module has to trust the other's
words. `BoardDay` EXTENDS `KioskProcess` and runs its next-state relation
together with the page's. `SyncRound` and `TokenFile` open up two more steps of
`CalendarSync`, the read of a source and the session; `TokenFile` assumes what
`LockOwner` shows, that sessions take turns.

A payload is loose in `SavedFile` while its save is dropped and operations of
dropped saves are still to run, or while it is saved next to such operations.
While anything is loose the file may come to hold any loose payload, or nothing
that can be read, with any step of those at the files; when nobody is left at
the files nothing is loose. `CalendarSync` takes a whole save as one step and
so changes its `cache` at the end of it only; what the file is in the middle of
a disturbed save can be seen by a restart alone, and its `Crash` has all of it
(`Leavings`).

Definitions called `X_Word` are variants of `X` with one plausible mistake;
no specification uses them. They are kept to show that the property
named beside them in `PROJECT.json` notices the mistake.

Abstractions, chosen by what the properties tell apart:

* Tasks are model values with a list and a parent. Titles, notes, dates and
  events do not matter to any property of the list as a set. In
  `CalendarSync` reads of events and holidays appear with their failures.
* In `CalendarSync` the pages of one list are read in one step; two lists in
  two. `SyncRound` reads page by page, and its `ReadsTheAccount` says what such
  a read may return: nothing that was never there, and everything that was
  there throughout. An item stays on its page while it lives.
* A secret is the number of its making; a signature is good when both sides hold
  the same one. A sample is its set of drives and the bytes it reports.
* In `TokenFile` a token document is the number of the consent it stems from,
  and whether the access token has expired is the session's free choice; in
  `SyncRound` it is whether the kiosk trusts the token and whether Google
  accepts it, which two clocks decide independently.
* The data of the page is its signature: a sync gives one nobody has seen, as
  `last_sync` is part of it.
* Time in `MonitorStore` is discrete, in ticks of 2 s; HMAC is perfect,
  `verify`'s time window is modelled, and a sample's values are left out.
* The page's DOM is the record of what is visible.

External, modelled from how the code uses them: the Google Tasks service, axum
and tokio (dropping a handler, the blocking pool, the runtime's end), the file
system's names and files, systemd, Chromium (it loads the page again when its
process is new), Windows' drives and network interfaces, other clients of the
account, and time.

## 3. Runs

| Run | Instance | Shows |
|---|---|---|
| `sync_family` | a task with a subtask, two handlers, one crash, failing saves, one edit | `LockOwner`, `NoRevival`, `CacheCurrent`, and that every step is one of `TaskBoard` |
| `sync_live` | two tasks in two lists, one handler, one edit, fairness | `NoLoss`: a failure between the two lists' reads takes nothing off the list; `Answered`, `Converges` |
| `sync_round` | an event, a holiday, two task lists, one of them with two pages; two changes | `ReadsTheAccount`, `NoSpuriousFailure`, `Recovers`, `AsksForConsent` |
| `holidays_kept` | the same | *violation*, see section 6 |
| `cache_file` | five files, two payloads and the first, two orphaned operations, one crash | `FileSpec`: every step is one of `SavedFile`; `CacheHeals` |
| `token_file` | five files, two pushes, one crash, two orphaned operations | `TokenComplete`, `QuietPushStays` |
| `monitor_store` | one PC, two late pushes, one restart | `AvailableIsRecent`, `HealthyOnline`, `GoesOffline` |
| `pc_metrics` | one PC with two drives, two secrets, a refresh every second round | `OrderSuffices`, `RateNotInvented`, `DrivesSettle` |
| `monitor_panel` | three PCs, two of one display order, two polls | `PanelShowsSelected`, `ShowsTheStore` |
| `kiosk_page` | a task with a subtask, two polls, two changes | `NoFlashback`, `PendingShown`, `ShowsTheBoard`, `StaleDetailCloses`, `CalendarAsAsked`, `CalendarSettles` |
| `kiosk_process` | `BoardDay`: three faults, start limit 3, two midnights | `Settles`, `ListIsToday` |
| `server_replaced` | `KioskProcess` alone | *violation* |

Every passing run checks its module's `TypeOK` too (`sync_live`, a second
instance of the same module, leaves it to `sync_family`).

Why the bounds are enough:

* Two handlers and the sync loop are three contenders for one lock, so one
  holds it, one waits and one is dropped. The handlers are interchangeable
  (nothing compares them and no fairness is stated in that run), hence
  `SYMMETRY`. The file system's files are interchangeable for the same reason.
* `MaxEdits` counts phones' edits and network changes. `Converges` needs one
  change to bring the server out of line. With one edit `NoLoss` meets a
  network that fails between two lists; the theorem `NothingLost` covers every
  number.
* `MaxChanges` 2 in `SyncRound`: an expiry during a change of the account, an
  edit on either side of a page, a network that goes and comes back. The
  theorems cover every number of changes, lists and pages.
* Two payloads in `CacheFile` besides the first: a dropped one and a later one;
  further saves of unchanged data are not bounded. Two orphans can spoil one
  save twice, by truncating and by renaming.
* Two polls in flight are enough to overtake each other; more add no order.
* `MaxPushes` 2: one push before a session reads and one after; the theorems
  have no bound.
* Three PCs in `MonitorPanel`, of which the one first by name has no display
  order and is the last, and the others share one: both keys of the sort decide.
* In `MonitorStore` one host suffices, as no step of one host reads another's
  entry. The proportions are those of the code (interval 2 s, client time-out
  4 s, stale limit 12 s). A collection may take any time, and may hang, as
  PowerShell and nvidia-smi run without a time-out; one of more than `Collect`,
  here the interval, ends what `HealthyOnline` speaks of. The tolerance is 3 ticks instead of 60: it only adds ages that behave alike.
  The proofs cover every value.
* In `PcMetrics` PCs meet only in the secret and the server, which one PC can
  find old, new or half copied; the theorems cover any number. Of two drives
  one is that of Windows, the other changes. `MaxBytes` 1 is enough for a total
  that falls and rises again between two rounds, by traffic or by an interface
  that appears; `RateNotInvented` is proved
  for every bound.
* `Burst` is 3 instead of 10 and `MaxFaults` 3, so that the limit can be hit
  and can also be missed. Two midnights: one for the page that has seen the
  other.

`kiosk_process` and `server_replaced` turn the deadlock check off: a failed
unit really does stop. Everywhere else it is on.

## 4. Fairness

* `CalendarSync`: weak fairness of the holder's steps, as every request to
  Google has a 20 s time-out and file operations end. Strong fairness of
  acquiring the lock, as tokio's `Mutex` is FIFO. None for phones, the
  network, crashes or dropped requests.
* `SyncRound`: weak fairness of the round, whose requests all have the 20 s
  time-out and whose loop wakes every 5 minutes. None for what changes outside;
  `Recovers` and `AsksForConsent` have the network as their premise.
* `CacheFile`, `TokenFile`: none, their properties are safety.
* `PcMetrics`: a registered agent is started (the task scheduler does, at
  registration and at logon), and goes on; its samples are not all spoilt, its
  pushes not all lost, and PowerShell does not fail every time. None for the
  scripts and the server, which `DrivesSettle` has as its premise.
* `KioskPage`, `MonitorPanel`: the interval timer fires, and the server answers
  or the request's time-out ends it. A poll's answer may be dropped any number
  of times for an older revision, but not always: completions are touches of a
  user. In `MonitorPanel` the dropping is an action of its own (`PollDropped`),
  in `KioskPage` `PollDelivered` compares the revisions. Timers and animations of the calendar end.
* `MonitorStore`: time passes, and an agent ends its push and its sleep; nothing
  obliges a collection to end or a push to be accepted.
* `KioskProcess`: the process and systemd go on, and a queued browser is taken up
  or cancelled, as it falls. Chromium's exit is not fair, and `Forget` is not:
  nothing depends on either. A start is forgotten only in a life that has
  brought Chromium up: ten that end before it fit into the 120 s of
  `StartLimitIntervalSec`, so that a port that stays taken cannot keep the unit
  restarting for ever. `BoardDay` adds that polls are
  answered and not all of their answers dropped; that syncs go on is a premise
  of `ListIsToday`.

## 5. Proofs

Eight modules EXTEND the module they are named for and prove, from the named
assumptions on its constants alone:

| Module | Theorem | States |
|---|---|---|
| `CalendarSyncProofs` | `TypeCorrect` | `TypeOK` |
| | `Serialised` | `LockOwner` |
| | `CompletedStaysGone` | `NoRevival` |
| | `NothingLost` | `NoLoss` |
| | `CacheAgrees` | `CacheCurrent` |
| | `ImplementsBoard` | `CalendarSync` implements `TaskBoard` |
| | `SavesInTurn` | `CalendarSync` implements `SavedFile` (its `FileSpec`) |
| `SyncRoundProofs` | `RoundTypes` | `TypeOK` |
| | `RoundsReadTheAccount` | `ReadsTheAccount`, an action property |
| | `ErrorsHaveACause` | `NoSpuriousFailure` |
| `CacheFileProofs` | `CacheTypes` | `TypeOK` |
| | `GoesForward` | `CacheForward` |
| | `Heals` | `CacheHeals` |
| | `ImplementsSavedFile` | `CacheFile` implements `SavedFile` (its `FileSpec`) |
| `TokenFileProofs` | `TokenTypes` | `TypeOK` |
| | `AlwaysComplete` | `TokenComplete` |
| | `PushStays` | `QuietPushStays` |
| `MonitorStoreProofs` | `StoreTypes` | `TypeOK` |
| | `OnlineIsRecent` | `AvailableIsRecent` |
| | `HealthyStaysOnline` | `HealthyOnline`, when `Interval + Collect + Timeout <= StaleAfter`; of collections that take at most `Collect` |
| `PcMetricsProofs` | `TypeCorrect` | `TypeOK` |
| | `OneSecret` | `OrderSuffices` |
| | `NothingInvented` | `RateNotInvented` |
| `KioskPageProofs` | `PageTypes` | `TypeOK` |
| | `CompletedStaysOff` | `NoFlashback` |
| | `PendingStays` | `PendingShown` |
| | `LastTouchDecides` | `CalendarAsAsked` |
| `MonitorPanelProofs` | `PanelTypes` | `TypeOK` |
| | `ShowsSelected` | `PanelShowsSelected` |
| | `ListedInOrder` | the devices are listed each once and in display order |

So every safety property of the runs is a theorem, but for `DayTypeOK`.

The inductive invariants:

* `NoRevival` says nothing of a sync that is under way, so a sync that has
  read the task before its completion would break it in the next step.
  `DoneInv` adds that neither Google nor the answers a sync holds have a
  completed task. This is inductive because `LockOwner` keeps a completion
  from being confirmed between a read and its application.
* `NoLoss` needs `LossInv`: what the sync has read plus what is in the lists
  still to be read covers every task that was open all along, and a handler
  past its PATCH has seen its task closed.
* `CacheCurrent` needs `CacheInv`: at the step before a save the payload held
  by its owner is the list in memory.
* The refinement needs `Checked` (what a handler completes is on the list and
  top-level, because it has kept the lock since it looked) besides `DoneInv`.
* `CacheForward` and `CacheHeals` come from `CalmInv`: a save is calm when no
  save was ever dropped, or no dropped one was left when it began. Then nobody
  else is at the files, so the file it has open is the temporary one and still
  empty, and the one it renames is whole; a save that is not calm promises
  nothing, and `Drop` ends the calm of all later ones until the orphans are done.
* `ImplementsSavedFile` needs `CalmInv` once more, for the steps of a save that
  nobody disturbs: what it renames is its payload, so the file gets that or
  keeps what it had. Elsewhere the file gets what is `Held` by somebody at the
  files or `Named` by the temporary name, and the proof is that no step adds to
  those (`Settles`), or finds something else (`Reaches`). A step opens a file and
  so makes it one that may be renamed; it is empty then, which adds nothing.
* `SavesInTurn` needs `LockOwner` and the types: whoever takes a payload has the
  lock, so nobody is saving (`OneSaves`), and a save that ends or is dropped is
  the only one.
* `AvailableIsRecent` is the end point of `RecentInv`: an available entry's
  sample is older than its reception by no more than tolerance and skew. The
  two ages grow together, so only a write has to be looked at.
* `HealthyOnline` needs the age of the entry bounded in each phase of the
  round (`InTime`), since the worst case is reached over a whole round: an
  interval's sleep, a collection that is just not slow and a push that just
  makes its time-out.
* `OrderSuffices` compares the two running programs, which have nothing to do
  with each other; `Keys` ties each to the secret that was last made, through
  the file it has read.
* `RateNotInvented` needs `Counted`, that the totals are at most the previous
  ones plus what was received and what interfaces brought with them when they
  appeared: true when counters fall, and across rounds that lost their sample.
* `ReadsTheAccount` is about a single step, the last of a round, so all it says
  has to be carried through the round (`RoundInv`). What was there throughout
  and lies on a page already read is in `got`; of a source that is behind, all
  of it (`EventsInv`), and of the task lists, those that are not in `left`
  (`ListsInv`). That `left` starts with every list there was throughout is the
  case in the proof where the list of lists ends. What was answered was in the
  account at that moment (`HistInv`), however much of it is gone by the end.
* `NoSpuriousFailure` needs `CauseInv`: without trouble so far the network is up
  and the consent given, and no list a round knows of has been deleted. Hence
  each way to fail has its cause. A second refusal is the one that needs
  `PlaceInv`: what is sent after the first one is a token just made.
* `TokenComplete` needs `WholeInv`: while no session was dropped, the file a
  session has open is the temporary one, and what it renames is whole.
* `QuietPushStays` needs `QuietInv`: after a push at rest every document that is
  read, held or on its way in an orphaned operation is the pushed one. A
  temporary file from before may be older; it is removed before anyone who
  could rename it goes on, which is `PastRemove`.
* `NoFlashback` needs `PollInv`: an answer of the present revision has none of
  the completed tasks. A confirmation makes the revision larger than that of
  every poll under way, and polls that start after it see the server without
  the task. That the server never takes it back is `TaskBoard`'s `Promise`,
  which `PromiseStep` proves of `TaskBoard`. The page's server is written with
  `TaskBoard`'s actions and takes no other step (`ServerBoard`), which says
  nothing of the code: that the real server keeps to them is `ImplementsBoard`.
* `PendingShown` needs `CoverInv`: where a detail is shown there is no calendar
  and no timer or animation that could bring one.
* `CalendarAsAsked` needs `CalendarInv`: a timer or an animation that is still
  to end belongs to the last transition, as each transition ends those before.
* The lemmas about `Devices` are those of sorting: `Before` is a strict total
  order; ranks grow with it, so a set's ranks are an injection into
  `1..Cardinality`, hence onto it, and each place has its host. `PanelInv` needs
  no more than that a host of the answer has an index.

Each of these invariants was an invariant of the module's run before it was
proved. `FileSpec` of `CalendarSync` was checked on the instance of
`sync_family` in the same way and is left to the theorem since, as is
`CacheForward`, of which `FileSpec` of `CacheFile` has all but the order of the
payloads. Each proof has a lemma per process (sync loop, handlers, environment,
crash; the account and the round; the save or the session, what is dropped and
the crash; agent, late push, time; scripts and server, PC; server, polls,
touches and completions of the page) with a step per action.

Only model-checked:

* Liveness: `Answered`, `Converges`, `Recovers`, `AsksForConsent`, `GoesOffline`,
  `DrivesSettle`, `ShowsTheStore`, `ShowsTheBoard`, `StaleDetailCloses`,
  `CalendarSettles`, `Settles`, `ListIsToday`. They need fairness, and with it
  ENABLED, which the prover does not handle.
* `KioskProcess` and `BoardDay`: what is to be said of them is liveness; their
  safety property is the types, over few variables with few values.
* The two violations of section 6.

## 6. Where documents and code disagree

Each of these has a run whose counterexample TLC finds.

* **Holidays leave the screen when they cannot be read.** `docs/index.md:99`
  promises the last value in the column for a failure. A round that fails to
  read the holidays only warns and applies an empty list of them
  (`google.rs:62`, `HolidaysKept`). `ReadsTheAccount` states what holds:
  events and tasks are read to the end or left as they were.
* **A server that ends is not replaced.** `run()` returns, but the dropped
  runtime waits for the thread of Chromium, so the process never ends and
  `Restart=always` never acts (`ServerReplaced`, `README.md:25`). `Settles`
  states what holds.

Other behaviours the models reach, where a property states what does hold:

* `CacheForward` and `TokenComplete` hold only as long as no save was dropped.
  An orphaned `create_new` can run between the next session's `remove_file` and
  `create_new`, which then fails; an orphaned rename can move the next save's
  still empty temporary file over `token.json` or over the cache. A restart at
  that moment finds no cache, and no token. `CacheHeals` says that the cache
  does not stay so; `token.json` does until it is pushed anew.
* A request dropped at `save_cache` leaves its task in the file, where
  `calendar.rs:175` says it is removed; and a save that meets operations of a
  dropped one may fail or be replaced by the other's payload. `CacheCurrent`
  excepts exactly these and failed writes.
* A token pushed while a session is between its read and its save is
  overwritten by the old one; `QuietPushStays` is about a push at rest. It says
  that no older document takes its place; that none does, an empty file, is
  excluded only until a session is dropped at its save.
* The totals of traffic are sums over the interfaces that are listed at the time
  (`monitor.rs:559`, `network_totals`). An interface that appears, or comes back,
  with what it has counted so far puts all of it into the rate of one round
  (`monitor.rs:273`); `RateNotInvented` says that nothing else is.
* PowerShell and nvidia-smi run without a time-out (`monitor.rs:482`, `529`): a
  collection that waits for them for longer turns a running PC OFFLINE, and one
  that hangs keeps it there. `HealthyOnline` speaks of the others.
* A 403 is taken for a lost consent whatever Google's reason (`google.rs:298`):
  a quota that is used up asks the user to log in.
* A 401 at the PATCH (`google.rs:135`) is no second completion: the first was
  refused. `CalendarSync` has both requests in one step.
* A server that ends before a thread has taken up `run_browser` ends the process
  with it, and systemd starts it anew, up to the start limit; a moment later
  the browser keeps it (`ServerReplaced`).
* A completion that Google applied after its handler was dropped stays on the
  kiosk's list until the next sync (`BoardSpec` allows it, `Converges` ends it).
* While syncs fail, the list keeps counting from the day of the last one that
  did not; `ListIsToday` has syncs as its premise.
* A consent lost at the holidays or the tasks of a round is a warning; the
  request to log in follows a round later (`AsksForConsent`).
* `scripts/_ssh_config.ps1:25` builds the default push target from the Pi's
  name, and `host_header_is_allowed` answers 400 to a name: such a PC never
  appears. `DrivesSettle` has an address as its premise, as `docs/index.md:45`
  asks for.
* The PC shown first is the first to be polled, and stays when one earlier in
  display order registers later (`README.md:20` calls the first in display
  order the default); `PanelShowsSelected` is about the selected one.

## 7. Not modelled

The peer check of `guard_request` and the static responses (no state); field
conversion, formatting, `normalize`'s field checks (a round without a sample in
`PcMetrics`), rendering and layout; the month grid, the order of the task list
and its cut at 30; nvidia-smi and the other readings; the arguments `--host` and
`--serve-only`, which the unit does not use. Of the scripts, those that copy
sources and run installers; the unit's staged installation with its rollback
and the screen timers are planned. The Python layer is the predecessor of the
Rust programs.

## 8. Plan

Done: `TaskBoard`, `SavedFile`, `CalendarSync`, `SyncRound`, `CacheFile`, `TokenFile`,
`MonitorStore`, `PcMetrics`, `KioskPage`, `MonitorPanel`, `KioskProcess`,
`BoardDay`; proofs of the safety of all but the last two, and of the
implementation of both contracts on either side. In this order come next:

1. Proofs: a contract for the session as `SavedFile` is one for the cache, which
   `TokenFile` implements and `SyncRound` takes for its `stored` token; the
   types of `BoardDay`.
2. `ServiceInstall`: the staged installation and its rollback; the screen
   timers against restarts.
3. The Python server, cache and store as a second implementation of
   `TaskBoard`, and its token written in place.
