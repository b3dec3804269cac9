---------------------------- MODULE CalendarSync ----------------------------
(***************************************************************************)
(* The calendar core of the kiosk server: the sync loop and the handlers   *)
(* of POST /api/tasks/{id}/complete, which share CalendarState (its data,  *)
(* its update_lock and its cache file) and talk to Google.                 *)
(*                                                                         *)
(*   rust/src/calendar.rs   CalendarState, load_cache, save_cache          *)
(*   rust/src/google.rs     run_sync_loop, sync_once, complete_task        *)
(*   rust/src/server.rs     api_complete_task                              *)
(*                                                                         *)
(* One step is what a task of the runtime does between two awaits.  Google *)
(* is external: the set of its open tasks, which phones also edit, and PATCH *)
(* requests that it may apply after their sender is gone.  A handler is    *)
(* dropped when its client goes away (web/app.js aborts after 55 s), at    *)
(* any await; a file operation it had started then still runs.             *)
(*                                                                         *)
(* Tasks are (list, id) pairs; events ride along with the tasks and are    *)
(* left out, except that their two reads can fail.  A save is one step     *)
(* here, that may fail and outlive its request: SavedFile says what it may *)
(* then do to the file, and CacheFile that it does no more.                *)
(***************************************************************************)
EXTENDS Naturals

CONSTANTS
  Tasks,        \* the tasks of every list, open or not
  Lists,        \* the task lists of the account
  ListOf,       \* the list of a task
  Parent,       \* the parent of a task, NoTask for a top-level one
  NoTask,
  Handlers,     \* requests the server handles at the same time
  Sync,         \* the sync loop, as a holder of update_lock
  Free,         \* update_lock when nobody holds it
  DiskFails,    \* whether a save may fail
  MaxEdits,     \* bound: changes phones and the network make
  MaxCrashes    \* bound: crashes of the server process

ASSUME TaskAssumption ==
  /\ ListOf \in [Tasks -> Lists]
  /\ Parent \in [Tasks -> Tasks \cup {NoTask}]
  /\ NoTask \notin Tasks
  /\ \A t \in Tasks : Parent[t] # NoTask => ListOf[Parent[t]] = ListOf[t]

ASSUME ProcessAssumption ==
  /\ Sync \notin Handlers
  /\ Free \notin Handlers \cup {Sync}

ASSUME BoundAssumption == DiskFails \in BOOLEAN /\ MaxEdits \in Nat /\ MaxCrashes \in Nat

VARIABLES
  mem,          \* CalendarData: tasks, last_sync set, last_error, auth_required
  lock,         \* the holder of update_lock
  cache,        \* the cache file: {}, or {P} with P the tasks it holds
  spc,          \* where the sync loop is
  left,         \* lists whose tasks it has not read yet
  fetched,      \* the task read has not failed
  buf,          \* the tasks read so far
  warn,         \* a warning was collected
  hpc,          \* where each handler is
  req,          \* the task its request names
  pay,          \* the payload it has to save
  open,         \* Google: the open tasks
  late,         \* Google: PATCH requests whose sender is gone
  up,           \* the network and the credentials serve every call
  edits, crashes,
  unsaved,      \* history: the last write of the cache was not mem's
  loose,        \* history: payloads that dropped saves may bring into the cache
  done,         \* history: completed here since the start, not reopened since
  everClosed    \* history: tasks that Google has held as not open

syncVars    == <<spc, left, fetched, buf, warn>>
handlerVars == <<hpc, req, pay>>
envVars     == <<late, up, edits>>
vars == <<mem, lock, cache, syncVars, handlerVars, open, envVars, crashes,
          unsaved, loose, done, everClosed>>

-----------------------------------------------------------------------------
(* State *)

SyncHolding    == {"session", "events", "holidays", "lists", "tasks", "apply",
                   "save"}
SyncFree       == {"begin", "failedAuth", "failedOther", "sleep"}
HandlerHolding == {"check", "session", "patch", "patched", "save"}
HandlerFree    == {"idle", "wait", "orphan"}

CalendarData == [tasks : SUBSET Tasks, synced : BOOLEAN,
                 error : {"none", "warning", "failure"}, auth : BOOLEAN]

CacheFile == {{}} \cup {{P} : P \in SUBSET Tasks}

TypeOK ==
  /\ mem \in CalendarData
  /\ lock \in Handlers \cup {Sync, Free}
  /\ cache \in CacheFile
  /\ spc \in SyncHolding \cup SyncFree
  /\ left \in SUBSET Lists
  /\ fetched \in BOOLEAN
  /\ buf \in SUBSET Tasks
  /\ warn \in BOOLEAN
  /\ hpc \in [Handlers -> HandlerHolding \cup HandlerFree]
  /\ req \in [Handlers -> Tasks \cup {NoTask}]
  /\ \A h \in Handlers : hpc[h] # "idle" => req[h] \in Tasks
  /\ pay \in [Handlers -> SUBSET Tasks]
  /\ open \in SUBSET Tasks
  /\ late \in SUBSET Tasks
  /\ up \in BOOLEAN
  /\ edits \in 0..MaxEdits
  /\ crashes \in 0..MaxCrashes
  /\ unsaved \in BOOLEAN
  /\ loose \in SUBSET (SUBSET Tasks)
  /\ done \in SUBSET Tasks
  /\ everClosed \in SUBSET Tasks

TopLevel(t) == Parent[t] = NoTask
Subtasks(t) == {s \in Tasks : Parent[s] = t}
Family(t)   == {t} \cup Subtasks(t)

(* CalendarState::load: the cache when it can be read, else nothing.       *)
Loaded(c) ==
  [tasks |-> UNION c, synced |-> c # {}, error |-> "none", auth |-> FALSE]

(* Google's open tasks change: the only place where they do.               *)
SetOpen(O) ==
  /\ open' = O
  /\ everClosed' = everClosed \cup (open \ O)
  /\ done' = done \ O

Init ==
  /\ open \in SUBSET Tasks
  /\ everClosed = Tasks \ open
  /\ cache \in CacheFile
  /\ mem = Loaded(cache)
  /\ lock = Free
  /\ spc = "begin"
  /\ left = {} /\ fetched = FALSE /\ buf = {} /\ warn = FALSE
  /\ hpc = [h \in Handlers |-> "idle"]
  /\ req = [h \in Handlers |-> NoTask]
  /\ pay = [h \in Handlers |-> {}]
  /\ late = {} /\ up \in BOOLEAN /\ edits = 0 /\ crashes = 0
  /\ unsaved = FALSE /\ loose = {} /\ done = {}

-----------------------------------------------------------------------------
(* The cache file *)

(* The payloads being saved, and whether dropped saves are still at work.  *)
Saving   == (IF spc = "save" THEN {mem.tasks} ELSE {})
              \cup {pay[h] : h \in {g \in Handlers : hpc[g] = "save"}}
Orphans  == {h \in Handlers : hpc[h] = "orphan"}
Orphaned == Orphans # {}

File == INSTANCE SavedFile WITH
          Payloads <- SUBSET Tasks, stored <- cache, saving <- Saving,
          pending <- Orphaned, loose <- loose

CacheSame == UNCHANGED <<cache, unsaved, loose>>

(* The payload P is taken; it is saved undisturbed if nobody else is at    *)
(* the files.                                                              *)
TakePayload(P) ==
  /\ loose' = IF Orphaned THEN loose \cup {P} ELSE {}
  /\ UNCHANGED <<cache, unsaved>>

(* save_cache of P.  Its failure is logged and nothing else.               *)
SaveCache(P) ==
  /\ cache' \in File!Reach \cup {{P}}
  /\ cache' = {P} \/ DiskFails \/ loose # {}
  /\ unsaved' = (cache' # {P})
  /\ loose' = IF Orphaned THEN loose ELSE {}

-----------------------------------------------------------------------------
(* The sync loop *)

SyncMove(to) == spc' = to
SyncRest == UNCHANGED <<handlerVars, open, envVars, crashes, done, everClosed>>
(* Mutant: sync_once runs without the lock. *)
SyncAcquire_Unlocked ==
  /\ spc = "begin"
  /\ UNCHANGED lock
  /\ SyncMove("session")
  /\ warn' = FALSE
  /\ UNCHANGED <<mem, left, fetched, buf>>
  /\ CacheSame /\ SyncRest

(* sync_once: takes update_lock before anything else.                      *)
SyncAcquire ==
  /\ spc = "begin" /\ lock = Free
  /\ lock' = Sync
  /\ SyncMove("session")
  /\ warn' = FALSE
  /\ UNCHANGED <<mem, left, fetched, buf>>
  /\ CacheSame /\ SyncRest

(* Mutant: the lock stays taken when a sync fails. *)
SyncAbort_KeepsLock(kind) ==
  /\ ~up
  /\ SyncMove(kind)
  /\ UNCHANGED <<mem, lock, left, fetched, buf, warn>>
  /\ CacheSame /\ SyncRest

(* The `?` operator: sync_once returns, and its guard frees the lock.      *)
SyncAbort(kind) ==
  /\ ~up
  /\ lock' = Free
  /\ SyncMove(kind)
  /\ UNCHANGED <<mem, left, fetched, buf, warn>>
  /\ CacheSame /\ SyncRest

SyncProceed(to) ==
  /\ SyncMove(to)
  /\ UNCHANGED <<mem, lock, left, fetched, buf, warn>>
  /\ CacheSame /\ SyncRest

(* GoogleSession::load: the token file, then the primary calendar; a       *)
(* failure of either ends the sync.                                        *)
SyncSession ==
  /\ spc = "session"
  /\ SyncProceed("events") \/ SyncAbort("failedAuth") \/ SyncAbort("failedOther")

SyncEvents ==
  /\ spc = "events"
  /\ SyncProceed("holidays") \/ SyncAbort("failedAuth") \/ SyncAbort("failedOther")

(* The holiday calendar: a failure is a warning.                           *)
SyncHolidays ==
  /\ spc = "holidays"
  /\ \/ SyncProceed("lists")
     \/ /\ ~up
        /\ warn' = TRUE
        /\ SyncMove("lists")
        /\ UNCHANGED <<mem, lock, left, fetched, buf>>
        /\ CacheSame /\ SyncRest

(* Mutant: what was read before the failure is applied. *)
TaskReadFails_Partial ==
  /\ ~up
  /\ SyncMove("apply")
  /\ warn' = TRUE
  /\ UNCHANGED <<mem, lock, left, fetched, buf>>
  /\ CacheSame /\ SyncRest

(* A failed task read: a warning, and what was read so far is dropped.     *)
TaskReadFails ==
  /\ ~up
  /\ SyncMove("apply")
  /\ left' = {} /\ buf' = {} /\ fetched' = FALSE
  /\ warn' = TRUE
  /\ UNCHANGED <<mem, lock>>
  /\ CacheSame /\ SyncRest

(* list_all_tasks_at: the lists, *)
SyncLists ==
  /\ spc = "lists"
  /\ \/ /\ SyncMove("tasks")
        /\ left' = Lists /\ buf' = {} /\ fetched' = TRUE
        /\ UNCHANGED <<mem, lock, warn>>
        /\ CacheSame /\ SyncRest
     \/ TaskReadFails

(* then the open tasks of each list, one request after the other.          *)
SyncTasks ==
  /\ spc = "tasks" /\ left # {}
  /\ \/ \E l \in left :
          /\ left' = left \ {l}
          /\ buf' = buf \cup {t \in open : ListOf[t] = l}
          /\ UNCHANGED <<mem, lock, spc, fetched, warn>>
          /\ CacheSame /\ SyncRest
     \/ TaskReadFails

(* Mutant: the lock is freed before the answer is applied. *)
SyncTasksRead_Unlocks ==
  /\ spc = "tasks" /\ left = {}
  /\ SyncMove("apply")
  /\ lock' = Free
  /\ UNCHANGED <<mem, left, fetched, buf, warn>>
  /\ CacheSame /\ SyncRest

SyncTasksRead ==
  /\ spc = "tasks" /\ left = {}
  /\ SyncProceed("apply")

(* Mutant: a success does not clear the last error. *)
SyncApply_KeepsError ==
  /\ spc = "apply"
  /\ mem' = [tasks  |-> IF fetched THEN buf ELSE mem.tasks,
             synced |-> TRUE,
             error  |-> IF warn THEN "warning" ELSE mem.error,
             auth   |-> FALSE]
  /\ TakePayload(mem'.tasks)
  /\ SyncMove("save")
  /\ UNCHANGED <<lock, left, fetched, buf, warn>>
  /\ SyncRest

(* apply_success: without tasks the old ones stay.                         *)
SyncApply ==
  /\ spc = "apply"
  /\ mem' = [tasks  |-> IF fetched THEN buf ELSE mem.tasks,
             synced |-> TRUE,
             error  |-> IF warn THEN "warning" ELSE "none",
             auth   |-> FALSE]
  /\ TakePayload(mem'.tasks)
  /\ SyncMove("save")
  /\ UNCHANGED <<lock, left, fetched, buf, warn>>
  /\ SyncRest

(* save_cache; its failure is logged only.  sync_once returns.             *)
SyncSave ==
  /\ spc = "save"
  /\ SaveCache(mem.tasks)
  /\ lock' = Free
  /\ SyncMove("sleep")
  /\ left' = {} /\ fetched' = FALSE /\ buf' = {} /\ warn' = FALSE
  /\ UNCHANGED mem
  /\ SyncRest

(* record_error, outside the lock; last_sync and the lists stay.           *)
SyncRecord ==
  /\ spc \in {"failedAuth", "failedOther"}
  /\ mem' = [mem EXCEPT !.error = "failure", !.auth = (spc = "failedAuth")]
  /\ SyncMove("sleep")
  /\ UNCHANGED <<lock, left, fetched, buf, warn>>
  /\ CacheSame /\ SyncRest

SyncWake ==
  /\ spc = "sleep"
  /\ SyncProceed("begin")

SyncStep == SyncSession \/ SyncEvents \/ SyncHolidays \/ SyncLists
              \/ SyncTasks \/ SyncTasksRead \/ SyncApply \/ SyncSave
              \/ SyncRecord \/ SyncWake

-----------------------------------------------------------------------------
(* The completion handlers *)

Move(h, to) == hpc' = [hpc EXCEPT ![h] = to]
HandlerRest == UNCHANGED <<syncVars, up, edits, crashes>>
GoogleSame  == UNCHANGED <<open, late, done, everClosed>>
DataSame    == CacheSame /\ UNCHANGED mem
LocalsSame  == UNCHANGED <<lock, req, pay>>

(* The future of complete_task ends or is dropped, and its guard with it.  *)
Leave(h) ==
  /\ Move(h, "idle")
  /\ lock' = IF lock = h THEN Free ELSE lock
  /\ req' = [req EXCEPT ![h] = NoTask]
  /\ pay' = [pay EXCEPT ![h] = {}]

(* The PATCH requests that may still be on their way when h gives up.      *)
Abandoned(h) == IF hpc[h] = "patch" THEN {late, late \cup {req[h]}} ELSE {late}

(* A request names any task: the page shows what it polled some time ago.  *)
Request(h, t) ==
  /\ hpc[h] = "idle"
  /\ req' = [req EXCEPT ![h] = t]
  /\ Move(h, "wait")
  /\ UNCHANGED <<lock, pay>>
  /\ DataSame /\ GoogleSame /\ HandlerRest

Acquire(h) ==
  /\ hpc[h] = "wait" /\ lock = Free
  /\ lock' = h
  /\ Move(h, "check")
  /\ UNCHANGED <<req, pay>>
  /\ DataSame /\ GoogleSame /\ HandlerRest

(* Mutant: subtasks pass the check too. *)
Check_Subtasks(h) ==
  /\ hpc[h] = "check"
  /\ IF req[h] \in mem.tasks THEN Move(h, "session") /\ LocalsSame ELSE Leave(h)
  /\ DataSame /\ GoogleSame /\ HandlerRest

(* complete_task's check: a top-level task of the list, or NotFound.       *)
Check(h) ==
  /\ hpc[h] = "check"
  /\ IF req[h] \in mem.tasks /\ TopLevel(req[h])
       THEN Move(h, "session") /\ LocalsSame
       ELSE Leave(h)
  /\ DataSame /\ GoogleSame /\ HandlerRest

(* GoogleSession::load and access_token, before the PATCH goes out.        *)
Session(h) ==
  /\ hpc[h] = "session"
  /\ \/ Move(h, "patch") /\ LocalsSame
     \/ ~up /\ Leave(h)
  /\ DataSame /\ GoogleSame /\ HandlerRest

(* Google applies the PATCH, perhaps to subtasks too.                      *)
GoogleCompletes(h) ==
  /\ hpc[h] = "patch"
  /\ \E S \in SUBSET Subtasks(req[h]) : SetOpen(open \ ({req[h]} \cup S))
  /\ Move(h, "patched")
  /\ UNCHANGED late
  /\ LocalsSame /\ DataSame /\ HandlerRest

(* The answer is an error or never comes: the request timed out, or Google *)
(* no longer knows the task.                                               *)
PatchFails(h) ==
  /\ \/ hpc[h] = "patch" /\ (~up \/ req[h] \notin open)
     \/ hpc[h] = "patched" /\ ~up
  /\ late' \in Abandoned(h)
  /\ Leave(h)
  /\ UNCHANGED <<open, done, everClosed>>
  /\ DataSame /\ HandlerRest

(* Mutant: the payload is cloned before the task is removed. *)
Remove_PayloadFirst(h) ==
  /\ hpc[h] = "patched"
  /\ mem' = [mem EXCEPT !.tasks = mem.tasks \ Family(req[h])]
  /\ pay' = [pay EXCEPT ![h] = mem.tasks]
  /\ TakePayload(pay'[h])
  /\ done' = done \cup ({req[h]} \ open)
  /\ Move(h, "save")
  /\ UNCHANGED <<lock, req, open, late, everClosed>>
  /\ HandlerRest

(* Google confirmed "completed": remove_completed_task, in memory.         *)
Remove(h) ==
  /\ hpc[h] = "patched"
  /\ mem' = [mem EXCEPT !.tasks = mem.tasks \ Family(req[h])]
  /\ pay' = [pay EXCEPT ![h] = mem.tasks \ Family(req[h])]
  /\ TakePayload(pay'[h])
  /\ done' = done \cup ({req[h]} \ open)
  /\ Move(h, "save")
  /\ UNCHANGED <<lock, req, open, late, everClosed>>
  /\ HandlerRest

(* save_cache, whose failure is logged only, and the answer to the page.   *)
Save(h) ==
  /\ hpc[h] = "save"
  /\ SaveCache(pay[h])
  /\ Leave(h)
  /\ UNCHANGED mem
  /\ GoogleSame /\ HandlerRest

(* The client is gone and the handler is dropped at an await, *)
Cancel(h) ==
  /\ hpc[h] \in {"wait"} \cup (HandlerHolding \ {"save"})
  /\ late' \in Abandoned(h)
  /\ Leave(h)
  /\ UNCHANGED <<open, done, everClosed>>
  /\ DataSame /\ HandlerRest

(* Mutant: the request is forgotten while its write goes on. *)
CancelSave_Forgets(h) ==
  /\ hpc[h] = "save"
  /\ Move(h, "orphan")
  /\ lock' = Free
  /\ unsaved' = TRUE /\ loose' = loose \cup {pay[h]}
  /\ req' = [req EXCEPT ![h] = NoTask]
  /\ pay' = [pay EXCEPT ![h] = {}]
  /\ UNCHANGED <<mem, cache>>
  /\ GoogleSame /\ HandlerRest

(* or while the cache is being written: the lock is free, the write is on. *)
CancelSave(h) ==
  /\ hpc[h] = "save"
  /\ Move(h, "orphan")
  /\ lock' = Free
  /\ unsaved' = TRUE /\ loose' = loose \cup {pay[h]}
  /\ pay' = [pay EXCEPT ![h] = {}]
  /\ UNCHANGED <<mem, cache, req>>
  /\ GoogleSame /\ HandlerRest

(* The operation a dropped handler left to the blocking pool ends.         *)
Orphan(h) ==
  /\ hpc[h] = "orphan"
  /\ cache' \in File!Reach
  /\ unsaved' = (unsaved \/ cache' # cache)
  /\ loose' = IF Orphans = {h} /\ Saving = {} THEN {} ELSE loose
  /\ Leave(h)
  /\ UNCHANGED mem
  /\ GoogleSame /\ HandlerRest

HandlerStep(h) == Check(h) \/ Session(h) \/ GoogleCompletes(h)
                    \/ PatchFails(h) \/ Remove(h) \/ Save(h) \/ Orphan(h)

-----------------------------------------------------------------------------
(* Google, phones, the network, crashes *)

KioskSame == /\ UNCHANGED <<lock, syncVars, handlerVars, crashes>>
             /\ DataSame

(* A PATCH whose sender has given up reaches Google after all.             *)
LateComplete(t) ==
  /\ t \in late
  /\ late' = late \ {t}
  /\ \E S \in SUBSET Subtasks(t) : SetOpen(open \ ({t} \cup S))
  /\ UNCHANGED <<up, edits>>
  /\ KioskSame

(* A phone completes, deletes, adds or reopens a task.                     *)
PhoneEdit(t) ==
  /\ edits < MaxEdits
  /\ edits' = edits + 1
  /\ SetOpen(IF t \in open THEN open \ {t} ELSE open \cup {t})
  /\ UNCHANGED <<late, up>>
  /\ KioskSame

NetworkChange ==
  /\ edits < MaxEdits
  /\ edits' = edits + 1
  /\ up' = ~up
  /\ UNCHANGED <<late, open, done, everClosed>>
  /\ KioskSame

(* What a process may leave in the cache file when it dies: the file as it *)
(* was, the payload being saved, or what dropped saves make of it.         *)
Leavings == File!Reach \cup {{P} : P \in Saving}

(* The process dies and systemd starts it again.                           *)
Crash ==
  /\ crashes < MaxCrashes
  /\ crashes' = crashes + 1
  /\ cache' \in Leavings
  /\ mem' = Loaded(cache')
  /\ lock' = Free
  /\ spc' = "begin"
  /\ left' = {} /\ fetched' = FALSE /\ buf' = {} /\ warn' = FALSE
  /\ \E H \in SUBSET {h \in Handlers : hpc[h] = "patch"} :
        late' = late \cup {req[h] : h \in H}
  /\ hpc' = [h \in Handlers |-> "idle"]
  /\ req' = [h \in Handlers |-> NoTask]
  /\ pay' = [h \in Handlers |-> {}]
  /\ unsaved' = FALSE /\ loose' = {}
  /\ done' = {}
  /\ UNCHANGED <<open, up, edits, everClosed>>

-----------------------------------------------------------------------------
(* Specification *)

HandlerNext(h) == \/ \E t \in Tasks : Request(h, t)
                  \/ Acquire(h)
                  \/ HandlerStep(h)
                  \/ Cancel(h)
                  \/ CancelSave(h)

EnvNext == \/ \E t \in Tasks : LateComplete(t) \/ PhoneEdit(t)
           \/ NetworkChange
           \/ Crash

Next == SyncAcquire \/ SyncStep \/ (\E h \in Handlers : HandlerNext(h)) \/ EnvNext

(* Every request to Google has a time-out of 20 s, so every step of a      *)
(* holder of the lock ends; tokio's Mutex hands the lock over in the order *)
(* of arrival, so no one waits for ever while others come and go.          *)
Fairness ==
  /\ WF_vars(SyncStep)
  /\ SF_vars(SyncAcquire)
  /\ \A h \in Handlers : WF_vars(HandlerStep(h)) /\ SF_vars(Acquire(h))

Spec     == Init /\ [][Next]_vars
FairSpec == Spec /\ Fairness

-----------------------------------------------------------------------------
(* Properties *)

(* update_lock serialises: whoever is between its acquisition and its      *)
(* release is its holder (google.rs, sync_once and complete_task).         *)
LockOwner ==
  /\ spc \in SyncHolding <=> lock = Sync
  /\ \A h \in Handlers : hpc[h] \in HandlerHolding <=> lock = h

(* No task completed on the kiosk comes back from an earlier answer of     *)
(* Google while nobody reopens it: the comment of sync_once.               *)
NoRevival == done \cap mem.tasks = {}

(* Whatever fails, no task leaves the list that Google held as open all    *)
(* along, with its parent: failed reads keep the old tasks, failed         *)
(* completions their task.                                                 *)
NoLoss ==
  [][ crashes' = crashes =>
      \A t \in mem.tasks \ mem'.tasks :
        t \in everClosed \/ Parent[t] \in everClosed ]_vars

(* When nobody writes, the cache file holds the list the server shows,     *)
(* unless the last write failed, came from a dropped request or met one.   *)
CacheCurrent ==
  lock = Free /\ ~unsaved => mem.tasks = Loaded(cache).tasks

(* A request that waits for the lock is answered or dropped.               *)
Answered == \A h \in Handlers : hpc[h] = "wait" ~> hpc[h] = "idle"

(* Once the network and the credentials hold, the list agrees with Google  *)
(* and the banner goes away.                                               *)
Synced == /\ mem.tasks = open
          /\ mem.synced /\ ~mem.auth /\ mem.error = "none"
Converges == <>[]up => <>[]Synced

(* The promises of TaskBoard.                                              *)
Board == INSTANCE TaskBoard WITH shown <- mem.tasks
BoardSpec == Board!Spec

(* The turns SavedFile asks of those who save.                             *)
FileSpec == File!Spec
=============================================================================
