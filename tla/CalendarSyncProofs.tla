------------------------- MODULE CalendarSyncProofs -------------------------
(***************************************************************************)
(* Theorems about CalendarSync for every set of tasks, lists and handlers  *)
(* and every bound, with their proofs.                                     *)
(***************************************************************************)
EXTENDS CalendarSync, TLAPS

(* A cache file, when there is one, is loaded as it was saved.             *)
LEMMA LoadedCache ==
  /\ \A c \in CacheFile : Loaded(c) \in CalendarData
  /\ \A P \in SUBSET Tasks : Loaded({P}).tasks = P
  /\ \A P \in SUBSET Tasks : {P} \in CacheFile
BY DEF CacheFile, Loaded, CalendarData

(* The frames of the actions, spelled out where a leaf needs them. *)
USE DEF SyncMove, SyncRest, CacheSame, SyncProceed, SyncAbort,
        TaskReadFails, SaveCache, syncVars, handlerVars, envVars
USE DEF Move, HandlerRest, GoogleSame, DataSame, LocalsSame, Leave, KioskSame,
        SetOpen

-----------------------------------------------------------------------------
(* Types *)

LEMMA ReachType == TypeOK => File!Reach \subseteq CacheFile
BY DEF TypeOK, CacheFile, File!Reach

LEMMA SaveCacheType ==
  ASSUME TypeOK, NEW P \in SUBSET Tasks, SaveCache(P)
  PROVE  cache' \in CacheFile /\ unsaved' \in BOOLEAN /\ loose' \in SUBSET (SUBSET Tasks)
<1>1. cache' \in CacheFile
  BY ReachType DEF CacheFile
<1> QED
  BY <1>1 DEF TypeOK

LEMMA TakePayloadType ==
  ASSUME TypeOK, NEW P \in SUBSET Tasks, TakePayload(P)
  PROVE  cache' \in CacheFile /\ unsaved' \in BOOLEAN /\ loose' \in SUBSET (SUBSET Tasks)
BY DEF TypeOK, TakePayload

LEMMA InitType == Init => TypeOK
<1> SUFFICES ASSUME Init PROVE TypeOK
  OBVIOUS
<1>1. mem \in CalendarData
  BY LoadedCache DEF Init
<1>2. edits \in 0..MaxEdits /\ crashes \in 0..MaxCrashes
  BY BoundAssumption DEF Init
<1> QED
  BY <1>1, <1>2 DEF Init, TypeOK, SyncFree, HandlerFree

LEMMA SyncType == TypeOK /\ (SyncAcquire \/ SyncStep) => TypeOK'
<1> SUFFICES ASSUME TypeOK, SyncAcquire \/ SyncStep PROVE TypeOK'
  OBVIOUS
<1> USE DEF TypeOK, SyncHolding, SyncFree
<1>1. CASE SyncAcquire
  BY <1>1 DEF SyncAcquire
<1>2. CASE SyncSession
  BY <1>2 DEF SyncSession
<1>3. CASE SyncEvents
  BY <1>3 DEF SyncEvents
<1>4. CASE SyncHolidays
  BY <1>4 DEF SyncHolidays
<1>5. CASE SyncLists
  BY <1>5 DEF SyncLists
<1>6. CASE SyncTasks
  BY <1>6 DEF SyncTasks
<1>7. CASE SyncTasksRead
  BY <1>7 DEF SyncTasksRead
<1>8. CASE SyncApply
  <2>1. mem' \in CalendarData
    BY <1>8 DEF SyncApply, CalendarData
  <2>2. loose' \in SUBSET (SUBSET Tasks)
    BY <1>8, <2>1, TakePayloadType DEF SyncApply, CalendarData
  <2> QED
    BY <1>8, <2>1, <2>2 DEF SyncApply, TakePayload
<1>9. CASE SyncSave
  <2>1. mem.tasks \in SUBSET Tasks /\ SaveCache(mem.tasks)
    BY <1>9 DEF SyncSave, CalendarData
  <2>2. cache' \in CacheFile /\ unsaved' \in BOOLEAN /\ loose' \in SUBSET (SUBSET Tasks)
    BY ONLY <2>1, TypeOK, SaveCacheType
  <2> QED
    BY <1>9, <2>2 DEF SyncSave
<1>10. CASE SyncRecord
  <2>1. mem' \in CalendarData
    BY <1>10 DEF SyncRecord, CalendarData
  <2> QED
    BY <1>10, <2>1 DEF SyncRecord
<1>11. CASE SyncWake
  BY <1>11 DEF SyncWake
<1> QED
  BY <1>1, <1>2, <1>3, <1>4, <1>5, <1>6, <1>7, <1>8, <1>9, <1>10, <1>11
     DEF SyncStep

LEMMA HandlerType ==
  ASSUME TypeOK, NEW h \in Handlers, HandlerNext(h)
  PROVE  TypeOK'
<1> USE DEF TypeOK, HandlerHolding, HandlerFree
<1>0. late' \in SUBSET Tasks /\ open' \in SUBSET Tasks
        /\ everClosed' \in SUBSET Tasks
  BY DEF HandlerNext, HandlerStep, Request, Acquire, Check, Session,
         GoogleCompletes, PatchFails, Remove, Save, Cancel, CancelSave, Orphan,
         Abandoned
<1>1. CASE \E t \in Tasks : Request(h, t)
  BY <1>1 DEF Request
<1>2. CASE Acquire(h)
  BY <1>2 DEF Acquire
<1>3. CASE Check(h)
  BY <1>3 DEF Check
<1>4. CASE Session(h)
  BY <1>4 DEF Session
<1>5. CASE GoogleCompletes(h)
  BY <1>5 DEF GoogleCompletes
<1>6. CASE PatchFails(h)
  BY <1>0, <1>6 DEF PatchFails
<1>7. CASE Remove(h)
  <2>1. mem' \in CalendarData /\ mem.tasks \in SUBSET Tasks
    BY <1>7 DEF Remove, CalendarData
  <2>2. pay'[h] \in SUBSET Tasks /\ TakePayload(pay'[h])
    BY <1>7, <2>1 DEF Remove
  <2>3. loose' \in SUBSET (SUBSET Tasks)
    BY <2>2, TakePayloadType
  <2> QED
    BY <1>7, <2>1, <2>3 DEF Remove, TakePayload
<1>8. CASE Save(h)
  <2>1. pay[h] \in SUBSET Tasks /\ SaveCache(pay[h])
    BY <1>8 DEF Save
  <2>2. cache' \in CacheFile /\ unsaved' \in BOOLEAN /\ loose' \in SUBSET (SUBSET Tasks)
    BY ONLY <2>1, TypeOK, SaveCacheType
  <2> QED
    BY <1>8, <2>2 DEF Save
<1>9. CASE Cancel(h)
  BY <1>0, <1>9 DEF Cancel
<1>10. CASE CancelSave(h)
  BY <1>10 DEF CancelSave
<1>11. CASE Orphan(h)
  <2>1. cache' \in CacheFile
    BY <1>11, ReachType DEF Orphan
  <2> QED
    BY <1>11, <2>1 DEF Orphan
<1> QED
  BY <1>1, <1>2, <1>3, <1>4, <1>5, <1>6, <1>7, <1>8, <1>9, <1>10, <1>11
     DEF HandlerNext, HandlerStep

LEMMA CrashType == TypeOK /\ Crash => TypeOK'
<1> SUFFICES ASSUME TypeOK, Crash PROVE TypeOK'
  OBVIOUS
<1> USE DEF TypeOK
<1>1. cache' \in CacheFile
  <2>1. mem.tasks \in SUBSET Tasks /\ \A h \in Handlers : pay[h] \in SUBSET Tasks
    BY DEF CalendarData
  <2>2. Saving \subseteq SUBSET Tasks
    BY <2>1 DEF Saving
  <2>3. {{P} : P \in Saving} \subseteq CacheFile
    BY <2>2 DEF CacheFile
  <2> QED
    BY <2>3, ReachType DEF Crash, Leavings
<1>2. mem' \in CalendarData
  BY <1>1, LoadedCache DEF Crash
<1>3. late' \in SUBSET Tasks
  BY DEF Crash
<1>4. edits' \in 0..MaxEdits /\ crashes' \in 0..MaxCrashes
  BY BoundAssumption DEF Crash
<1>5. hpc' \in [Handlers -> HandlerHolding \cup HandlerFree]
  BY DEF Crash, HandlerFree
<1> QED
  BY <1>1, <1>2, <1>3, <1>4, <1>5 DEF Crash, SyncFree

LEMMA EnvType == TypeOK /\ EnvNext => TypeOK'
<1> SUFFICES ASSUME TypeOK, EnvNext PROVE TypeOK'
  OBVIOUS
<1> USE BoundAssumption DEF TypeOK
<1>1. ASSUME NEW t \in Tasks, LateComplete(t) PROVE TypeOK'
  BY <1>1 DEF LateComplete
<1>2. ASSUME NEW t \in Tasks, PhoneEdit(t) PROVE TypeOK'
  BY <1>2 DEF PhoneEdit
<1>3. CASE NetworkChange
  BY <1>3 DEF NetworkChange
<1> QED
  BY <1>1, <1>2, <1>3, CrashType DEF EnvNext

(* Every variable keeps its type.                                          *)
THEOREM TypeCorrect == Spec => []TypeOK
<1>1. TypeOK /\ UNCHANGED vars => TypeOK'
  BY DEF TypeOK, vars
<1>2. TypeOK /\ [Next]_vars => TypeOK'
  BY <1>1, SyncType, HandlerType, EnvType DEF Next
<1> QED
  BY InitType, <1>2, PTL DEF Spec

-----------------------------------------------------------------------------
(* The lock *)

LEMMA SyncKeepsLock == TypeOK /\ LockOwner /\ (SyncAcquire \/ SyncStep) => LockOwner'
<1> SUFFICES ASSUME TypeOK, LockOwner, SyncAcquire \/ SyncStep PROVE LockOwner'
  OBVIOUS
<1>1. hpc' = hpc
  BY DEF SyncAcquire, SyncStep, SyncSession, SyncEvents, SyncHolidays, SyncLists,
         SyncTasks, SyncTasksRead, SyncApply, SyncSave, SyncRecord, SyncWake
<1>2. (lock \in {Free, Sync} /\ lock' \in {Free, Sync}) \/ UNCHANGED lock
  BY DEF LockOwner, SyncHolding, SyncAcquire, SyncStep,
         SyncSession, SyncEvents, SyncHolidays, SyncLists, SyncTasks,
         SyncTasksRead, SyncApply, SyncSave, SyncRecord, SyncWake
<1>3. spc' \in SyncHolding <=> lock' = Sync
  BY ProcessAssumption
     DEF TypeOK, LockOwner, SyncHolding, SyncFree, SyncAcquire, SyncStep,
         SyncSession, SyncEvents, SyncHolidays, SyncLists, SyncTasks,
         SyncTasksRead, SyncApply, SyncSave, SyncRecord, SyncWake
<1> QED
  BY <1>1, <1>2, <1>3, ProcessAssumption DEF LockOwner

LEMMA HandlerKeepsLock ==
  ASSUME TypeOK, LockOwner, NEW h \in Handlers, HandlerNext(h)
  PROVE  LockOwner'
<1>1. spc' = spc
  BY DEF HandlerNext, HandlerStep, Request, Acquire, Check, Session,
         GoogleCompletes, PatchFails, Remove, Save, Cancel, CancelSave, Orphan
<1>2. \A g \in Handlers \ {h} : hpc'[g] = hpc[g]
  BY DEF TypeOK, HandlerNext, HandlerStep, Request, Acquire, Check, Session,
         GoogleCompletes, PatchFails, Remove, Save, Cancel, CancelSave, Orphan
<1>3. UNCHANGED lock \/ (lock \in {h, Free} /\ lock' \in {h, Free})
  BY DEF TypeOK, LockOwner, HandlerHolding, HandlerNext, HandlerStep, Request,
         Acquire, Check, Session, GoogleCompletes, PatchFails, Remove, Save,
         Cancel, CancelSave, Orphan
<1>4. hpc'[h] \in HandlerHolding <=> lock' = h
  BY ProcessAssumption
     DEF TypeOK, LockOwner, HandlerHolding, HandlerNext, HandlerStep, Request,
         Acquire, Check, Session, GoogleCompletes, PatchFails, Remove, Save,
         Cancel, CancelSave, Orphan
<1> QED
  BY <1>1, <1>2, <1>3, <1>4, ProcessAssumption DEF LockOwner

LEMMA EnvKeepsLock == LockOwner /\ EnvNext => LockOwner'
BY ProcessAssumption
   DEF LockOwner, SyncHolding, HandlerHolding, EnvNext, LateComplete, PhoneEdit,
       NetworkChange, Crash

(* update_lock serialises syncs and completions: at most one of them is at *)
(* any time between its lock().await and its return.                       *)
THEOREM Serialised == Spec => []LockOwner
<1>1. Init => LockOwner
  BY ProcessAssumption DEF Init, LockOwner, SyncHolding, HandlerHolding
<1>2. LockOwner /\ UNCHANGED vars => LockOwner'
  BY DEF LockOwner, vars
<1>3. TypeOK /\ LockOwner /\ [Next]_vars => LockOwner'
  BY <1>2, SyncKeepsLock, HandlerKeepsLock, EnvKeepsLock DEF Next
<1> QED
  BY <1>1, <1>3, TypeCorrect, PTL DEF Spec

-----------------------------------------------------------------------------
(* Completed tasks.  NoRevival is not inductive: an answer of Google that  *)
(* a sync holds may still carry the task.  It cannot, because completions  *)
(* are recorded under the lock the sync holds, and because Google no       *)
(* longer has a completed task open when the sync reads its list.          *)

DoneClosed  == done \cap open = {}
AnswerFresh == spc \in {"tasks", "apply"} /\ fetched => buf \cap done = {}
DoneInv == DoneClosed /\ AnswerFresh /\ NoRevival

LEMMA SyncKeepsDone ==
  TypeOK /\ DoneInv /\ (SyncAcquire \/ SyncStep) => DoneInv'
<1> SUFFICES ASSUME TypeOK, DoneInv, SyncAcquire \/ SyncStep PROVE DoneInv'
  OBVIOUS
<1> USE DEF TypeOK, DoneInv, DoneClosed, AnswerFresh, NoRevival
<1>1. UNCHANGED <<open, done>>
  BY DEF SyncAcquire, SyncStep, SyncSession, SyncEvents, SyncHolidays, SyncLists,
         SyncTasks, SyncTasksRead, SyncApply, SyncSave, SyncRecord, SyncWake
<1>2. CASE SyncAcquire \/ SyncSession \/ SyncEvents \/ SyncHolidays \/ SyncTasksRead
             \/ SyncSave \/ SyncWake
  BY <1>1, <1>2
     DEF SyncAcquire, SyncSession, SyncEvents, SyncHolidays, SyncTasksRead,
         SyncSave, SyncWake
<1>3. CASE SyncLists
  BY <1>1, <1>3 DEF SyncLists
<1>4. CASE SyncTasks
  BY <1>1, <1>4 DEF SyncTasks
<1>5. CASE SyncApply
  BY <1>1, <1>5 DEF SyncApply, CalendarData
<1>6. CASE SyncRecord
  BY <1>1, <1>6 DEF SyncRecord, CalendarData
<1> QED
  BY <1>2, <1>3, <1>4, <1>5, <1>6 DEF SyncStep

LEMMA HandlerKeepsDone ==
  ASSUME TypeOK, LockOwner, DoneInv, NEW h \in Handlers, HandlerNext(h)
  PROVE  DoneInv'
<1> USE DEF TypeOK, DoneInv, DoneClosed, AnswerFresh, NoRevival
<1>1. UNCHANGED <<spc, fetched, buf>>
  BY DEF HandlerNext, HandlerStep, Request, Acquire, Check, Session,
         GoogleCompletes, PatchFails, Remove, Save, Cancel, CancelSave, Orphan
<1>2. CASE GoogleCompletes(h)
  BY <1>1, <1>2 DEF GoogleCompletes
<1>3. CASE Remove(h)
  <2>1. lock = h
    BY <1>3 DEF Remove, LockOwner, HandlerHolding
  <2>2. spc \notin {"tasks", "apply"}
    BY <2>1, ProcessAssumption DEF LockOwner, SyncHolding
  <2>3. mem'.tasks \cap done' = {}
    BY <1>3 DEF Remove, CalendarData, Family
  <2>4. done' \cap open' = {}
    BY <1>3 DEF Remove
  <2> QED
    BY <1>1, <2>2, <2>3, <2>4
<1>4. CASE ~GoogleCompletes(h) /\ ~Remove(h)
  <2>1. UNCHANGED <<mem, open, done>>
    BY <1>4 DEF HandlerNext, HandlerStep, Request, Acquire, Check, Session,
                PatchFails, Save, Cancel, CancelSave, Orphan
  <2> QED
    BY <1>1, <2>1
<1> QED
  BY <1>2, <1>3, <1>4

LEMMA EnvKeepsDone == TypeOK /\ DoneInv /\ EnvNext => DoneInv'
<1> SUFFICES ASSUME TypeOK, DoneInv, EnvNext PROVE DoneInv'
  OBVIOUS
<1> USE DEF TypeOK, DoneInv, DoneClosed, AnswerFresh, NoRevival
<1>1. ASSUME NEW t \in Tasks, LateComplete(t) \/ PhoneEdit(t) PROVE DoneInv'
  BY <1>1 DEF LateComplete, PhoneEdit
<1>2. CASE NetworkChange
  BY <1>2 DEF NetworkChange
<1>3. CASE Crash
  BY <1>3 DEF Crash
<1> QED
  BY <1>1, <1>2, <1>3 DEF EnvNext

LEMMA DoneInvariant == Spec => []DoneInv
<1>1. Init => DoneInv
  BY DEF Init, DoneInv, DoneClosed, AnswerFresh, NoRevival
<1>2. DoneInv /\ UNCHANGED vars => DoneInv'
  BY DEF DoneInv, DoneClosed, AnswerFresh, NoRevival, vars
<1>3. TypeOK /\ LockOwner /\ DoneInv /\ [Next]_vars => DoneInv'
  BY <1>2, SyncKeepsDone, HandlerKeepsDone, EnvKeepsDone DEF Next
<1> QED
  BY <1>1, <1>3, TypeCorrect, Serialised, PTL DEF Spec

(* A task completed on the kiosk is never shown again by this process      *)
(* while nobody reopens it at Google (the comment of sync_once).           *)
THEOREM CompletedStaysGone == Spec => []NoRevival
BY DoneInvariant, PTL DEF DoneInv

-----------------------------------------------------------------------------
(* No loss.  What leaves the list is missing from a complete answer, or    *)
(* belongs to a confirmed completion.                                      *)

ClosedKnown    == Tasks \ open \subseteq everClosed
AnswerComplete ==
  /\ spc \in {"tasks", "apply"} /\ fetched =>
       \A t \in Tasks : ListOf[t] \in left \/ t \in buf \/ t \in everClosed
  /\ spc = "apply" /\ fetched => left = {}
ConfirmedClosed == \A h \in Handlers : hpc[h] = "patched" => req[h] \in everClosed
LossInv == ClosedKnown /\ AnswerComplete /\ ConfirmedClosed

LEMMA SyncKeepsLoss ==
  TypeOK /\ LossInv /\ (SyncAcquire \/ SyncStep) => LossInv'
<1> SUFFICES ASSUME TypeOK, LossInv, SyncAcquire \/ SyncStep PROVE LossInv'
  OBVIOUS
<1>1. UNCHANGED <<open, everClosed, hpc, req>>
  BY DEF SyncAcquire, SyncStep, SyncSession, SyncEvents, SyncHolidays, SyncLists,
         SyncTasks, SyncTasksRead, SyncApply, SyncSave, SyncRecord, SyncWake
<1>2. ClosedKnown' /\ ConfirmedClosed'
  BY <1>1 DEF LossInv, ClosedKnown, ConfirmedClosed
<1> USE DEF LossInv, AnswerComplete
<1>3. CASE SyncAcquire \/ SyncSession \/ SyncEvents \/ SyncHolidays \/ SyncApply
             \/ SyncSave \/ SyncRecord \/ SyncWake
  BY <1>2, <1>3
     DEF SyncAcquire, SyncSession, SyncEvents, SyncHolidays, SyncApply,
         SyncSave, SyncRecord, SyncWake
<1>4. CASE SyncLists
  BY <1>2, <1>4, TaskAssumption DEF SyncLists
<1>5. CASE SyncTasks
  <2>1. CASE TaskReadFails
    BY <1>2, <1>5, <2>1 DEF SyncTasks
  <2>2. CASE ~TaskReadFails
    <3>1. PICK l \in left : /\ left' = left \ {l}
                            /\ buf' = buf \cup {t \in open : ListOf[t] = l}
                            /\ UNCHANGED <<spc, fetched>>
      BY <1>5, <2>2 DEF SyncTasks
    <3>2. \A t \in Tasks : t \in open \/ t \in everClosed
      BY DEF ClosedKnown
    <3> QED
      BY <1>1, <1>2, <1>5, <3>1, <3>2 DEF SyncTasks
  <2> QED
    BY <2>1, <2>2
<1>6. CASE SyncTasksRead
  BY <1>1, <1>2, <1>6 DEF SyncTasksRead
<1> QED
  BY <1>3, <1>4, <1>5, <1>6 DEF SyncStep

LEMMA HandlerKeepsLoss ==
  ASSUME TypeOK, LossInv, NEW h \in Handlers, HandlerNext(h)
  PROVE  LossInv'
<1> USE DEF TypeOK, LossInv, ClosedKnown, AnswerComplete, ConfirmedClosed
<1>1. UNCHANGED syncVars
  BY DEF HandlerNext, HandlerStep, Request, Acquire, Check, Session,
         GoogleCompletes, PatchFails, Remove, Save, Cancel, CancelSave, Orphan
<1>2. CASE GoogleCompletes(h)
  <2>1. ClosedKnown' /\ everClosed \subseteq everClosed'
    BY <1>2 DEF GoogleCompletes
  <2>2. req'[h] \in everClosed'
    BY <1>2 DEF GoogleCompletes, HandlerHolding, HandlerFree
  <2>3. ConfirmedClosed'
    BY <1>2, <2>1, <2>2 DEF GoogleCompletes
  <2> QED
    BY <1>1, <2>1, <2>3
<1>3. CASE ~GoogleCompletes(h)
  <2>1. UNCHANGED <<open, everClosed>>
    BY <1>3 DEF HandlerNext, HandlerStep, Request, Acquire, Check, Session,
                PatchFails, Remove, Save, Cancel, CancelSave, Orphan
  <2>2. ConfirmedClosed'
    BY <1>3, <2>1
       DEF HandlerNext, HandlerStep, Request, Acquire, Check, Session,
           PatchFails, Remove, Save, Cancel, CancelSave, Orphan
  <2> QED
    BY <1>1, <2>1, <2>2
<1> QED
  BY <1>2, <1>3

LEMMA EnvKeepsLoss == TypeOK /\ LossInv /\ EnvNext => LossInv'
<1> SUFFICES ASSUME TypeOK, LossInv, EnvNext PROVE LossInv'
  OBVIOUS
<1> USE DEF TypeOK, LossInv, ClosedKnown, AnswerComplete, ConfirmedClosed
<1>1. ASSUME NEW t \in Tasks, LateComplete(t) \/ PhoneEdit(t) PROVE LossInv'
  BY <1>1 DEF LateComplete, PhoneEdit
<1>2. CASE NetworkChange
  BY <1>2 DEF NetworkChange
<1>3. CASE Crash
  BY <1>3 DEF Crash
<1> QED
  BY <1>1, <1>2, <1>3 DEF EnvNext

LEMMA LossInvariant == Spec => []LossInv
<1>1. Init => LossInv
  BY DEF Init, LossInv, ClosedKnown, AnswerComplete, ConfirmedClosed
<1>2. LossInv /\ UNCHANGED vars => LossInv'
  BY DEF LossInv, ClosedKnown, AnswerComplete, ConfirmedClosed, vars
<1>3. TypeOK /\ LossInv /\ [Next]_vars => LossInv'
  BY <1>2, SyncKeepsLoss, HandlerKeepsLoss, EnvKeepsLoss DEF Next
<1> QED
  BY <1>1, <1>3, TypeCorrect, PTL DEF Spec

(* What a step that is no crash takes from the list had been closed at     *)
(* Google, itself or its parent.                                           *)
LostWasClosed ==
  crashes' = crashes =>
    \A t \in mem.tasks \ mem'.tasks : t \in everClosed \/ Parent[t] \in everClosed

LEMMA StepLosesNothing == TypeOK /\ LossInv /\ [Next]_vars => LostWasClosed
<1> SUFFICES ASSUME TypeOK, LossInv, [Next]_vars, crashes' = crashes,
                    NEW t \in mem.tasks, t \notin mem'.tasks
             PROVE  t \in everClosed \/ Parent[t] \in everClosed
  BY DEF LostWasClosed
<1>1. t \in Tasks
  BY DEF TypeOK, CalendarData
<1>2. CASE SyncApply
  BY <1>1, <1>2 DEF SyncApply, LossInv, AnswerComplete
<1>3. ASSUME NEW h \in Handlers, Remove(h)
      PROVE  t \in everClosed \/ Parent[t] \in everClosed
  <2>1. req[h] \in everClosed /\ mem'.tasks = mem.tasks \ Family(req[h])
    BY <1>3 DEF Remove, LossInv, ConfirmedClosed, TypeOK, CalendarData
  <2> QED
    BY <2>1 DEF Family, Subtasks
<1>4. CASE SyncRecord
  BY <1>4 DEF SyncRecord, TypeOK, CalendarData
<1>5. CASE UNCHANGED mem
  BY <1>5
<1>6. CASE Crash
  BY <1>6 DEF Crash, TypeOK
<1>7. \/ SyncApply \/ SyncRecord \/ Crash \/ UNCHANGED mem
      \/ \E h \in Handlers : Remove(h)
  BY DEF Next, SyncAcquire, SyncStep, SyncSession, SyncEvents, SyncHolidays,
         SyncLists, SyncTasks, SyncTasksRead, SyncSave, SyncWake, HandlerNext,
         HandlerStep, Request, Acquire, Check, Session, GoogleCompletes,
         PatchFails, Save, Cancel, CancelSave, Orphan, EnvNext, LateComplete,
         PhoneEdit, NetworkChange, vars
<1> QED
  BY <1>2, <1>3, <1>4, <1>5, <1>6, <1>7

(* Failed reads, failed completions and dropped requests lose no task.     *)
THEOREM NothingLost == Spec => NoLoss
<1>1. TypeOK /\ LossInv /\ [Next]_vars => [LostWasClosed]_vars
  BY StepLosesNothing
<1> QED
  BY <1>1, TypeCorrect, LossInvariant, PTL DEF Spec, NoLoss, LostWasClosed

-----------------------------------------------------------------------------
(* The cache.  A payload is cloned under the lock and saved under it, so   *)
(* it is still the list in memory when it is written.                      *)

PayloadCurrent == \A h \in Handlers : hpc[h] = "save" => pay[h] = mem.tasks
NobodySaves    == spc # "save" /\ \A h \in Handlers : hpc[h] # "save"
CacheHolds     == NobodySaves /\ ~unsaved => mem.tasks = UNION cache
CacheInv == PayloadCurrent /\ CacheHolds

LEMMA SyncKeepsCache ==
  TypeOK /\ LockOwner /\ CacheInv /\ (SyncAcquire \/ SyncStep) => CacheInv'
<1> SUFFICES ASSUME TypeOK, LockOwner, CacheInv, SyncAcquire \/ SyncStep
             PROVE  CacheInv'
  OBVIOUS
<1> USE DEF CacheInv, PayloadCurrent, CacheHolds, NobodySaves
<1>1. UNCHANGED <<hpc, pay>>
  BY DEF SyncAcquire, SyncStep, SyncSession, SyncEvents, SyncHolidays, SyncLists,
         SyncTasks, SyncTasksRead, SyncApply, SyncSave, SyncRecord, SyncWake
<1>2. CASE SyncApply
  <2>1. lock = Sync /\ spc' = "save"
    BY <1>2 DEF SyncApply, LockOwner, SyncHolding
  <2>2. \A h \in Handlers : hpc[h] # "save"
    BY <2>1, ProcessAssumption DEF LockOwner, HandlerHolding
  <2> QED
    BY <1>1, <2>1, <2>2
<1>3. CASE SyncSave
  <2>1. mem' = mem
    BY <1>3 DEF SyncSave
  <2>2. unsaved' \/ cache' = {mem.tasks}
    BY <1>3 DEF SyncSave
  <2>3. UNION {mem.tasks} = mem.tasks
    OBVIOUS
  <2> QED
    BY <1>1, <2>1, <2>2, <2>3
<1>4. CASE ~SyncApply /\ ~SyncSave
  <2>1. UNCHANGED mem \/ SyncRecord
    BY <1>4 DEF SyncAcquire, SyncStep, SyncSession, SyncEvents, SyncHolidays,
         SyncLists, SyncTasks, SyncTasksRead, SyncRecord, SyncWake
  <2>2. mem'.tasks = mem.tasks
    BY <2>1 DEF SyncRecord, TypeOK, CalendarData
  <2>3. UNCHANGED <<cache, unsaved>> /\ spc # "save"
    BY <1>4 DEF SyncAcquire, SyncStep, SyncSession, SyncEvents, SyncHolidays,
         SyncLists, SyncTasks, SyncTasksRead, SyncRecord, SyncWake
  <2> QED
    BY <1>1, <2>2, <2>3
<1> QED
  BY <1>2, <1>3, <1>4

LEMMA HandlerKeepsCache ==
  ASSUME TypeOK, LockOwner, CacheInv, NEW h \in Handlers, HandlerNext(h)
  PROVE  CacheInv'
<1> USE DEF CacheInv, PayloadCurrent, CacheHolds, NobodySaves
<1>1. spc' = spc /\ \A g \in Handlers \ {h} : hpc'[g] = hpc[g] /\ pay'[g] = pay[g]
  BY DEF TypeOK, HandlerNext, HandlerStep, Request, Acquire, Check, Session,
         GoogleCompletes, PatchFails, Remove, Save, Cancel, CancelSave, Orphan
<1>2. CASE Remove(h)
  <2>1. \A g \in Handlers \ {h} : hpc[g] # "save"
    BY <1>2 DEF Remove, LockOwner, HandlerHolding
  <2>2. hpc'[h] = "save" /\ pay'[h] = mem'.tasks
    BY <1>2 DEF Remove, TypeOK, CalendarData
  <2> QED
    BY <1>1, <2>1, <2>2
<1>3. CASE Save(h)
  <2>1. mem' = mem /\ hpc'[h] # "save" /\ pay[h] = mem.tasks
    BY <1>3 DEF Save, TypeOK
  <2>2. unsaved' \/ cache' = {mem.tasks}
    BY <1>3, <2>1 DEF Save
  <2>3. UNION {mem.tasks} = mem.tasks
    OBVIOUS
  <2> QED
    BY <1>1, <2>1, <2>2, <2>3
<1>4. CASE CancelSave(h)
  BY <1>1, <1>4 DEF CancelSave, TypeOK
<1>5. CASE Orphan(h)
  <2>1. mem' = mem /\ hpc[h] # "save" /\ hpc'[h] # "save"
    BY <1>5 DEF Orphan, TypeOK
  <2>2. unsaved' \/ (~unsaved /\ cache' = cache)
    BY <1>5 DEF Orphan, TypeOK
  <2> QED
    BY <1>1, <2>1, <2>2
<1>6. CASE ~Remove(h) /\ ~Save(h) /\ ~CancelSave(h) /\ ~Orphan(h)
  <2>1. UNCHANGED <<mem, cache, unsaved>> /\ hpc[h] # "save" /\ hpc'[h] # "save"
    BY <1>6 DEF TypeOK, HandlerHolding, HandlerNext, HandlerStep, Request, Acquire,
                Check, Session, GoogleCompletes, PatchFails, Cancel
  <2> QED
    BY <1>1, <2>1
<1> QED
  BY <1>2, <1>3, <1>4, <1>5, <1>6

LEMMA EnvKeepsCache == CacheInv /\ EnvNext => CacheInv'
<1> SUFFICES ASSUME CacheInv, EnvNext PROVE CacheInv'
  OBVIOUS
<1> USE DEF CacheInv, PayloadCurrent, CacheHolds, NobodySaves
<1>1. CASE Crash
  <2>1. mem'.tasks = UNION cache'
    BY <1>1 DEF Crash, Loaded
  <2> QED
    BY <1>1, <2>1 DEF Crash
<1>2. CASE ~Crash
  <2>1. UNCHANGED <<mem, cache, unsaved, spc, hpc, pay>>
    BY <1>2 DEF EnvNext, LateComplete, PhoneEdit, NetworkChange
  <2> QED
    BY <2>1
<1> QED
  BY <1>1, <1>2

(* The cache file agrees with the memory whenever nobody writes, but for   *)
(* failed writes and those of dropped requests.                            *)
THEOREM CacheAgrees == Spec => []CacheCurrent
<1> USE DEF CacheInv, PayloadCurrent, CacheHolds, NobodySaves
<1>1. Init => CacheInv
  BY DEF Init, Loaded
<1>2. CacheInv /\ UNCHANGED vars => CacheInv'
  BY DEF vars
<1>3. TypeOK /\ LockOwner /\ CacheInv /\ [Next]_vars => CacheInv'
  BY <1>2, SyncKeepsCache, HandlerKeepsCache, EnvKeepsCache DEF Next
<1>4. LockOwner /\ CacheInv => CacheCurrent
  BY ProcessAssumption
     DEF LockOwner, CacheCurrent, SyncHolding, HandlerHolding, Loaded
<1> QED
  BY <1>1, <1>3, <1>4, TypeCorrect, Serialised, PTL DEF Spec

-----------------------------------------------------------------------------
(* The board.  A completion acts on the task its check has found, however  *)
(* long Google took to answer: the list cannot change under the lock.      *)

Checked == \A h \in Handlers :
  hpc[h] \in {"session", "patch", "patched"} => req[h] \in mem.tasks /\ TopLevel(req[h])

LEMMA SyncKeepsChecked ==
  TypeOK /\ LockOwner /\ Checked /\ (SyncAcquire \/ SyncStep) => Checked'
<1> SUFFICES ASSUME TypeOK, LockOwner, Checked, SyncAcquire \/ SyncStep
             PROVE  Checked'
  OBVIOUS
<1>1. UNCHANGED <<hpc, req>>
  BY DEF SyncAcquire, SyncStep, SyncSession, SyncEvents, SyncHolidays, SyncLists,
         SyncTasks, SyncTasksRead, SyncApply, SyncSave, SyncRecord, SyncWake
<1>2. CASE SyncApply
  <2>1. lock = Sync
    BY <1>2 DEF SyncApply, LockOwner, SyncHolding
  <2>2. \A h \in Handlers : hpc[h] \notin HandlerHolding
    BY <2>1, ProcessAssumption DEF LockOwner
  <2> QED
    BY <1>1, <2>2 DEF Checked, HandlerHolding
<1>3. CASE ~SyncApply
  <2>1. UNCHANGED mem \/ SyncRecord
    BY <1>3 DEF SyncAcquire, SyncStep, SyncSession, SyncEvents, SyncHolidays,
         SyncLists, SyncTasks, SyncTasksRead, SyncSave, SyncRecord, SyncWake
  <2>2. mem'.tasks = mem.tasks
    BY <2>1 DEF SyncRecord, TypeOK, CalendarData
  <2> QED
    BY <1>1, <2>2 DEF Checked, TopLevel
<1> QED
  BY <1>2, <1>3

LEMMA HandlerKeepsChecked ==
  ASSUME TypeOK, LockOwner, Checked, NEW h \in Handlers, HandlerNext(h)
  PROVE  Checked'
<1>1. CASE Remove(h)
  <2>1. lock = h
    BY <1>1 DEF Remove, LockOwner, HandlerHolding
  <2>2. \A g \in Handlers \ {h} : hpc[g] \notin HandlerHolding
    BY <2>1 DEF LockOwner
  <2> QED
    BY <1>1, <2>2 DEF Remove, Checked, HandlerHolding, TypeOK
<1>2. CASE ~Remove(h)
  <2>1. UNCHANGED mem
    BY <1>2 DEF HandlerNext, HandlerStep, Request, Acquire, Check, Session,
           GoogleCompletes, PatchFails, Save, Cancel, CancelSave, Orphan
  <2>2. \A g \in Handlers \ {h} : hpc'[g] = hpc[g] /\ req'[g] = req[g]
    BY <1>2 DEF TypeOK, HandlerNext, HandlerStep, Request, Acquire, Check, Session,
           GoogleCompletes, PatchFails, Save, Cancel, CancelSave, Orphan
  <2>3. hpc'[h] \in {"session", "patch", "patched"}
          => req'[h] \in mem.tasks /\ TopLevel(req'[h])
    BY <1>2 DEF Checked, TypeOK, HandlerNext, HandlerStep, Request, Acquire, Check,
           Session, GoogleCompletes, PatchFails, Save, Cancel, CancelSave, Orphan
  <2> QED
    BY <2>1, <2>2, <2>3 DEF Checked, TopLevel
<1> QED
  BY <1>1, <1>2

LEMMA EnvKeepsChecked == TypeOK /\ Checked /\ EnvNext => Checked'
BY DEF TypeOK, Checked, TopLevel, EnvNext, LateComplete, PhoneEdit, NetworkChange,
       Crash

LEMMA CheckedInvariant == Spec => []Checked
<1>1. Init => Checked
  BY DEF Init, Checked
<1>2. Checked /\ UNCHANGED vars => Checked'
  BY DEF Checked, TopLevel, vars
<1>3. TypeOK /\ LockOwner /\ Checked /\ [Next]_vars => Checked'
  BY <1>2, SyncKeepsChecked, HandlerKeepsChecked, EnvKeepsChecked DEF Next
<1> QED
  BY <1>1, <1>3, TypeCorrect, Serialised, PTL DEF Spec

LEMMA BoardInit == Init => Board!Init
<1> SUFFICES ASSUME Init PROVE Board!Init
  OBVIOUS
<1>1. mem.tasks \in SUBSET Tasks
  BY LoadedCache DEF Init, CalendarData
<1> QED
  BY <1>1 DEF Init, Board!Init

LEMMA BoardSync ==
  ASSUME TypeOK, DoneInv, SyncAcquire \/ SyncStep
  PROVE  [Board!Next]_(Board!boardVars)
<1> USE DEF Board!boardVars
<1>1. UNCHANGED <<open, done>>
  BY DEF SyncAcquire, SyncStep, SyncSession, SyncEvents, SyncHolidays, SyncLists,
         SyncTasks, SyncTasksRead, SyncApply, SyncSave, SyncRecord, SyncWake
<1>2. CASE SyncApply /\ fetched
  <2>1. mem'.tasks = buf /\ buf \in SUBSET (Tasks \ done)
    BY <1>2 DEF SyncApply, DoneInv, AnswerFresh, TypeOK
  <2>2. Board!Refresh
    BY <1>1, <2>1 DEF Board!Refresh
  <2> QED
    BY <2>2 DEF Board!Next
<1>3. CASE SyncApply /\ ~fetched
  <2>1. mem'.tasks = mem.tasks
    BY <1>3 DEF SyncApply
  <2> QED
    BY <1>1, <2>1
<1>4. CASE ~SyncApply
  <2>1. UNCHANGED mem \/ SyncRecord
    BY <1>4 DEF SyncAcquire, SyncStep, SyncSession, SyncEvents, SyncHolidays,
         SyncLists, SyncTasks, SyncTasksRead, SyncSave, SyncWake
  <2>2. mem'.tasks = mem.tasks
    BY <2>1 DEF SyncRecord, TypeOK, CalendarData
  <2> QED
    BY <1>1, <2>2
<1> QED
  BY <1>2, <1>3, <1>4

LEMMA BoardGoogle ==
  ASSUME TypeOK, DoneInv, UNCHANGED mem.tasks,
         NEW O \in SUBSET open, SetOpen(O)
  PROVE  [Board!Next]_(Board!boardVars)
<1>1. done' = done /\ open' = open \ (open \ O)
  BY DEF DoneInv, DoneClosed, TypeOK
<1>2. open \ O \in SUBSET Tasks
  BY DEF TypeOK
<1> QED
  BY <1>1, <1>2 DEF Board!Next, Board!Close

LEMMA BoardHandler ==
  ASSUME TypeOK, DoneInv, Checked, NEW h \in Handlers, HandlerNext(h)
  PROVE  [Board!Next]_(Board!boardVars)
<1>1. CASE GoogleCompletes(h)
  <2>1. \E O \in SUBSET open : SetOpen(O)
    BY <1>1 DEF GoogleCompletes, TypeOK
  <2> QED
    BY <1>1, <2>1, BoardGoogle DEF GoogleCompletes
<1>2. CASE Remove(h)
  <2>1. req[h] \in mem.tasks /\ Board!TopLevel(req[h])
    BY <1>2 DEF Remove, Checked, TopLevel, Board!TopLevel
  <2>2. mem'.tasks = mem.tasks \ ({req[h]} \cup Board!Subtasks(req[h]))
    BY <1>2 DEF Remove, Family, Subtasks, Board!Subtasks, TypeOK, CalendarData
  <2> QED
    BY <1>2, <2>1, <2>2 DEF Remove, Board!Next, Board!Complete
<1>3. CASE ~GoogleCompletes(h) /\ ~Remove(h)
  <2>1. UNCHANGED <<mem, open, done>>
    BY <1>3 DEF HandlerNext, HandlerStep, Request, Acquire, Check, Session,
                PatchFails, Save, Cancel, CancelSave, Orphan
  <2> QED
    BY <2>1 DEF Board!boardVars
<1> QED
  BY <1>1, <1>2, <1>3

LEMMA BoardEnv ==
  ASSUME TypeOK, DoneInv, EnvNext, TypeOK'
  PROVE  [Board!Next]_(Board!boardVars)
<1>1. ASSUME NEW t \in Tasks, LateComplete(t)
      PROVE  [Board!Next]_(Board!boardVars)
  <2>1. \E O \in SUBSET open : SetOpen(O)
    BY <1>1 DEF LateComplete, TypeOK
  <2> QED
    BY <1>1, <2>1, BoardGoogle DEF LateComplete
<1>2. ASSUME NEW t \in Tasks, PhoneEdit(t)
      PROVE  [Board!Next]_(Board!boardVars)
  <2>1. CASE t \in open
    <3>1. open \ {t} \in SUBSET open /\ SetOpen(open \ {t})
      BY <1>2, <2>1 DEF PhoneEdit
    <3> QED
      BY <1>2, <3>1, BoardGoogle DEF PhoneEdit
  <2>2. CASE t \notin open
    <3>1. open' = open \cup {t} /\ done' = done \ {t} /\ UNCHANGED mem
      BY <1>2, <2>2 DEF PhoneEdit, DoneInv, DoneClosed
    <3> QED
      BY <3>1 DEF Board!Next, Board!Open
  <2> QED
    BY <2>1, <2>2
<1>3. CASE NetworkChange
  BY <1>3 DEF NetworkChange, Board!boardVars
<1>4. CASE Crash
  <2>1. mem'.tasks \in SUBSET Tasks
    BY DEF TypeOK, CalendarData
  <2> QED
    BY <1>4, <2>1 DEF Crash, Board!Next, Board!Restart
<1> QED
  BY <1>1, <1>2, <1>3, <1>4 DEF EnvNext

(* The server keeps the promises of TaskBoard.                             *)
THEOREM ImplementsBoard == Spec => BoardSpec
<1>1. TypeOK /\ TypeOK' /\ DoneInv /\ Checked /\ [Next]_vars
        => [Board!Next]_(Board!boardVars)
  <2>1. UNCHANGED vars => UNCHANGED Board!boardVars
    BY DEF vars, Board!boardVars
  <2> QED
    BY <2>1, BoardSync, BoardHandler, BoardEnv DEF Next
<1> QED
  BY <1>1, BoardInit, TypeCorrect, DoneInvariant, CheckedInvariant, PTL
     DEF Spec, BoardSpec, Board!Spec

-----------------------------------------------------------------------------
(* The turns at the cache file.  What SavedFile says of a save it says of  *)
(* saves that take turns: that they do is owed to update_lock.             *)

LEMMA OneSaves ==
  ASSUME LockOwner
  PROVE  /\ spc = "save" => Saving = {mem.tasks}
         /\ \A h \in Handlers : hpc[h] = "save" => Saving = {pay[h]}
         /\ spc \in SyncHolding \ {"save"} => Saving = {}
         /\ \A h \in Handlers : hpc[h] \in HandlerHolding \ {"save"} => Saving = {}
<1>1. \A h \in Handlers : hpc[h] = "save" => lock = h
  BY DEF LockOwner, HandlerHolding
<1>2. spc = "save" => lock = Sync
  BY DEF LockOwner, SyncHolding
<1> QED
  BY <1>1, <1>2, ProcessAssumption DEF LockOwner, Saving

(* Who is saving, and what, is the same after a step that neither begins   *)
(* nor ends a save.                                                        *)
LEMMA SavingSame ==
  ASSUME spc' = "save" <=> spc = "save", spc = "save" => mem'.tasks = mem.tasks,
         \A h \in Handlers : /\ hpc'[h] = "save" <=> hpc[h] = "save"
                             /\ hpc[h] = "save" => pay'[h] = pay[h]
  PROVE  Saving' = Saving
BY DEF Saving

LEMMA FileInit == Init => File!Init
<1> SUFFICES ASSUME Init PROVE File!Init
  OBVIOUS
<1>1. Saving = {} /\ Orphaned = FALSE
  BY DEF Init, Saving, Orphans, Orphaned
<1>2. cache \in File!Contents
  BY DEF Init, CacheFile, File!Contents
<1> QED
  BY <1>1, <1>2 DEF Init, File!Init

LEMMA FileSync ==
  ASSUME TypeOK, LockOwner, SyncAcquire \/ SyncStep
  PROVE  [File!Next]_(File!savedVars)
<1>1. UNCHANGED <<hpc, pay>> /\ Orphaned' = Orphaned
  BY DEF Orphaned, Orphans, SyncAcquire, SyncStep, SyncSession, SyncEvents,
         SyncHolidays, SyncLists, SyncTasks, SyncTasksRead, SyncApply, SyncSave,
         SyncRecord, SyncWake
<1>2. CASE SyncApply
  <2>1. Saving = {} /\ \A h \in Handlers : hpc[h] # "save"
    BY <1>2, OneSaves DEF SyncApply, SyncHolding
  <2>2. Saving' = {mem'.tasks}
    BY <1>1, <1>2, <2>1 DEF SyncApply, Saving
  <2>3. mem'.tasks \in SUBSET Tasks
    BY <1>2 DEF SyncApply, TypeOK, CalendarData
  <2>4. File!Begin(mem'.tasks)
    BY <1>1, <1>2, <2>1, <2>2 DEF SyncApply, TakePayload, File!Begin
  <2> QED
    BY <2>3, <2>4 DEF File!Next
<1>3. CASE SyncSave
  <2>1. Saving = {mem.tasks}
    BY <1>3, OneSaves DEF SyncSave
  <2>2. \A h \in Handlers : hpc[h] # "save"
    BY <1>3, ProcessAssumption DEF SyncSave, LockOwner, SyncHolding, HandlerHolding
  <2>3. Saving' = {}
    BY <1>1, <1>3, <2>2 DEF SyncSave, Saving
  <2>4. cache' \in File!Outcomes /\ loose' = IF Orphaned THEN loose ELSE {}
    BY <1>3, <2>1 DEF SyncSave, File!Outcomes
  <2>5. File!Settle
    BY <1>1, <2>4 DEF File!Settle, Orphaned
  <2> QED
    BY <1>1, <2>1, <2>3, <2>4, <2>5 DEF File!Next, File!End
<1>4. CASE ~SyncApply /\ ~SyncSave
  <2>1. UNCHANGED <<cache, loose>> /\ spc # "save" /\ spc' # "save"
    BY <1>4 DEF SyncAcquire, SyncStep, SyncSession, SyncEvents, SyncHolidays,
         SyncLists, SyncTasks, SyncTasksRead, SyncRecord, SyncWake
  <2>2. Saving' = Saving
    BY <1>1, <2>1, SavingSame
  <2> QED
    BY <1>1, <2>1, <2>2 DEF File!savedVars
<1> QED
  BY <1>2, <1>3, <1>4

LEMMA FileHandler ==
  ASSUME TypeOK, LockOwner, NEW h \in Handlers, HandlerNext(h)
  PROVE  [File!Next]_(File!savedVars)
<1>1. UNCHANGED spc /\ \A g \in Handlers \ {h} : hpc'[g] = hpc[g] /\ pay'[g] = pay[g]
  BY DEF TypeOK, HandlerNext, HandlerStep, Request, Acquire, Check, Session,
         GoogleCompletes, PatchFails, Remove, Save, Cancel, CancelSave, Orphan
<1>2. hpc[h] = "save" => spc # "save" /\ \A g \in Handlers \ {h} : hpc[g] # "save"
  BY ProcessAssumption DEF LockOwner, HandlerHolding, SyncHolding
<1>3. CASE Remove(h)
  <2>1. Saving = {} /\ lock = h
    BY <1>3, OneSaves DEF Remove, LockOwner, HandlerHolding
  <2>2. spc # "save" /\ \A g \in Handlers : hpc[g] # "save"
    BY <2>1 DEF Saving
  <2>3. hpc'[h] = "save" /\ hpc[h] = "patched" /\ TakePayload(pay'[h])
    BY <1>3 DEF Remove, TypeOK
  <2>4. Saving' = {pay'[h]} /\ Orphaned' = Orphaned
    BY <1>1, <2>2, <2>3 DEF Saving, Orphaned, Orphans
  <2>5. pay'[h] \in SUBSET Tasks
    BY <1>3 DEF Remove, TypeOK, CalendarData
  <2>6. File!Begin(pay'[h])
    BY <2>1, <2>3, <2>4 DEF TakePayload, File!Begin
  <2> QED
    BY <2>5, <2>6 DEF File!Next
<1>4. CASE Save(h)
  <2>1. Saving = {pay[h]} /\ hpc[h] = "save" /\ hpc'[h] = "idle"
    BY <1>4, OneSaves DEF Save, TypeOK
  <2>2. Saving' = {} /\ Orphaned' = Orphaned
    BY <1>1, <1>2, <2>1 DEF Saving, Orphaned, Orphans
  <2>3. cache' \in File!Outcomes /\ loose' = IF Orphaned THEN loose ELSE {}
    BY <1>4, <2>1 DEF Save, File!Outcomes
  <2>4. File!Settle
    BY <2>2, <2>3 DEF File!Settle, Orphaned
  <2> QED
    BY <2>1, <2>2, <2>3, <2>4 DEF File!Next, File!End
<1>5. CASE CancelSave(h)
  <2>1. Saving = {pay[h]} /\ hpc[h] = "save" /\ hpc'[h] = "orphan"
    BY <1>5, OneSaves DEF CancelSave, TypeOK
  <2>2. Saving' = {} /\ Orphaned' = TRUE
    BY <1>1, <1>2, <2>1 DEF Saving, Orphaned, Orphans
  <2>3. UNCHANGED cache /\ loose' = loose \cup Saving
    BY <1>5, <2>1 DEF CancelSave
  <2> QED
    BY <2>1, <2>2, <2>3 DEF File!Next, File!Drop
<1>6. CASE Orphan(h)
  <2>1. cache' \in File!Reach /\ hpc[h] = "orphan" /\ hpc'[h] = "idle" /\ UNCHANGED mem
    BY <1>6 DEF Orphan, TypeOK
  <2>2. Saving' = Saving
    BY <1>1, <2>1, SavingSame
  <2>3. Orphans' = Orphans \ {h}
    BY <1>1, <2>1 DEF Orphans
  <2>4. Orphaned /\ loose' = IF Orphans = {h} /\ Saving = {} THEN {} ELSE loose
    BY <1>6 DEF Orphan, Orphans, Orphaned
  <2>5. File!Settle
    BY <2>2, <2>3, <2>4 DEF File!Settle, Orphaned, Orphans
  <2> QED
    BY <2>1, <2>2, <2>4, <2>5 DEF File!Next, File!Disturb
<1>7. CASE ~Remove(h) /\ ~Save(h) /\ ~CancelSave(h) /\ ~Orphan(h)
  <2>1. /\ UNCHANGED <<mem, cache, loose>>
        /\ hpc[h] \notin {"save", "orphan"} /\ hpc'[h] \notin {"save", "orphan"}
    BY <1>7 DEF TypeOK, HandlerHolding, HandlerNext, HandlerStep, Request, Acquire,
                Check, Session, GoogleCompletes, PatchFails, Cancel
  <2>2. Saving' = Saving
    BY <1>1, <2>1, SavingSame
  <2>3. Orphaned' = Orphaned
    BY <1>1, <2>1 DEF Orphaned, Orphans
  <2> QED
    BY <2>1, <2>2, <2>3 DEF File!savedVars
<1> QED
  BY <1>3, <1>4, <1>5, <1>6, <1>7

LEMMA FileEnv ==
  ASSUME TypeOK, LockOwner, EnvNext
  PROVE  [File!Next]_(File!savedVars)
<1>1. CASE Crash
  <2>1. Saving' = {} /\ Orphaned' = FALSE
    BY <1>1 DEF Crash, Saving, Orphaned, Orphans
  <2>2. cache' \in File!Reach \cup {{P} : P \in Saving} /\ loose' = {}
    BY <1>1 DEF Crash, Leavings
  <2>3. {{P} : P \in Saving} = {Saving} \ {{}}
    <3>1. PICK P : Saving \in {{}, {P}}
      BY OneSaves DEF Saving
    <3> QED
      BY <3>1
  <2> QED
    BY <2>1, <2>2, <2>3 DEF File!Next, File!Crash
<1>2. CASE ~Crash
  <2>1. UNCHANGED <<mem, cache, loose, spc, hpc, pay>>
    BY <1>2 DEF EnvNext, LateComplete, PhoneEdit, NetworkChange
  <2>2. Saving' = Saving /\ Orphaned' = Orphaned
    BY <2>1, SavingSame DEF Orphaned, Orphans
  <2> QED
    BY <2>1, <2>2 DEF File!savedVars
<1> QED
  BY <1>1, <1>2

(* The sync loop and the handlers save in turn, as SavedFile has it: no    *)
(* save begins while another runs, and only one that update_lock no longer *)
(* guards, because its request is gone, meets another.                     *)
THEOREM SavesInTurn == Spec => FileSpec
<1>1. TypeOK /\ LockOwner /\ [Next]_vars => [File!Next]_(File!savedVars)
  <2>1. UNCHANGED vars => UNCHANGED File!savedVars
    BY DEF vars, File!savedVars, Saving, Orphaned, Orphans
  <2> QED
    BY <2>1, FileSync, FileHandler, FileEnv DEF Next
<1> QED
  BY <1>1, FileInit, TypeCorrect, Serialised, PTL DEF Spec, FileSpec, File!Spec
=============================================================================
