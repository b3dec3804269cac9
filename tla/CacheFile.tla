------------------------------ MODULE CacheFile ------------------------------
(***************************************************************************)
(* The cache file of the calendar, down to names and files                 *)
(* (rust/src/calendar.rs: save_cache, load_cache).  Every save writes the  *)
(* same temporary file and renames it.  Saves take turns (CalendarSync     *)
(* shows how), but one that is dropped with its request leaves behind the  *)
(* file operation it was at, which the blocking pool runs to its end: it   *)
(* may then open, write or rename the file of a later save.                *)
(*                                                                         *)
(* A payload is the number of the change of the data that it was taken     *)
(* from, 0 the data of a start without a cache.                            *)
(***************************************************************************)
EXTENDS Naturals, FiniteSets

CONSTANTS Files,
          None,         \* no file
          Empty, Torn,  \* a file just truncated; one that cannot be parsed
          MaxSaves, MaxOrphans, MaxCrashes   \* bounds

ASSUME CacheAssumption ==
  /\ None \notin Files /\ {Empty, Torn} \cap Nat = {} /\ Empty # Torn
  /\ {MaxSaves, MaxOrphans, MaxCrashes} \subseteq Nat

VARIABLES
  path, temporary,  \* the files of the two names
  content,          \* what is in a file
  mem,              \* the data in memory
  pc, file,         \* where the save is that runs, and the file it has open
  orphans,          \* file operations whose save was dropped
  saves, crashes,
  dropped,          \* history: a save was dropped at a file operation
  undisturbed       \* history: the last save met no dropped one and no error

fileVars == <<path, temporary, content>>
saveVars == <<pc, file>>
vars == <<fileVars, mem, saveVars, orphans, saves, crashes, dropped, undisturbed>>

Payloads == 0..saves
Disk == {"open", "write", "rename"}
Operations == [op : Disk, file : Files \cup {None}, payload : Payloads]

TypeOK ==
  /\ {path, temporary} \subseteq Files \cup {None}
  /\ content \in [Files -> Payloads \cup {Empty, Torn}]
  /\ mem \in Payloads
  /\ pc \in Disk \cup {"idle"} /\ file \in Files \cup {None}
  /\ file # None <=> pc = "write"
  /\ orphans \in SUBSET Operations
  /\ saves \in 0..MaxSaves /\ crashes \in 0..MaxCrashes
  /\ dropped \in BOOLEAN /\ undisturbed \in BOOLEAN

(* Without a cache, or with one of an earlier process. *)
Init ==
  /\ path \in {None} \cup Files /\ temporary = None
  /\ content = [f \in Files |-> IF f = path THEN 0 ELSE Empty]
  /\ mem = 0
  /\ pc = "idle" /\ file = None
  /\ orphans = {}
  /\ saves = 0 /\ crashes = 0 /\ dropped = FALSE /\ undisturbed = FALSE

(* load_cache: what can be parsed, else the default. *)
Readable == path # None => content[path] \in Payloads
Loaded   == IF path # None /\ Readable THEN content[path] ELSE 0

-----------------------------------------------------------------------------
(* tokio::fs::write and tokio::fs::rename, each run by one thread of the   *)
(* blocking pool: of a save, or of one that was dropped.                   *)

Unused(f) == f \notin {path, temporary, file} \cup {o.file : o \in orphans}

(* The file of the name is truncated, whoever has it open, or created.     *)
OpenTemporary(f) ==
  /\ IF temporary = None THEN Unused(f) ELSE f = temporary
  /\ temporary' = f
  /\ content' = [content EXCEPT ![f] = Empty]
  /\ UNCHANGED path

(* Written from the beginning: over what another has written meanwhile,    *)
(* whose end stays if it was longer.                                       *)
Write(f, payload) ==
  /\ \E c \in {payload} \cup (IF content[f] = Empty THEN {} ELSE {Torn}) :
       content' = [content EXCEPT ![f] = c]
  /\ UNCHANGED <<path, temporary>>

CanRename == temporary # None

Rename == path' = temporary /\ temporary' = None /\ UNCHANGED content

-----------------------------------------------------------------------------
(* save_cache, under update_lock *)

OutsideSame == UNCHANGED <<orphans, saves, crashes, dropped>>

(* apply_success or remove_completed_task changes the data, or finds it as *)
(* it is; the payload is taken with it.                                    *)
Begin ==
  /\ pc = "idle"
  /\ \/ saves < MaxSaves /\ saves' = saves + 1 /\ mem' = saves'
     \/ UNCHANGED <<saves, mem>>
  /\ pc' = "open" /\ UNCHANGED file
  /\ undisturbed' = (orphans = {})
  /\ UNCHANGED <<fileVars, orphans, crashes, dropped>>

Open ==
  /\ pc = "open"
  /\ \E f \in Files : OpenTemporary(f) /\ file' = f
  /\ pc' = "write"
  /\ UNCHANGED <<mem, undisturbed>>
  /\ OutsideSame

WriteTemporary ==
  /\ pc = "write"
  /\ Write(file, mem)
  /\ pc' = "rename" /\ file' = None
  /\ UNCHANGED <<mem, undisturbed>>
  /\ OutsideSame

(* Mutant: the rename is taken for done when its thread is started. *)
RenameTemporary_Unawaited ==
  /\ pc = "rename" /\ CanRename
  /\ pc' = "idle" /\ UNCHANGED file
  /\ orphans' = orphans \cup {[op |-> "rename", file |-> None, payload |-> mem]}
  /\ UNCHANGED <<fileVars, mem, saves, crashes, dropped, undisturbed>>

RenameTemporary ==
  /\ pc = "rename" /\ CanRename
  /\ Rename
  /\ pc' = "idle" /\ UNCHANGED file
  /\ UNCHANGED <<mem, undisturbed>>
  /\ OutsideSame

(* Mutant: only the error of the rename ends the save. *)
SaveFails_GoesOn ==
  /\ pc # "idle"
  /\ \/ UNCHANGED fileVars
     \/ /\ pc = "write"
        /\ content' = [content EXCEPT ![file] = Torn]
        /\ UNCHANGED <<path, temporary>>
  /\ pc' = IF pc = "write" THEN "rename" ELSE "idle"
  /\ file' = None
  /\ undisturbed' = (undisturbed /\ pc = "write")
  /\ UNCHANGED mem
  /\ OutsideSame

(* An operation fails, for want of space or of the name: it is logged, and *)
(* the data counts as saved.                                               *)
SaveFails ==
  /\ pc # "idle"
  /\ \/ UNCHANGED fileVars
     \/ /\ pc = "write"
        /\ content' = [content EXCEPT ![file] = Torn]
        /\ UNCHANGED <<path, temporary>>
  /\ pc' = "idle" /\ file' = None
  /\ undisturbed' = FALSE
  /\ UNCHANGED mem
  /\ OutsideSame

(* Mutant: the dropped save keeps its file, too. *)
Drop_KeepsFile ==
  /\ pc # "idle"
  /\ orphans' = orphans \cup {[op |-> pc, file |-> file, payload |-> mem]}
  /\ Cardinality(orphans') <= MaxOrphans
  /\ dropped' = TRUE /\ undisturbed' = FALSE
  /\ pc' = "idle" /\ UNCHANGED file
  /\ UNCHANGED <<fileVars, mem, saves, crashes>>

(* The request is gone: its save is dropped, the operation goes on.        *)
Drop ==
  /\ pc # "idle"
  /\ orphans' = orphans \cup {[op |-> pc, file |-> file, payload |-> mem]}
  /\ Cardinality(orphans') <= MaxOrphans
  /\ dropped' = TRUE /\ undisturbed' = FALSE
  /\ pc' = "idle" /\ file' = None
  /\ UNCHANGED <<fileVars, mem, saves, crashes>>

Orphan(o) ==
  /\ o \in orphans
  /\ \/ /\ o.op = "open"
        /\ \E f \in Files :
             /\ OpenTemporary(f)
             /\ orphans' = (orphans \ {o}) \cup {[o EXCEPT !.op = "write", !.file = f]}
     \/ /\ o.op = "write"
        /\ Write(o.file, o.payload)
        /\ orphans' = orphans \ {o}
     \/ /\ o.op = "rename"
        /\ IF CanRename THEN Rename ELSE UNCHANGED fileVars
        /\ orphans' = orphans \ {o}
  /\ UNCHANGED <<mem, saveVars, saves, crashes, dropped, undisturbed>>

(* The process dies and is started again: CalendarState::load.  What the   *)
(* pool has not done is not done.                                          *)
Crash ==
  /\ crashes < MaxCrashes
  /\ crashes' = crashes + 1
  /\ mem' = Loaded
  /\ pc' = "idle" /\ file' = None
  /\ orphans' = {}
  /\ undisturbed' = (undisturbed /\ pc = "idle")
  /\ UNCHANGED <<fileVars, saves, dropped>>

Next == \/ Begin \/ Open \/ WriteTemporary \/ RenameTemporary \/ SaveFails
        \/ Drop \/ Crash
        \/ \E o \in orphans : Orphan(o)

Spec == Init /\ [][Next]_vars

-----------------------------------------------------------------------------
(* Properties *)

(* However saves fail and whenever the process dies, the cache file holds  *)
(* a whole payload, and none older than the one before it; until a save is *)
(* dropped (save_cache writes beside the file and renames).                *)
CacheForward ==
  [][ ~dropped' =>
        /\ Readable'
        /\ path # None => path' # None /\ content'[path'] >= content[path] ]_vars

(* A save that begins when no dropped one is left leaves the data it was   *)
(* taken from in the file, whatever earlier ones have left behind: torn or *)
(* stale, the file does not stay so.                                       *)
CacheHeals == undisturbed /\ pc = "idle" => path # None /\ content[path] = mem

(* What can be parsed in the file, as SavedFile has it.                    *)
Stored == IF path # None /\ Readable THEN {content[path]} ELSE {}

(* Dropped operations are at the files, or were when the save began.       *)
Disturbed == orphans # {} \/ (pc # "idle" /\ ~undisturbed)

(* The temporary file may be renamed as it is.                             *)
Opened == {"write", "rename"} \cap ({pc} \cup {o.op : o \in orphans}) # {}

(* What those who are at the files hold, or have written for a rename.     *)
Loose ==
  IF ~Disturbed THEN {}
    ELSE {o.payload : o \in orphans}
           \cup (IF pc = "idle" THEN {} ELSE {mem})
           \cup (IF Opened /\ temporary # None THEN {content[temporary]} \cap Payloads
                 ELSE {})

(* The promises of SavedFile.                                              *)
File == INSTANCE SavedFile WITH
          Payloads <- 0..MaxSaves, stored <- Stored,
          saving <- (IF pc = "idle" THEN {} ELSE {mem}),
          pending <- orphans # {}, loose <- Loose
FileSpec == File!Spec
=============================================================================
