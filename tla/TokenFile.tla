------------------------------ MODULE TokenFile ------------------------------
(***************************************************************************)
(* token.json: read by every Google session of the server, written back    *)
(* when a session has refreshed its access token, and replaced from the PC *)
(* by scripts/push_token.ps1.                                              *)
(*                                                                         *)
(*   rust/src/google.rs   GoogleSession, save_token_document               *)
(*   scripts/push_token.ps1                                                *)
(*                                                                         *)
(* A session reads the document once and saves it as often as it refreshes *)
(* its token.  Sessions take turns (CalendarSync shows how), but a session *)
(* dropped with its request leaves behind the file operation it was at,    *)
(* which the blocking pool still runs.  Names and files are kept apart: a  *)
(* rename or removal changes a name, a write the file that is open.        *)
(*                                                                         *)
(* Of a document only the consent matters: the number of the --auth that   *)
(* it comes from.  Google still accepts the earlier ones.                  *)
(***************************************************************************)
EXTENDS Naturals, FiniteSets

CONSTANTS Files,
          None,         \* no file, no document
          MaxOrphans, MaxPushes, MaxCrashes   \* bounds

ASSUME TokenAssumption ==
  /\ None \notin Files /\ None \notin Nat
  /\ {MaxOrphans, MaxPushes, MaxCrashes} \subseteq Nat

VARIABLES
  token, temporary,  \* the files of the two names
  content,           \* a file's document, None while it is not written
  pc,                \* where the session is that runs, "idle" without one
  document, file,    \* what it has read, and has open
  orphans,           \* file operations whose session is gone
  pushes, crashes,
  quiet,             \* history: nobody was at it at the last push
  dropped            \* history: a session was dropped at a file operation

sessionVars == <<pc, document, file>>
vars == <<token, temporary, content, sessionVars, orphans, pushes, crashes,
          quiet, dropped>>

Documents == 0..MaxPushes
Steps == {"load", "use", "refresh", "remove", "create", "write", "rename"}
Disk  == {"remove", "create", "write", "rename"}
Operations == [op : Disk, file : Files \cup {None}, document : Documents \cup {None}]

TypeOK ==
  /\ token \in Files /\ temporary \in Files \cup {None}
  /\ content \in [Files -> Documents \cup {None}]
  /\ pc \in Steps \cup {"idle"}
  /\ document \in Documents \cup {None}
  /\ file \in Files \cup {None}
  /\ orphans \in SUBSET Operations
  /\ pushes \in 0..MaxPushes /\ crashes \in 0..MaxCrashes
  /\ quiet \in BOOLEAN /\ dropped \in BOOLEAN
  /\ orphans # {} => dropped
  /\ file # None <=> pc \in {"write", "rename"}

Init ==
  /\ \E f \in Files : token = f /\ content = [g \in Files |-> IF g = f THEN 0 ELSE None]
  /\ temporary = None
  /\ pc = "idle" /\ document = None /\ file = None
  /\ orphans = {}
  /\ pushes = 0 /\ crashes = 0 /\ quiet = TRUE /\ dropped = FALSE

(* A file that no name, session or operation refers to. *)
Unused(f) == f \notin {token, temporary, file} \cup {o.file : o \in orphans}

-----------------------------------------------------------------------------
(* The file operations: of a session, or of one that is gone.              *)

NamesSame == UNCHANGED <<token, temporary>>

Remove == temporary' = None /\ UNCHANGED <<token, content>>

(* create_new: fails if the name is taken. *)
CanCreate == temporary = None

Create(f) ==
  /\ Unused(f)
  /\ temporary' = f
  /\ content' = [content EXCEPT ![f] = None]
  /\ UNCHANGED token

Write(f, d) == content' = [content EXCEPT ![f] = d] /\ NamesSame

CanRename == temporary # None

Rename == token' = temporary /\ temporary' = None /\ UNCHANGED content

FilesSame == NamesSame /\ UNCHANGED content

-----------------------------------------------------------------------------
(* The session that runs: the sync loop's, or that of a completion.        *)

OutsideSame == UNCHANGED <<orphans, pushes, crashes, quiet, dropped>>

Enter(step) == pc' = step /\ UNCHANGED <<document, file>>

(* Mutant: a session that fails leaves its file open. *)
Leave_KeepsFile == pc' = "idle" /\ UNCHANGED <<document, file>>

(* The session ends, well or not. *)
Leave == pc' = "idle" /\ file' = None /\ UNCHANGED document

Begin ==
  /\ pc = "idle"
  /\ Enter("load")
  /\ FilesSame /\ OutsideSame

(* Mutant: the document of the first session is kept. *)
Load_Once ==
  /\ pc = "load"
  /\ IF document # None \/ content[token] = None
       THEN IF document # None THEN Enter("use") ELSE Leave
       ELSE /\ document' = content[token]
            /\ pc' = "use"
            /\ UNCHANGED file
  /\ FilesSame /\ OutsideSame

(* GoogleSession::load; without a readable document: auth_required.        *)
Load ==
  /\ pc = "load"
  /\ IF content[token] = None
       THEN Leave
       ELSE /\ document' = content[token]
            /\ pc' = "use"
            /\ UNCHANGED file
  /\ FilesSame /\ OutsideSame

(* access_token: the token is good; it is about to expire or was refused;  *)
(* or the session is over.                                                 *)
AccessToken ==
  /\ pc = "use"
  /\ Enter("refresh") \/ Leave
  /\ FilesSame /\ OutsideSame

(* refresh_token: Google grants an access token, or the session fails.     *)
RefreshToken ==
  /\ pc = "refresh"
  /\ Enter("remove") \/ Leave
  /\ FilesSame /\ OutsideSame

(* save_token_document; a step that fails, for want of the name or of disk *)
(* space, ends the session.                                                *)
RemoveTemporary ==
  /\ pc = "remove"
  /\ Remove
  /\ Enter("create")
  /\ OutsideSame

(* Mutant: the rename comes before the write. *)
CreateTemporary_Unwritten ==
  /\ pc = "create" /\ CanCreate
  /\ \E f \in Files : Create(f) /\ file' = f
  /\ pc' = "rename"
  /\ UNCHANGED document
  /\ OutsideSame

CreateTemporary ==
  /\ pc = "create"
  /\ \/ /\ CanCreate
        /\ \E f \in Files : Create(f) /\ file' = f
        /\ pc' = "write"
        /\ UNCHANGED document
     \/ Leave /\ FilesSame
  /\ OutsideSame

WriteTemporary ==
  /\ pc = "write"
  /\ \/ Write(file, document) /\ Enter("rename")
     \/ Leave /\ FilesSame
  /\ OutsideSame

RenameTemporary ==
  /\ pc = "rename"
  /\ \/ CanRename /\ Rename /\ pc' = "use" /\ file' = None /\ UNCHANGED document
     \/ Leave /\ FilesSame
  /\ OutsideSame

(* The request is gone: its session is dropped, a file operation goes on.  *)
Drop ==
  /\ pc # "idle"
  /\ orphans' = IF pc \in Disk
                  THEN orphans \cup {[op |-> pc, file |-> file,
                                      document |-> document]}
                  ELSE orphans
  /\ Cardinality(orphans') <= MaxOrphans
  /\ dropped' = (dropped \/ pc \in Disk)
  /\ Leave
  /\ FilesSame
  /\ UNCHANGED <<pushes, crashes, quiet>>

Orphan(o) ==
  /\ o \in orphans
  /\ orphans' = orphans \ {o}
  /\ \/ o.op = "remove" /\ Remove
     \/ o.op = "create" /\ CanCreate /\ \E f \in Files : Create(f)
     \/ o.op = "write" /\ Write(o.file, o.document)
     \/ o.op = "rename" /\ CanRename /\ Rename
     \/ o.op = "create" /\ ~CanCreate /\ FilesSame
     \/ o.op = "rename" /\ ~CanRename /\ FilesSame
  /\ UNCHANGED <<sessionVars, pushes, crashes, quiet, dropped>>

-----------------------------------------------------------------------------
(* push_token.ps1: a file of its own is filled, then moved over the name.  *)
Push ==
  /\ pushes < MaxPushes
  /\ pushes' = pushes + 1
  /\ \E f \in Files : /\ Unused(f)
                      /\ token' = f
                      /\ content' = [content EXCEPT ![f] = pushes + 1]
  /\ quiet' = (pc = "idle" /\ orphans = {})
  /\ UNCHANGED <<temporary, sessionVars, orphans, crashes, dropped>>

(* The process ends; what it has not done to the disk is not done.         *)
Crash ==
  /\ crashes < MaxCrashes
  /\ crashes' = crashes + 1
  /\ pc' = "idle" /\ document' = None /\ file' = None
  /\ orphans' = {}
  /\ FilesSame
  /\ UNCHANGED <<pushes, quiet, dropped>>

SessionStep == Load \/ AccessToken \/ RefreshToken \/ RemoveTemporary
                 \/ CreateTemporary \/ WriteTemporary \/ RenameTemporary

Next == \/ Begin \/ SessionStep \/ Drop
        \/ \E o \in orphans : Orphan(o)
        \/ Push \/ Crash

Spec == Init /\ [][Next]_vars

-----------------------------------------------------------------------------
(* Properties *)

(* Whenever the process ends, token.json holds a whole document: the write *)
(* is over before the rename, in every order of saves, pushes and crashes, *)
(* as long as no session is dropped while it saves (save_token_document).  *)
TokenComplete == ~dropped => content[token] # None

(* A token pushed while nobody was at it is never replaced by an older     *)
(* one: later sessions read it before they save (GoogleSession::load).  It *)
(* stays in the file, unless a session dropped while it saved lets an      *)
(* empty one take its place.                                               *)
QuietPushStays ==
  quiet => content[token] = pushes \/ (dropped /\ content[token] = None)
=============================================================================
