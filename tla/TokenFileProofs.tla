--------------------------- MODULE TokenFileProofs ---------------------------
(***************************************************************************)
(* Proofs about TokenFile, for any files and bounds: its types, that       *)
(* token.json is whole until a session is dropped while it saves, and that *)
(* a token pushed at rest is not replaced by an older one, and till then   *)
(* not lost either.                                                        *)
(***************************************************************************)
EXTENDS TokenFile, TLAPS

USE TokenAssumption DEF TokenAssumption

(* A session has a document; as long as none was dropped, the file it has  *)
(* open is the temporary one, and whole once it is to be renamed.          *)
WholeInv ==
  /\ temporary # None => temporary # token
  /\ pc \in Disk \cup {"use", "refresh"} => document # None
  /\ ~dropped /\ pc \in {"write", "rename"} => file = temporary
  /\ ~dropped /\ pc = "rename" => content[file] = document
  /\ TokenComplete

(* The document last pushed, or none. *)
Current(f) == content[f] \in {pushes, None}

(* Somebody may rename the temporary file, and has removed an older one.   *)
Saving == {"create", "write", "rename"}
PastRemove == pc \in Saving \/ \E o \in orphans : o.op \in Saving

(* After a push at rest whatever has read a document, and whatever is on   *)
(* its way to token.json, is the one pushed.                               *)
QuietInv ==
  quiet =>
    /\ Current(token)
    /\ pc \in Disk \cup {"use", "refresh"} => document = pushes
    /\ \A o \in orphans : o.document = pushes
    /\ PastRemove /\ temporary # None => Current(temporary)

-----------------------------------------------------------------------------
(* Types *)

LEMMA InitType == Init => TypeOK
<1> SUFFICES ASSUME Init PROVE TypeOK
  OBVIOUS
<1>1. token \in Files /\ content \in [Files -> Documents \cup {None}]
  <2>1. PICK f \in Files : token = f /\ content = [g \in Files |-> IF g = f THEN 0 ELSE None]
    BY DEF Init
  <2> QED  BY <2>1 DEF Documents
<1>2. file # None <=> pc \in {"write", "rename"}
  BY DEF Init
<1>3. /\ temporary \in Files \cup {None} /\ pc \in Steps \cup {"idle"}
      /\ orphans \in SUBSET Operations /\ orphans = {}
  BY DEF Init
<1>4. pushes \in 0..MaxPushes /\ crashes \in 0..MaxCrashes
  BY DEF Init
<1>5. document \in Documents \cup {None} /\ file \in Files \cup {None}
      /\ quiet \in BOOLEAN /\ dropped \in BOOLEAN
  BY DEF Init
<1> QED  BY <1>1, <1>2, <1>3, <1>4, <1>5 DEF TypeOK

LEMMA CreateType ==
  ASSUME TypeOK, NEW f \in Files, Create(f)
  PROVE  /\ temporary' \in Files /\ token' = token
         /\ content' \in [Files -> Documents \cup {None}]
  BY DEF TypeOK, Create

LEMMA WriteType ==
  ASSUME TypeOK, NEW f, NEW d \in Documents \cup {None}, Write(f, d)
  PROVE  content' \in [Files -> Documents \cup {None}]
  BY DEF TypeOK, Write

LEMMA SessionType == TypeOK /\ (Begin \/ SessionStep) => TypeOK'
<1> SUFFICES ASSUME TypeOK, Begin \/ SessionStep PROVE TypeOK'
  OBVIOUS
<1> USE DEF OutsideSame, FilesSame, NamesSame, Enter, Leave, Steps
<1>1. CASE Begin
  BY <1>1 DEF TypeOK, Begin
<1>2. CASE Load
  <2>1. document' \in Documents \cup {None} /\ pc' \in {"idle", "use"} /\ file' = None
    BY <1>2 DEF TypeOK, Load
  <2> QED  BY <2>1, <1>2 DEF TypeOK, Load
<1>3. CASE AccessToken
  BY <1>3 DEF TypeOK, AccessToken
<1>4. CASE RefreshToken
  BY <1>4 DEF TypeOK, RefreshToken
<1>5. CASE RemoveTemporary
  BY <1>5 DEF TypeOK, RemoveTemporary, Remove
<1>6. CASE CreateTemporary
  <2>1. CASE Leave /\ FilesSame
    BY <2>1, <1>6 DEF TypeOK, CreateTemporary
  <2>2. ASSUME NEW f \in Files, Create(f), file' = f, pc' = "write", UNCHANGED document
        PROVE  TypeOK'
    BY <2>2, <1>6, CreateType DEF TypeOK, CreateTemporary
  <2> QED  BY <2>1, <2>2, <1>6 DEF CreateTemporary
<1>7. CASE WriteTemporary
  <2>1. CASE Leave /\ FilesSame
    BY <2>1, <1>7 DEF TypeOK, WriteTemporary
  <2>2. CASE Write(file, document) /\ Enter("rename")
    <3>1. content' \in [Files -> Documents \cup {None}]
      BY <2>2, WriteType DEF TypeOK
    <3> QED  BY <3>1, <2>2, <1>7 DEF TypeOK, WriteTemporary, Write
  <2> QED  BY <2>1, <2>2, <1>7 DEF WriteTemporary
<1>8. CASE RenameTemporary
  BY <1>8 DEF TypeOK, RenameTemporary, Rename, CanRename
<1> QED  BY <1>1, <1>2, <1>3, <1>4, <1>5, <1>6, <1>7, <1>8 DEF SessionStep

LEMMA OutsideType ==
  ASSUME TypeOK, Drop \/ Push \/ Crash \/ \E o \in orphans : Orphan(o)
  PROVE  TypeOK'
<1> USE DEF FilesSame, NamesSame, Leave, sessionVars, Steps
<1>1. CASE Drop
  <2>1. orphans' \in SUBSET Operations
    <3>1. CASE pc \in Disk
      <4>1. [op |-> pc, file |-> file, document |-> document] \in Operations
        BY <3>1 DEF TypeOK, Operations
      <4> QED  BY <4>1, <3>1, <1>1 DEF TypeOK, Drop
    <3> QED  BY <3>1, <1>1 DEF TypeOK, Drop
  <2>2. orphans' # {} => dropped'
    BY <1>1 DEF TypeOK, Drop
  <2>3. dropped' \in BOOLEAN
    BY <1>1 DEF Drop
  <2> QED  BY <2>1, <2>2, <2>3, <1>1 DEF TypeOK, Drop
<1>2. CASE Push
  <2>1. token' \in Files /\ content' \in [Files -> Documents \cup {None}]
    BY <1>2 DEF TypeOK, Push, Documents
  <2>2. quiet' \in BOOLEAN /\ pushes' \in 0..MaxPushes
    BY <1>2 DEF TypeOK, Push
  <2> QED  BY <2>1, <2>2, <1>2 DEF TypeOK, Push
<1>3. CASE Crash
  BY <1>3 DEF TypeOK, Crash
<1>4. ASSUME NEW o \in orphans, Orphan(o)
      PROVE  TypeOK'
  <2>1. o.document \in Documents \cup {None}
    BY DEF TypeOK, Operations
  <2>2. /\ token' \in Files /\ temporary' \in Files \cup {None}
        /\ content' \in [Files -> Documents \cup {None}]
    <3>1. CASE Write(o.file, o.document)
      BY <3>1, <2>1, WriteType DEF TypeOK, Write
    <3>2. ASSUME NEW f \in Files, Create(f)
          PROVE  /\ token' \in Files /\ temporary' \in Files \cup {None}
                 /\ content' \in [Files -> Documents \cup {None}]
      BY <3>2, CreateType DEF TypeOK
    <3>3. CASE Remove \/ (CanRename /\ Rename) \/ FilesSame
      BY <3>3 DEF TypeOK, Remove, CanRename, Rename
    <3> QED  BY <1>4, <3>1, <3>2, <3>3 DEF Orphan
  <2> QED  BY <2>2, <1>4 DEF TypeOK, Orphan
<1> QED  BY <1>1, <1>2, <1>3, <1>4

LEMMA TypeStep == TypeOK /\ [Next]_vars => TypeOK'
<1> SUFFICES ASSUME TypeOK, [Next]_vars PROVE TypeOK'
  OBVIOUS
<1>1. CASE UNCHANGED vars
  BY <1>1 DEF TypeOK, vars, sessionVars
<1> QED  BY <1>1, SessionType, OutsideType DEF Next

(* Every variable keeps its type: a session has a file open only while it  *)
(* writes or renames it, and operations without a session are those of one *)
(* that was dropped.                                                       *)
THEOREM TokenTypes == Spec => []TypeOK
  BY InitType, TypeStep, PTL DEF Spec

-----------------------------------------------------------------------------
(* token.json is whole *)

LEMMA InitWhole == Init => WholeInv
<1> SUFFICES ASSUME Init PROVE WholeInv
  OBVIOUS
<1>1. content[token] # None
  BY DEF Init
<1> QED  BY <1>1 DEF Init, WholeInv, TokenComplete, Disk

LEMMA SessionWhole == TypeOK /\ WholeInv /\ (Begin \/ SessionStep) => WholeInv'
<1> SUFFICES ASSUME TypeOK, WholeInv, Begin \/ SessionStep PROVE WholeInv'
  OBVIOUS
<1> USE DEF OutsideSame, FilesSame, NamesSame, Enter, Leave, Disk, TokenComplete
<1>1. CASE Begin
  BY <1>1 DEF WholeInv, Begin
<1>2. CASE Load
  BY <1>2 DEF WholeInv, Load
<1>3. CASE AccessToken
  BY <1>3 DEF WholeInv, AccessToken
<1>4. CASE RefreshToken
  BY <1>4 DEF WholeInv, RefreshToken
<1>5. CASE RemoveTemporary
  BY <1>5 DEF WholeInv, RemoveTemporary, Remove
<1>6. CASE CreateTemporary
  <2>1. CASE Leave /\ FilesSame
    BY <2>1, <1>6 DEF WholeInv, CreateTemporary
  <2>2. ASSUME NEW f \in Files, Create(f), file' = f, pc' = "write", UNCHANGED document
        PROVE  WholeInv'
    <3>1. f # token /\ temporary' = f /\ content'[token] = content[token] /\ token' = token
      BY <2>2 DEF Create, Unused, TypeOK
    <3> QED  BY <3>1, <2>2, <1>6 DEF WholeInv, CreateTemporary
  <2> QED  BY <2>1, <2>2, <1>6 DEF CreateTemporary
<1>7. CASE WriteTemporary
  <2>1. CASE Leave /\ FilesSame
    BY <2>1, <1>7 DEF WholeInv, WriteTemporary
  <2>2. CASE Write(file, document) /\ Enter("rename")
    <3>1. content'[file] = document /\ document # None
      BY <2>2, <1>7 DEF Write, WriteTemporary, WholeInv, TypeOK
    <3>2. content'[token] \in {content[token], document}
      BY <2>2 DEF Write, TypeOK
    <3> QED  BY <3>1, <3>2, <2>2, <1>7 DEF WholeInv, Write, WriteTemporary
  <2> QED  BY <2>1, <2>2, <1>7 DEF WriteTemporary
<1>8. CASE RenameTemporary
  BY <1>8 DEF WholeInv, RenameTemporary, Rename, CanRename
<1> QED  BY <1>1, <1>2, <1>3, <1>4, <1>5, <1>6, <1>7, <1>8 DEF SessionStep

LEMMA OutsideWhole ==
  ASSUME TypeOK, WholeInv, Drop \/ Push \/ Crash \/ \E o \in orphans : Orphan(o)
  PROVE  WholeInv'
<1> USE DEF FilesSame, NamesSame, Leave, sessionVars, TokenComplete
<1>1. CASE Drop
  BY <1>1 DEF WholeInv, Drop, Disk
<1>2. CASE Push
  <2>1. PICK f \in Files : Unused(f) /\ token' = f /\ content' = [content EXCEPT ![f] = pushes + 1]
    BY <1>2 DEF Push
  <2>2. f \notin {temporary, file} /\ content'[f] = pushes + 1 /\ pushes + 1 # None
    BY <2>1 DEF Unused, TypeOK
  <2>3. \A g \in Files \ {f} : content'[g] = content[g]
    BY <2>1 DEF TypeOK
  <2>4. pc = "rename" => file \in Files \ {f}
    BY <2>2 DEF TypeOK
  <2> QED  BY <2>1, <2>2, <2>3, <2>4, <1>2 DEF WholeInv, Push
<1>3. CASE Crash
  BY <1>3 DEF WholeInv, Crash, Disk
<1>4. ASSUME NEW o \in orphans, Orphan(o)
      PROVE  WholeInv'
  <2>1. dropped /\ dropped' /\ UNCHANGED <<pc, document>>
    BY <1>4 DEF TypeOK, Orphan
  <2>2. temporary' # None => temporary' # token'
    BY <1>4 DEF WholeInv, Orphan, Remove, Create, Unused, Write, Rename
  <2> QED  BY <2>1, <2>2 DEF WholeInv
<1> QED  BY <1>1, <1>2, <1>3, <1>4

LEMMA WholeStep == TypeOK /\ WholeInv /\ [Next]_vars => WholeInv'
<1> SUFFICES ASSUME TypeOK, WholeInv, [Next]_vars PROVE WholeInv'
  OBVIOUS
<1>1. CASE UNCHANGED vars
  BY <1>1 DEF WholeInv, TokenComplete, vars, sessionVars
<1> QED  BY <1>1, SessionWhole, OutsideWhole DEF Next

LEMMA WholeAlways == Spec => []WholeInv
  BY InitWhole, WholeStep, TokenTypes, PTL DEF Spec

(* Until a session is dropped while it saves, token.json holds a whole     *)
(* document at every moment, in every order of saves, pushes and crashes.  *)
THEOREM AlwaysComplete == Spec => []TokenComplete
<1>1. WholeInv => TokenComplete
  BY DEF WholeInv
<1> QED  BY <1>1, WholeAlways, PTL

-----------------------------------------------------------------------------
(* A token pushed at rest *)

LEMMA InitQuiet == Init => QuietInv
<1> SUFFICES ASSUME Init PROVE QuietInv
  OBVIOUS
<1>1. content[token] = 0
  BY DEF Init
<1> QED  BY <1>1 DEF Init, QuietInv, Current, PastRemove, Disk, Saving

LEMMA SessionQuiet == TypeOK /\ WholeInv /\ QuietInv /\ (Begin \/ SessionStep) => QuietInv'
<1> SUFFICES ASSUME TypeOK, WholeInv, QuietInv, Begin \/ SessionStep, quiet PROVE QuietInv'
  BY DEF QuietInv, Begin, SessionStep, Load, AccessToken, RefreshToken, RemoveTemporary,
         CreateTemporary, WriteTemporary, RenameTemporary, OutsideSame
<1> USE DEF OutsideSame, FilesSame, NamesSame, Enter, Leave, Disk, Current, PastRemove, Saving
<1>1. CASE Begin
  BY <1>1 DEF QuietInv, Begin
<1>2. CASE Load
  BY <1>2 DEF QuietInv, Load
<1>3. CASE AccessToken
  BY <1>3 DEF QuietInv, AccessToken
<1>4. CASE RefreshToken
  BY <1>4 DEF QuietInv, RefreshToken
<1>5. CASE RemoveTemporary
  BY <1>5 DEF QuietInv, RemoveTemporary, Remove
<1>6. CASE CreateTemporary
  <2>1. CASE Leave /\ FilesSame
    BY <2>1, <1>6 DEF QuietInv, CreateTemporary
  <2>2. ASSUME NEW f \in Files, Create(f), file' = f, pc' = "write", UNCHANGED document
        PROVE  QuietInv'
    <3>1. temporary' = f /\ content'[f] = None /\ Current(token)'
      BY <2>2, <1>6 DEF Create, TypeOK, QuietInv, CreateTemporary
    <3> QED  BY <3>1, <2>2, <1>6 DEF QuietInv, CreateTemporary
  <2> QED  BY <2>1, <2>2, <1>6 DEF CreateTemporary
<1>7. CASE WriteTemporary
  <2>1. CASE Leave /\ FilesSame
    BY <2>1, <1>7 DEF QuietInv, WriteTemporary
  <2>2. CASE Write(file, document) /\ Enter("rename")
    <3>1. document = pushes /\ \A g \in Files : content'[g] \in {content[g], pushes}
      BY <2>2, <1>7 DEF Write, WriteTemporary, QuietInv, TypeOK
    <3> QED  BY <3>1, <2>2, <1>7 DEF QuietInv, Write, WriteTemporary, TypeOK
  <2> QED  BY <2>1, <2>2, <1>7 DEF WriteTemporary
<1>8. CASE RenameTemporary
  BY <1>8 DEF QuietInv, RenameTemporary, Rename, CanRename
<1> QED  BY <1>1, <1>2, <1>3, <1>4, <1>5, <1>6, <1>7, <1>8 DEF SessionStep

LEMMA OrphanQuiet ==
  ASSUME TypeOK, QuietInv, quiet, NEW o \in orphans, Orphan(o)
  PROVE  QuietInv'
<1>1. /\ UNCHANGED <<pc, document, pushes>> /\ orphans' \subseteq orphans
      /\ o.document = pushes
  BY DEF Orphan, QuietInv, sessionVars
<1>2. PastRemove' => PastRemove
  BY <1>1 DEF PastRemove
<1> SUFFICES Current(token)' /\ (PastRemove' /\ temporary' # None => Current(temporary)')
  BY <1>1 DEF QuietInv
<1> USE <1>1, <1>2 DEF QuietInv, Current, FilesSame, NamesSame
<1>3. CASE o.op = "remove" /\ Remove
  BY <1>3 DEF Remove
<1>4. ASSUME NEW f \in Files, Create(f)
      PROVE  Current(token)' /\ (PastRemove' /\ temporary' # None => Current(temporary)')
  BY <1>4 DEF Create, TypeOK
<1>5. CASE o.op = "write" /\ Write(o.file, o.document)
  <2>1. \A g \in Files : content'[g] \in {content[g], pushes}
    BY <1>5 DEF Write, TypeOK
  <2> QED  BY <2>1, <1>5 DEF Write, TypeOK
<1>6. CASE o.op = "rename" /\ CanRename /\ Rename
  BY <1>6 DEF CanRename, Rename, PastRemove, Saving
<1>7. CASE FilesSame
  BY <1>7
<1> QED  BY <1>3, <1>4, <1>5, <1>6, <1>7 DEF Orphan

LEMMA OutsideQuiet ==
  ASSUME TypeOK, QuietInv, Drop \/ Push \/ Crash \/ \E o \in orphans : Orphan(o)
  PROVE  QuietInv'
<1> USE DEF FilesSame, NamesSame, Leave, Current, PastRemove, Disk, Saving
<1>1. CASE Drop
  BY <1>1 DEF QuietInv, Drop
<1>2. CASE Push
  <2> SUFFICES ASSUME quiet' PROVE QuietInv'
    BY DEF QuietInv
  <2>1. pc' = "idle" /\ orphans' = {} /\ pushes' = pushes + 1
    BY <1>2 DEF Push, sessionVars
  <2>2. content'[token'] = pushes'
    BY <1>2, <2>1 DEF Push, TypeOK
  <2> QED  BY <2>1, <2>2 DEF QuietInv
<1>3. CASE Crash
  BY <1>3 DEF QuietInv, Crash
<1>4. CASE \E o \in orphans : Orphan(o)
  <2>1. UNCHANGED quiet
    BY <1>4 DEF Orphan
  <2> QED  BY <2>1, <1>4, OrphanQuiet DEF QuietInv
<1> QED  BY <1>1, <1>2, <1>3, <1>4

LEMMA QuietStep == TypeOK /\ WholeInv /\ QuietInv /\ [Next]_vars => QuietInv'
<1> SUFFICES ASSUME TypeOK, WholeInv, QuietInv, [Next]_vars PROVE QuietInv'
  OBVIOUS
<1>1. CASE UNCHANGED vars
  BY <1>1 DEF QuietInv, Current, PastRemove, vars, sessionVars
<1> QED  BY <1>1, SessionQuiet, OutsideQuiet DEF Next

(* A token pushed while nobody was at it is never replaced by an older     *)
(* one, whatever sessions are dropped and whenever the process dies after  *)
(* that, and the file holds it until a session is dropped while it saves.  *)
THEOREM PushStays == Spec => []QuietPushStays
<1>1. WholeInv /\ QuietInv => QuietPushStays
  BY DEF WholeInv, TokenComplete, QuietInv, QuietPushStays, Current
<1> QED  BY <1>1, InitQuiet, QuietStep, TokenTypes, WholeAlways, PTL DEF Spec
=============================================================================
