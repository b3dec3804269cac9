--------------------------- MODULE CacheFileProofs ---------------------------
(***************************************************************************)
(* Proofs about CacheFile, for any files and bounds: its types, that the   *)
(* cache goes forward until a save is dropped, and that a save which meets *)
(* no dropped one mends it.                                                *)
(***************************************************************************)
EXTENDS CacheFile, TLAPS

USE CacheAssumption DEF CacheAssumption

(* Nobody but the save that runs is at the files: no save was dropped, or  *)
(* none is left since this one began.                                      *)
Calm == undisturbed \/ ~dropped

(* The steps of a calm save: its file is empty when it is written, whole   *)
(* when it is renamed, and the cache file is another one.                  *)
CalmInv ==
  /\ temporary # None => temporary # path
  /\ Calm => orphans = {}
  /\ Calm /\ pc = "write" => file = temporary /\ content[file] = Empty
  /\ Calm /\ pc = "rename" => temporary # None /\ content[temporary] = mem
  /\ CacheHeals
  /\ ~dropped /\ path # None => content[path] \in Payloads /\ content[path] <= mem

-----------------------------------------------------------------------------
(* Types *)

LEMMA OpenType ==
  ASSUME TypeOK, NEW f \in Files, OpenTemporary(f)
  PROVE  /\ {path, temporary}' \subseteq Files \cup {None}
         /\ content' \in [Files -> Payloads \cup {Empty, Torn}]
  BY DEF TypeOK, OpenTemporary

LEMMA WriteType ==
  ASSUME TypeOK, NEW f \in Files, NEW payload \in Payloads, Write(f, payload)
  PROVE  /\ {path, temporary}' \subseteq Files \cup {None}
         /\ content' \in [Files -> Payloads \cup {Empty, Torn}]
<1>1. PICK c \in {payload, Torn} : content' = [content EXCEPT ![f] = c]
  BY DEF Write
<1> QED  BY <1>1 DEF TypeOK, Write

LEMMA InitType == Init => TypeOK
<1> SUFFICES ASSUME Init PROVE TypeOK
  OBVIOUS
<1>1. content \in [Files -> Payloads \cup {Empty, Torn}] /\ mem \in Payloads
  BY DEF Init, Payloads
<1>2. /\ {path, temporary} \subseteq Files \cup {None}
      /\ pc \in Disk \cup {"idle"} /\ file \in Files \cup {None}
      /\ file # None <=> pc = "write"
  BY DEF Init, Disk
<1>3. orphans \in SUBSET Operations /\ saves \in 0..MaxSaves /\ crashes \in 0..MaxCrashes
  BY DEF Init
<1> QED  BY <1>1, <1>2, <1>3 DEF Init, TypeOK

LEMMA SaveType ==
  ASSUME TypeOK, Begin \/ Open \/ WriteTemporary \/ RenameTemporary \/ SaveFails
  PROVE  TypeOK'
<1> USE DEF OutsideSame, fileVars, Operations, Disk
<1>1. CASE Begin
  <2>1. saves' \in 0..MaxSaves /\ Payloads \subseteq Payloads' /\ mem' \in Payloads'
    BY <1>1 DEF TypeOK, Begin, Payloads
  <2>2. content' \in [Files -> Payloads' \cup {Empty, Torn}] /\ orphans' \in SUBSET Operations'
    BY <2>1, <1>1 DEF TypeOK, Begin
  <2> QED  BY <2>1, <2>2, <1>1 DEF TypeOK, Begin
<1> SUFFICES ASSUME ~Begin PROVE TypeOK'
  BY <1>1
<1>0. Payloads' = Payloads
  BY DEF Open, WriteTemporary, RenameTemporary, SaveFails, Payloads
<1>2. CASE Open
  <2>1. PICK f \in Files : OpenTemporary(f) /\ file' = f
    BY <1>2 DEF Open
  <2> QED  BY <2>1, <1>0, <1>2, OpenType DEF TypeOK, Open
<1>3. CASE WriteTemporary
  <2>1. file \in Files /\ mem \in Payloads /\ Write(file, mem)
    BY <1>3 DEF TypeOK, WriteTemporary
  <2> QED  BY <2>1, <1>0, <1>3, WriteType DEF TypeOK, WriteTemporary
<1>4. CASE RenameTemporary
  BY <1>0, <1>4 DEF TypeOK, RenameTemporary, Rename
<1>5. CASE SaveFails
  <2>1. content' \in [Files -> Payloads \cup {Empty, Torn}]
    BY <1>5 DEF TypeOK, SaveFails
  <2> QED  BY <2>1, <1>0, <1>5 DEF TypeOK, SaveFails
<1> QED  BY <1>2, <1>3, <1>4, <1>5

LEMMA OutsideType ==
  ASSUME TypeOK, Drop \/ Crash \/ \E o \in orphans : Orphan(o)
  PROVE  TypeOK'
<1> USE DEF fileVars, saveVars, Operations, Disk
<1>0. Payloads' = Payloads
  BY DEF Drop, Crash, Orphan, Payloads
<1>1. CASE Drop
  <2>1. [op |-> pc, file |-> file, payload |-> mem] \in Operations
    BY <1>1 DEF TypeOK, Drop
  <2> QED  BY <2>1, <1>0, <1>1 DEF TypeOK, Drop
<1>2. CASE Crash
  <2>1. Loaded \in Payloads
    BY DEF TypeOK, Loaded, Readable, Payloads
  <2> QED  BY <2>1, <1>0, <1>2 DEF TypeOK, Crash
<1>3. CASE \E o \in orphans : Orphan(o)
  <2>1. PICK o \in orphans : Orphan(o)
    BY <1>3
  <2>2. o \in Operations
    BY DEF TypeOK
  <2>3. CASE o.op = "open"
    <3>1. PICK f \in Files :
            /\ OpenTemporary(f)
            /\ orphans' = (orphans \ {o}) \cup {[o EXCEPT !.op = "write", !.file = f]}
      BY <2>1, <2>3 DEF Orphan
    <3>2. [o EXCEPT !.op = "write", !.file = f] \in Operations
      BY <2>2
    <3> QED  BY <3>1, <3>2, <2>1, <1>0, OpenType DEF TypeOK, Orphan
  <2>4. CASE o.op = "write"
    <3>1. Write(o.file, o.payload) /\ orphans' = orphans \ {o}
      BY <2>1, <2>4 DEF Orphan
    <3>2. {path, temporary}' \subseteq Files \cup {None}
      BY <3>1 DEF TypeOK, Write
    <3>3. content' \in [Files -> Payloads \cup {Empty, Torn}]
      BY <3>1, <2>2 DEF TypeOK, Write
    <3> QED  BY <3>1, <3>2, <3>3, <2>1, <1>0 DEF TypeOK, Orphan
  <2>5. CASE o.op = "rename"
    <3>1. orphans' = orphans \ {o} /\ {path, temporary}' \subseteq Files \cup {None}
      BY <2>1, <2>5 DEF TypeOK, Orphan, Rename
    <3> QED  BY <3>1, <2>1, <2>5, <1>0 DEF TypeOK, Orphan, Rename
  <2> QED  BY <2>2, <2>3, <2>4, <2>5
<1> QED  BY <1>1, <1>2, <1>3

LEMMA TypeStep == TypeOK /\ [Next]_vars => TypeOK'
<1> SUFFICES ASSUME TypeOK, [Next]_vars PROVE TypeOK'
  OBVIOUS
<1>1. CASE UNCHANGED vars
  <2>1. Payloads' = Payloads /\ Operations' = Operations
    BY <1>1 DEF vars, Payloads, Operations
  <2>2. UNCHANGED <<path, temporary, content, mem, pc, file, orphans, saves, crashes,
                    dropped, undisturbed>>
    BY <1>1 DEF vars, fileVars, saveVars
  <2>3. content' \in [Files -> Payloads' \cup {Empty, Torn}] /\ orphans' \in SUBSET Operations'
    BY <2>1, <2>2 DEF TypeOK
  <2> QED  BY <2>1, <2>2, <2>3 DEF TypeOK
<1> QED  BY <1>1, SaveType, OutsideType DEF Next

(* Every variable keeps its type: no file and no dropped operation has a   *)
(* payload that was never taken, and a save has a file open only while it  *)
(* writes it.                                                              *)
THEOREM CacheTypes == Spec => []TypeOK
  BY InitType, TypeStep, PTL DEF Spec

-----------------------------------------------------------------------------
(* Calm saves *)

LEMMA InitCalm == Init => CalmInv
  BY DEF Init, CalmInv, CacheHeals, Payloads

LEMMA BeginCalm == TypeOK /\ CalmInv /\ Begin => CalmInv'
<1> SUFFICES ASSUME TypeOK, CalmInv, Begin PROVE CalmInv'
  OBVIOUS
<1>1. UNCHANGED <<path, temporary, content, file, orphans, dropped>> /\ pc' = "open"
  BY DEF Begin, fileVars
<1>2. Calm' => orphans' = {}
  <2>1. CASE dropped
    BY <1>1, <2>1 DEF Begin, Calm
  <2>2. CASE ~dropped
    BY <1>1, <2>2 DEF Calm, CalmInv
  <2> QED  BY <2>1, <2>2
<1>3. ~dropped /\ path # None => content[path] \in Payloads' /\ content[path] <= mem'
  BY DEF TypeOK, CalmInv, Begin, Payloads
<1> QED  BY <1>1, <1>2, <1>3 DEF CalmInv, CacheHeals

LEMMA OpenCalm == TypeOK /\ CalmInv /\ Open => CalmInv'
<1> SUFFICES ASSUME TypeOK, CalmInv, Open PROVE CalmInv'
  OBVIOUS
<1>1. PICK f \in Files : OpenTemporary(f) /\ file' = f
  BY DEF Open
<1>2. f # path /\ content' = [content EXCEPT ![f] = Empty] /\ temporary' = f
  BY <1>1 DEF TypeOK, CalmInv, OpenTemporary, Unused
<1>3. UNCHANGED <<path, mem, orphans, saves, dropped, undisturbed>> /\ pc' = "write"
  BY <1>1 DEF Open, OpenTemporary, OutsideSame
<1>4. path # None => content'[path] = content[path]
  BY <1>2 DEF TypeOK
<1> QED  BY <1>1, <1>2, <1>3, <1>4 DEF TypeOK, CalmInv, CacheHeals, Calm, Payloads

LEMMA WriteCalm == TypeOK /\ CalmInv /\ WriteTemporary => CalmInv'
<1> SUFFICES ASSUME TypeOK, CalmInv, WriteTemporary PROVE CalmInv'
  OBVIOUS
<1>1. UNCHANGED <<path, temporary, mem, orphans, saves, dropped, undisturbed>> /\ pc' = "rename"
  BY DEF WriteTemporary, Write, OutsideSame
<1>2. file \in Files
  BY DEF TypeOK, WriteTemporary
<1>3. CASE Calm
  <2>1. file = temporary /\ content[file] = Empty /\ path # file
    BY <1>2, <1>3 DEF CalmInv, WriteTemporary
  <2>2. content' = [content EXCEPT ![file] = mem]
    BY <2>1 DEF WriteTemporary, Write
  <2>3. temporary # None /\ content'[temporary] = mem
    BY <2>1, <2>2, <1>2 DEF TypeOK
  <2>4. path # None => content'[path] = content[path]
    BY <2>1, <2>2 DEF TypeOK
  <2> QED  BY <1>1, <2>3, <2>4 DEF CalmInv, CacheHeals, Calm, Payloads
<1>4. CASE ~Calm
  BY <1>1, <1>4 DEF CalmInv, CacheHeals, Calm
<1> QED  BY <1>3, <1>4

LEMMA RenameCalm == TypeOK /\ CalmInv /\ RenameTemporary => CalmInv'
<1> SUFFICES ASSUME TypeOK, CalmInv, RenameTemporary PROVE CalmInv'
  OBVIOUS
<1>1. /\ path' = temporary /\ temporary' = None /\ temporary # None /\ pc' = "idle"
      /\ UNCHANGED <<content, mem, orphans, saves, dropped, undisturbed>>
  BY DEF RenameTemporary, Rename, CanRename, OutsideSame
<1>2. Calm => content[temporary] = mem
  BY DEF CalmInv, RenameTemporary
<1>3. mem \in Payloads /\ mem <= mem
  BY DEF TypeOK, Payloads
<1> QED  BY <1>1, <1>2, <1>3 DEF CalmInv, CacheHeals, Calm, Payloads

LEMMA FailsCalm == TypeOK /\ CalmInv /\ SaveFails => CalmInv'
<1> SUFFICES ASSUME TypeOK, CalmInv, SaveFails PROVE CalmInv'
  OBVIOUS
<1>1. /\ UNCHANGED <<path, temporary, mem, orphans, saves, dropped>>
      /\ pc' = "idle" /\ undisturbed' = FALSE
  BY DEF SaveFails, OutsideSame, fileVars
<1>2. ~dropped /\ path # None => content'[path] = content[path]
  <2>1. CASE UNCHANGED content  BY <2>1
  <2>2. CASE pc = "write" /\ content' = [content EXCEPT ![file] = Torn]
    BY <2>2 DEF TypeOK, CalmInv, Calm
  <2> QED  BY <2>1, <2>2 DEF SaveFails, fileVars
<1> QED  BY <1>1, <1>2 DEF CalmInv, CacheHeals, Calm, Payloads

LEMMA OutsideCalm ==
  ASSUME TypeOK, CalmInv, Drop \/ Crash \/ \E o \in orphans : Orphan(o)
  PROVE  CalmInv'
<1>1. CASE Drop
  BY <1>1 DEF Drop, CalmInv, CacheHeals, Calm, fileVars
<1>2. CASE Crash
  <2>1. ~dropped /\ path # None => Loaded = content[path] /\ Loaded \in Payloads /\ Loaded <= Loaded
    BY DEF TypeOK, CalmInv, Loaded, Readable, Payloads
  <2>2. undisturbed /\ pc = "idle" => path # None /\ Loaded = content[path]
    BY DEF TypeOK, CalmInv, CacheHeals, Loaded, Readable
  <2>3. /\ UNCHANGED <<path, temporary, content, saves, dropped>>
        /\ pc' = "idle" /\ orphans' = {} /\ mem' = Loaded
        /\ undisturbed' => undisturbed /\ pc = "idle"
    BY <1>2 DEF Crash, fileVars, TypeOK
  <2> QED  BY <2>1, <2>2, <2>3 DEF CalmInv, CacheHeals, Payloads
<1>3. CASE \E o \in orphans : Orphan(o)
  <2>1. PICK o \in orphans : Orphan(o)
    BY <1>3
  <2>2. UNCHANGED <<mem, pc, dropped, undisturbed>> /\ ~Calm /\ ~Calm'
    BY <2>1 DEF Orphan, CalmInv, Calm, saveVars
  <2>3. temporary' # None => temporary' # path'
    BY <2>1 DEF Orphan, OpenTemporary, Write, Rename, Unused, CalmInv, TypeOK, fileVars
  <2> QED  BY <2>2, <2>3 DEF CalmInv, CacheHeals, Calm
<1> QED  BY <1>1, <1>2, <1>3

LEMMA CalmStep == TypeOK /\ CalmInv /\ [Next]_vars => CalmInv'
<1> SUFFICES ASSUME TypeOK, CalmInv, [Next]_vars PROVE CalmInv'
  OBVIOUS
<1>1. CASE UNCHANGED vars
  BY <1>1 DEF CalmInv, CacheHeals, Calm, Payloads, vars, fileVars, saveVars
<1> QED
  BY <1>1, BeginCalm, OpenCalm, WriteCalm, RenameCalm, FailsCalm, OutsideCalm DEF Next

LEMMA CalmAlways == Spec => []CalmInv
  BY InitCalm, CalmStep, CacheTypes, PTL DEF Spec

(* A save that meets no dropped one leaves its data in the cache file,     *)
(* whatever was torn or left lying about before.                           *)
THEOREM Heals == Spec => []CacheHeals
<1>1. CalmInv => CacheHeals
  BY DEF CalmInv
<1> QED  BY <1>1, CalmAlways, PTL

(* Until a save is dropped the cache file is whole at every moment, and    *)
(* its payload is never followed by an older one.                          *)
THEOREM GoesForward == Spec => CacheForward
<1> DEFINE Forward ==
      ~dropped' =>
        /\ Readable'
        /\ path # None => path' # None /\ content'[path'] >= content[path]
<1>1. ASSUME TypeOK, CalmInv, TypeOK', CalmInv', [Next]_vars
      PROVE  Forward
  <2> SUFFICES ASSUME ~dropped' PROVE Forward
    OBVIOUS
  <2>1. ~dropped /\ orphans = {}
    <3>1. dropped' = dropped \/ dropped'
      BY <1>1 DEF Next, Begin, Open, WriteTemporary, RenameTemporary, SaveFails, Drop,
                  Orphan, Crash, OutsideSame, vars
    <3>2. ~dropped
      BY <3>1, <1>1 DEF TypeOK
    <3> QED  BY <3>2, <1>1 DEF CalmInv, Calm
  <2>2. Readable'
    BY <1>1 DEF CalmInv, Readable
  <2>3. ASSUME path # None
        PROVE  path' # None /\ content'[path'] >= content[path]
    <3>1. content[path] \in Payloads /\ content[path] <= mem /\ mem \in Payloads
      BY <1>1, <2>1, <2>3 DEF CalmInv, TypeOK
    <3>2. CASE RenameTemporary
      <4>1. path' # None /\ content'[path'] = mem
        BY <1>1, <2>1, <3>2 DEF RenameTemporary, Rename, CalmInv, Calm
      <4> QED  BY <4>1, <3>1 DEF Payloads
    <3>3. CASE ~RenameTemporary
      <4>1. path' = path
        BY <1>1, <2>1, <3>3 DEF Next, Begin, Open, OpenTemporary, WriteTemporary, Write,
                    SaveFails, Drop, Crash, vars, fileVars
      <4>2. content'[path] = content[path]
        <5>1. CASE Open
          BY <1>1, <2>3, <5>1 DEF Open, OpenTemporary, Unused, CalmInv, TypeOK
        <5>2. CASE WriteTemporary
          BY <1>1, <2>1, <2>3, <5>2 DEF WriteTemporary, Write, CalmInv, Calm, TypeOK
        <5>3. CASE SaveFails
          BY <1>1, <2>1, <2>3, <5>3 DEF SaveFails, CalmInv, Calm, TypeOK, fileVars
        <5>4. CASE UNCHANGED content
          BY <5>4
        <5> QED
          BY <1>1, <2>1, <3>3, <5>1, <5>2, <5>3, <5>4
             DEF Next, Begin, Drop, Crash, vars, fileVars
      <4> QED  BY <4>1, <4>2, <2>3, <3>1 DEF Payloads
    <3> QED  BY <3>2, <3>3
  <2> QED  BY <2>2, <2>3
<1>2. TypeOK /\ CalmInv /\ TypeOK' /\ CalmInv' /\ [Next]_vars => [Forward]_vars
  BY <1>1
<1> QED
  BY <1>2, CacheTypes, CalmAlways, PTL DEF Spec, CacheForward

-----------------------------------------------------------------------------
(* The promises of SavedFile.  A save is disturbed only while dropped ones *)
(* are at the files, or were when it began; CalmInv says that another save *)
(* writes a file of its own, and renames what it has written.              *)

(* What is loose: held by those at the files, or under the temporary name. *)
Held  == {o.payload : o \in orphans} \cup (IF pc = "idle" THEN {} ELSE {mem})
Named == IF Opened /\ temporary # None THEN {content[temporary]} \cap Payloads ELSE {}

LEMMA LooseIs == Loose = IF Disturbed THEN Held \cup Named ELSE {}
  BY DEF Loose, Held, Named

LEMMA StoredSame ==
  ASSUME TypeOK, TypeOK', path' = path, path # None => content'[path] = content[path]
  PROVE  Stored' = Stored
<1>1. CASE path = None
  BY <1>1 DEF Stored
<1>2. CASE path # None
  <2>1. /\ content[path] \in Payloads \cup {Empty, Torn}
        /\ content[path] \in Payloads' \cup {Empty, Torn}
    BY <1>2 DEF TypeOK
  <2>2. content[path] \in Payloads <=> content[path] \in Payloads'
    BY <2>1 DEF Payloads, TypeOK
  <2> QED  BY <1>2, <2>2 DEF Stored, Readable
<1> QED  BY <1>1, <1>2

(* The file of the name has one of these contents after its bytes changed. *)
LEMMA StoredIs ==
  ASSUME NEW p, path' # None => content'[path'] \in {p, Torn} \/ content'[path'] = Empty,
         UNCHANGED saves
  PROVE  Stored' \in {{}, {p}}
<1>1. Payloads' = Payloads
  BY DEF Payloads
<1>2. Torn \notin Payloads /\ Empty \notin Payloads
  BY DEF Payloads
<1> QED  BY <1>1, <1>2 DEF Stored, Readable

(* While saves are disturbed the file may lose its content, or get any     *)
(* payload that is loose.                                                  *)
LEMMA Reaches ==
  ASSUME Disturbed
  PROVE  {} \in File!Reach /\ \A p \in Held \cup Named : {p} \in File!Reach
<1>1. Held # {}
  BY DEF Disturbed, Held
<1> QED  BY <1>1, LooseIs DEF File!Reach

LEMMA Settles ==
  ASSUME Disturbed' => /\ Disturbed /\ Held' \subseteq Held
                       /\ Named' \subseteq Held \cup Named
  PROVE  File!Settle
<1>1. Loose' = IF Disturbed' THEN Held' \cup Named' ELSE {}
  BY DEF Loose, Held, Named
<1>2. orphans' # {} \/ pc' # "idle" \/ ~Disturbed'
  BY DEF Disturbed
<1> QED  BY <1>1, <1>2, LooseIs DEF File!Settle

LEMMA SavedInit == Init => File!Init
<1> SUFFICES ASSUME Init PROVE File!Init
  OBVIOUS
<1>1. Stored \in File!Contents
  BY DEF Init, Stored, File!Contents
<1>2. orphans = {} /\ pc = "idle" /\ Loose = {}
  BY DEF Init, Loose, Disturbed
<1> QED  BY <1>1, <1>2 DEF File!Init

LEMMA SavedBegin == TypeOK /\ TypeOK' /\ Begin => \E p \in 0..MaxSaves : File!Begin(p)
<1> SUFFICES ASSUME TypeOK, TypeOK', Begin PROVE File!Begin(mem') /\ mem' \in 0..MaxSaves
  OBVIOUS
<1>1. UNCHANGED <<path, temporary, content, orphans>> /\ pc = "idle" /\ pc' = "open"
  BY DEF Begin, fileVars
<1>2. Stored' = Stored
  BY <1>1, StoredSame
<1>3. mem' \in 0..MaxSaves
  BY DEF TypeOK, Payloads
<1>4. CASE orphans = {}
  <2>1. ~Disturbed'
    BY <1>1, <1>4 DEF Begin, Disturbed
  <2>2. Loose' = {}
    BY <2>1 DEF Loose
  <2> QED  BY <1>1, <1>2, <1>3, <1>4, <2>2 DEF File!Begin
<1>5. CASE orphans # {}
  <2>1. Held' = Held \cup {mem'}
    BY <1>1 DEF Held
  <2>2. Named' = Named
    <3>1. Opened' = Opened
      BY <1>1 DEF Opened
    <3>2. CASE temporary = None
      BY <1>1, <3>2 DEF Named
    <3>3. CASE temporary # None
      <4>1. /\ content[temporary] \in Payloads \cup {Empty, Torn}
            /\ content[temporary] \in Payloads' \cup {Empty, Torn}
        BY <1>1, <3>3 DEF TypeOK
      <4>2. content[temporary] \in Payloads <=> content[temporary] \in Payloads'
        BY <4>1 DEF Payloads, TypeOK
      <4> QED  BY <1>1, <3>1, <4>2 DEF Named
    <3> QED  BY <3>2, <3>3
  <2>3. Disturbed /\ Disturbed'
    BY <1>1, <1>5 DEF Disturbed
  <2>4. Loose' = Loose \cup {mem'}
    BY <2>1, <2>2, <2>3 DEF Loose, Held, Named
  <2> QED  BY <1>1, <1>2, <1>3, <1>5, <2>4 DEF File!Begin
<1> QED  BY <1>4, <1>5

LEMMA SavedOpen == TypeOK /\ TypeOK' /\ CalmInv /\ Open => File!Disturb
<1> SUFFICES ASSUME TypeOK, TypeOK', CalmInv, Open PROVE File!Disturb
  OBVIOUS
<1>1. PICK f \in Files : OpenTemporary(f) /\ file' = f
  BY DEF Open
<1>2. f # path /\ content' = [content EXCEPT ![f] = Empty] /\ temporary' = f
  BY <1>1 DEF TypeOK, CalmInv, OpenTemporary, Unused
<1>3. /\ UNCHANGED <<path, mem, orphans, saves, undisturbed>>
      /\ pc = "open" /\ pc' = "write"
  BY <1>1 DEF Open, OpenTemporary, OutsideSame
<1>4. Stored' = Stored
  BY <1>2, <1>3, StoredSame DEF TypeOK
<1>5. Named' = {} /\ Held' = Held /\ Disturbed' = Disturbed
  <2>1. content'[temporary'] = Empty /\ Empty \notin Payloads'
    BY <1>2 DEF TypeOK, Payloads
  <2> QED  BY <1>3, <2>1 DEF Named, Held, Disturbed
<1> QED  BY <1>3, <1>4, <1>5, Settles DEF File!Disturb, File!Reach

(* A file that is torn or written may be the cache file only in a          *)
(* disturbed save.                                                         *)
LEMMA OwnFile ==
  ASSUME TypeOK, CalmInv, pc = "write", file = path
  PROVE  Disturbed
  BY DEF TypeOK, CalmInv, Calm, Disturbed

LEMMA SavedWrite == TypeOK /\ TypeOK' /\ CalmInv /\ WriteTemporary => File!Disturb
<1> SUFFICES ASSUME TypeOK, TypeOK', CalmInv, WriteTemporary PROVE File!Disturb
  OBVIOUS
<1>1. PICK c \in {mem, Torn} : content' = [content EXCEPT ![file] = c]
  BY DEF WriteTemporary, Write
<1>2. /\ UNCHANGED <<path, temporary, mem, orphans, saves, undisturbed>>
      /\ pc = "write" /\ pc' = "rename" /\ file \in Files
  BY DEF WriteTemporary, Write, OutsideSame, TypeOK
<1>3. Stored' \in File!Reach
  <2>1. CASE file = path
    <3>1. content'[path'] \in {mem, Torn}
      BY <1>1, <1>2, <2>1 DEF TypeOK
    <3>2. Stored' \in {{}, {mem}}
      BY <3>1, <1>2, StoredIs
    <3>3. mem \in Held
      BY <1>2 DEF Held
    <3> QED  BY <3>2, <3>3, <1>2, <2>1, OwnFile, Reaches
  <2>2. CASE file # path
    BY <1>1, <1>2, <2>2, StoredSame DEF TypeOK, File!Reach
  <2> QED  BY <2>1, <2>2
<1>4. Held' = Held /\ Disturbed' = Disturbed /\ mem \in Held
  BY <1>2 DEF Held, Disturbed
<1>5. Named' \subseteq Held \cup Named
  <2>1. Opened /\ Payloads' = Payloads /\ Torn \notin Payloads
    BY <1>2 DEF Opened, Payloads
  <2>2. temporary # None => content'[temporary] \in {content[temporary], mem, Torn}
    BY <1>1 DEF TypeOK
  <2> QED  BY <1>2, <1>4, <2>1, <2>2 DEF Named
<1> QED  BY <1>2, <1>3, <1>4, <1>5, Settles DEF File!Disturb

LEMMA SavedRename == TypeOK /\ TypeOK' /\ CalmInv /\ RenameTemporary => File!End
<1> SUFFICES ASSUME TypeOK, TypeOK', CalmInv, RenameTemporary PROVE File!End
  OBVIOUS
<1>1. /\ path' = temporary /\ temporary' = None /\ temporary # None
      /\ pc = "rename" /\ pc' = "idle"
      /\ UNCHANGED <<content, mem, orphans, saves, undisturbed>>
  BY DEF RenameTemporary, Rename, CanRename, OutsideSame
<1>2. Payloads' = Payloads
  BY <1>1 DEF Payloads
<1>3. Stored' \in File!Outcomes
  <2>1. CASE Calm
    <3>1. content[temporary] = mem /\ mem \in Payloads
      BY <1>1, <2>1 DEF CalmInv, TypeOK
    <3> QED  BY <1>1, <1>2, <3>1 DEF Stored, Readable, File!Outcomes
  <2>2. CASE ~Calm
    <3>1. Disturbed /\ Opened
      BY <1>1, <2>2 DEF Calm, Disturbed, Opened
    <3>2. Stored' = {content[temporary]} \cap Payloads
      BY <1>1, <1>2 DEF Stored, Readable
    <3>3. Stored' = {} \/ \E p \in Named : Stored' = {p}
      BY <1>1, <3>1, <3>2 DEF Named
    <3> QED  BY <3>1, <3>3, Reaches DEF File!Outcomes
  <2> QED  BY <2>1, <2>2
<1>4. Disturbed' => Disturbed /\ Held' \subseteq Held /\ Named' = {}
  BY <1>1 DEF Disturbed, Held, Named
<1> QED  BY <1>1, <1>3, <1>4, Settles DEF File!End

LEMMA SavedFails == TypeOK /\ TypeOK' /\ CalmInv /\ SaveFails => File!End
<1> SUFFICES ASSUME TypeOK, TypeOK', CalmInv, SaveFails PROVE File!End
  OBVIOUS
<1>1. /\ UNCHANGED <<path, temporary, mem, orphans, saves>>
      /\ pc # "idle" /\ pc' = "idle"
  BY DEF SaveFails, OutsideSame, fileVars
<1>2. \/ UNCHANGED content
      \/ pc = "write" /\ file \in Files /\ content' = [content EXCEPT ![file] = Torn]
  BY DEF SaveFails, fileVars, TypeOK
<1>3. Stored' \in File!Outcomes
  <2>1. CASE pc = "write" /\ file = path /\ content' = [content EXCEPT ![file] = Torn]
    <3>1. content'[path'] = Torn
      BY <1>1, <1>2, <2>1 DEF TypeOK
    <3>2. Stored' = {}
      BY <3>1, <1>1, StoredIs DEF Stored, Readable, Payloads
    <3> QED  BY <3>2, <2>1, OwnFile, Reaches DEF File!Outcomes
  <2>2. CASE path # None => content'[path] = content[path]
    BY <1>1, <2>2, StoredSame DEF File!Outcomes, File!Reach
  <2> QED  BY <1>2, <2>1, <2>2 DEF TypeOK
<1>4. Disturbed' => Disturbed /\ Held' \subseteq Held
  BY <1>1 DEF Disturbed, Held
<1>5. Named' \subseteq Named
  <2>1. (Opened' => Opened) /\ Payloads' = Payloads /\ Torn \notin Payloads
    BY <1>1 DEF Opened, Payloads
  <2>2. temporary # None => content'[temporary] \in {content[temporary], Torn}
    BY <1>2 DEF TypeOK
  <2> QED  BY <1>1, <2>1, <2>2 DEF Named
<1> QED  BY <1>1, <1>3, <1>4, <1>5, Settles DEF File!End

LEMMA SavedDrop == TypeOK /\ TypeOK' /\ CalmInv /\ Drop => File!Drop
<1> SUFFICES ASSUME TypeOK, TypeOK', CalmInv, Drop PROVE File!Drop
  OBVIOUS
<1> DEFINE left == [op |-> pc, file |-> file, payload |-> mem]
<1>1. /\ UNCHANGED <<path, temporary, content, mem, saves>>
      /\ pc # "idle" /\ pc' = "idle" /\ orphans' = orphans \cup {left}
  BY DEF Drop, fileVars
<1>2. Stored' = Stored
  BY <1>1, StoredSame
<1>0. left.op = pc /\ left.payload = mem
  OBVIOUS
<1> HIDE DEF left
<1>3. Held' = {o.payload : o \in orphans} \cup {mem}
  <2>1. {o.payload : o \in orphans'} = {o.payload : o \in orphans} \cup {left.payload}
    BY <1>1
  <2> QED  BY <1>0, <1>1, <2>1 DEF Held
<1>4. Named' = Named
  <2>1. {o.op : o \in orphans'} = {o.op : o \in orphans} \cup {left.op}
    BY <1>1
  <2>2. Opened' = Opened
    BY <1>0, <1>1, <2>1 DEF Opened
  <2> QED  BY <1>1, <2>2 DEF Named, Payloads
<1>5. Loose' = Held' \cup Named'
  BY <1>1 DEF Loose, Disturbed, Held, Named
<1>6. CASE Disturbed
  <2>1. Loose = Held \cup Named /\ Held = {o.payload : o \in orphans} \cup {mem}
    BY <1>1, <1>6, LooseIs DEF Held
  <2> QED  BY <1>1, <1>2, <1>3, <1>4, <1>5, <2>1 DEF File!Drop
<1>7. CASE ~Disturbed
  <2>1. orphans = {} /\ Calm /\ Loose = {}
    BY <1>1, <1>7, LooseIs DEF Disturbed, Calm
  <2>2. Named \subseteq {mem}
    BY <1>1, <2>1 DEF TypeOK, CalmInv, Named, Opened, Payloads
  <2>3. Loose' = {mem}
    BY <1>3, <1>4, <1>5, <2>1, <2>2
  <2> QED  BY <1>1, <1>2, <2>1, <2>3 DEF File!Drop
<1> QED  BY <1>6, <1>7

LEMMA SavedOrphan ==
  ASSUME TypeOK, TypeOK', CalmInv, NEW o \in orphans, Orphan(o)
  PROVE  File!Disturb
<1>1. /\ UNCHANGED <<mem, pc, file, saves, undisturbed>>
      /\ o \in Operations /\ Disturbed /\ o.payload \in Held
  BY DEF Orphan, saveVars, TypeOK, Disturbed, Held
<1>2. /\ Payloads' = Payloads
      /\ Torn \notin Payloads /\ Empty \notin Payloads
  BY <1>1 DEF Payloads
<1> SUFFICES Stored' \in File!Reach /\ Held' \subseteq Held /\ Named' \subseteq Held \cup Named
  BY <1>1, Settles DEF File!Disturb
<1>3. CASE o.op = "open"
  <2>1. PICK f \in Files :
          /\ OpenTemporary(f)
          /\ orphans' = (orphans \ {o}) \cup {[o EXCEPT !.op = "write", !.file = f]}
    BY <1>3 DEF Orphan
  <2>2. f # path /\ content' = [content EXCEPT ![f] = Empty] /\ temporary' = f /\ path' = path
    BY <2>1 DEF TypeOK, CalmInv, OpenTemporary, Unused
  <2>3. Stored' = Stored
    BY <2>2, StoredSame DEF TypeOK
  <2>4. [o EXCEPT !.op = "write", !.file = f].payload = o.payload
    BY <1>1 DEF Operations
  <2>5. Held' \subseteq Held
    BY <1>1, <2>1, <2>4 DEF Held
  <2>6. Named' = {}
    BY <1>2, <2>2 DEF Named, TypeOK
  <2> QED  BY <2>3, <2>5, <2>6 DEF File!Reach
<1>4. CASE o.op = "write"
  <2>1. Write(o.file, o.payload) /\ orphans' = orphans \ {o}
    BY <1>4 DEF Orphan
  <2>2. PICK c \in {o.payload, Torn} : content' = [content EXCEPT ![o.file] = c]
    BY <2>1 DEF Write
  <2>3. UNCHANGED <<path, temporary>> /\ Held' \subseteq Held
    BY <1>1, <2>1 DEF Write, Held
  <2>4. Stored' \in File!Reach
    <3>1. CASE o.file = path /\ path # None
      <4>1. content'[path'] \in {o.payload, Torn}
        BY <2>2, <2>3, <3>1 DEF TypeOK
      <4>2. Stored' \in {{}, {o.payload}}
        BY <4>1, <1>1, StoredIs
      <4> QED  BY <4>2, <1>1, Reaches
    <3>2. CASE o.file # path \/ path = None
      BY <2>2, <2>3, <3>2, StoredSame DEF TypeOK, File!Reach
    <3> QED  BY <3>1, <3>2
  <2>5. Named' \subseteq Held \cup Named
    <3>1. Opened
      BY <1>4 DEF Opened
    <3>2. temporary # None => content'[temporary] \in {content[temporary], o.payload, Torn}
      BY <2>2 DEF TypeOK
    <3> QED  BY <1>1, <1>2, <2>3, <3>1, <3>2 DEF Named
  <2> QED  BY <2>3, <2>4, <2>5
<1>5. CASE o.op = "rename"
  <2>1. orphans' = orphans \ {o} /\ Opened
    BY <1>5 DEF Orphan, Opened
  <2>2. Held' \subseteq Held
    BY <1>1, <2>1 DEF Held
  <2>3. CASE CanRename
    <3>1. path' = temporary /\ temporary # None /\ temporary' = None /\ UNCHANGED content
      BY <1>5, <2>3 DEF Orphan, CanRename, Rename
    <3>2. Stored' = {content[temporary]} \cap Payloads /\ Named' = {}
      BY <1>2, <3>1 DEF Stored, Readable, Named
    <3>3. Stored' = {} \/ \E p \in Named : Stored' = {p}
      BY <2>1, <3>1, <3>2 DEF Named
    <3> QED  BY <1>1, <2>2, <3>2, <3>3, Reaches
  <2>4. CASE ~CanRename
    <3>1. UNCHANGED <<path, content>> /\ temporary' = None
      BY <1>5, <2>4 DEF Orphan, CanRename, fileVars
    <3>2. Stored' = Stored /\ Named' = {}
      BY <3>1, StoredSame DEF Named
    <3> QED  BY <2>2, <3>2 DEF File!Reach
  <2> QED  BY <2>3, <2>4
<1> QED  BY <1>1, <1>3, <1>4, <1>5 DEF Operations, Disk

LEMMA SavedCrash == TypeOK /\ TypeOK' /\ Crash => File!Crash
<1> SUFFICES ASSUME TypeOK, TypeOK', Crash PROVE File!Crash
  OBVIOUS
<1>1. UNCHANGED <<path, content, temporary>> /\ pc' = "idle" /\ orphans' = {}
  BY DEF Crash, fileVars
<1>2. Stored' = Stored
  BY <1>1, StoredSame
<1>3. Loose' = {}
  BY <1>1 DEF Loose, Disturbed
<1> QED  BY <1>1, <1>2, <1>3 DEF File!Crash, File!Reach

(* save_cache keeps the promises of SavedFile: a save replaces the cache   *)
(* by its payload or leaves it as it was; only dropped ones, with those    *)
(* they disturb, can mix theirs or leave nothing to read.                  *)
THEOREM ImplementsSavedFile == Spec => FileSpec
<1>1. TypeOK /\ TypeOK' /\ CalmInv /\ [Next]_vars => [File!Next]_(File!savedVars)
  <2> SUFFICES ASSUME TypeOK, TypeOK', CalmInv, [Next]_vars
               PROVE  [File!Next]_(File!savedVars)
    OBVIOUS
  <2>1. CASE UNCHANGED vars
    BY <2>1 DEF vars, fileVars, saveVars, File!savedVars, Stored, Readable, Payloads,
                Loose, Disturbed, Opened
  <2>2. CASE Begin
    BY <2>2, SavedBegin DEF File!Next
  <2>3. CASE Open
    BY <2>3, SavedOpen DEF File!Next
  <2>4. CASE WriteTemporary
    BY <2>4, SavedWrite DEF File!Next
  <2>5. CASE RenameTemporary
    BY <2>5, SavedRename DEF File!Next
  <2>6. CASE SaveFails
    BY <2>6, SavedFails DEF File!Next
  <2>7. CASE Drop
    BY <2>7, SavedDrop DEF File!Next
  <2>8. CASE Crash
    BY <2>8, SavedCrash DEF File!Next
  <2>9. ASSUME NEW o \in orphans, Orphan(o) PROVE File!Next
    BY <2>9, SavedOrphan DEF File!Next
  <2> QED
    BY <2>1, <2>2, <2>3, <2>4, <2>5, <2>6, <2>7, <2>8, <2>9 DEF Next
<1> QED
  BY <1>1, SavedInit, CacheTypes, CalmAlways, PTL DEF Spec, FileSpec, File!Spec
=============================================================================
