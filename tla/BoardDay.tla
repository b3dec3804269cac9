------------------------------ MODULE BoardDay ------------------------------
(***************************************************************************)
(* The page in the browser of the kiosk process, and the day it counts     *)
(* from: KioskProcess with what its Chromium shows.                        *)
(*                                                                         *)
(*   web/app.js               poll, renderAll, getCalendarSignature        *)
(*   rust/src/calendar.rs     apply_success, record_error                  *)
(*                                                                         *)
(* A poll draws the list with its D-days and the grid with its mark of the *)
(* day only when the data has another signature than what is drawn.  The   *)
(* day is not part of it; last_sync is, which every sync changes.          *)
(*                                                                         *)
(* A signature is a model value: each change of the data gives one that    *)
(* nobody has seen.  The cache keeps the data over a restart (CalendarSync *)
(* shows how), though an earlier state of it if a save failed.             *)
(***************************************************************************)
EXTENDS KioskProcess

CONSTANTS LastDay,      \* bound: days
          Signatures, None

ASSUME DayAssumption == LastDay \in Nat /\ None \notin Signatures

Days == 0..LastDay

VARIABLES
  day,        \* the day in Korea
  data,       \* the signature of the server's data, and of its cache
  cache,
  list,       \* the day the list counts from, None while none is drawn
  drawn,      \* calendarSignature
  answer      \* an answer to a poll on its way

dataVars == <<data, cache>>
pageVars == <<list, drawn, answer>>
boardVars == <<day, dataVars, pageVars>>
dayVars == <<vars, boardVars>>

DayTypeOK ==
  /\ TypeOK
  /\ day \in Days
  /\ {data, cache} \subseteq Signatures
  /\ list \in Days \cup {None}
  /\ drawn \in Signatures \cup {None} /\ answer \in Signatures \cup {None}
  /\ list = None <=> drawn = None
  /\ browser # "shown" => pageVars = <<None, None, None>>

NoPage == list = None /\ drawn = None /\ answer = None

DayInit ==
  /\ Init
  /\ day = 0
  /\ data \in Signatures /\ cache = data
  /\ NoPage

-----------------------------------------------------------------------------
(* The data *)

Fresh == CHOOSE s \in Signatures : s \notin {data, cache, drawn, answer}

(* apply_success: last_sync is now, whatever was read; the cache follows,  *)
(* or cannot be written.                                                   *)
Synced ==
  /\ main \in {"boot", "select"}
  /\ data' = Fresh
  /\ cache' \in {cache, data'}
  /\ UNCHANGED <<vars, day, pageVars>>

Midnight ==
  /\ day < LastDay
  /\ day' = day + 1
  /\ UNCHANGED <<vars, dataVars, pageVars>>

-----------------------------------------------------------------------------
(* The page *)

Open == browser = "shown"

(* Mutant: the signature is without last_sync; nothing else changes.       *)
RenderAll_DataOnly(s) ==
  /\ drawn' = s
  /\ list' = IF drawn = None THEN day ELSE list

RenderAll(s) ==
  /\ drawn' = s
  /\ list' = IF s # drawn THEN day ELSE list

(* poll, every two seconds: one that finds no server shows the banner.     *)
Answered ==
  /\ Open /\ server = "serving" /\ answer = None
  /\ answer' = data
  /\ UNCHANGED <<vars, day, dataVars, list, drawn>>

(* The answer is rendered, or overtaken by a confirmed completion.         *)
Rendered ==
  /\ answer # None
  /\ RenderAll(answer)
  /\ answer' = None
  /\ UNCHANGED <<vars, day, dataVars>>

Dropped ==
  /\ answer # None
  /\ answer' = None
  /\ UNCHANGED <<vars, day, dataVars, list, drawn>>

-----------------------------------------------------------------------------
(* Mutant: the page of the last browser is restored. *)
PageFollows_Restored == UNCHANGED pageVars

(* The process goes on as in KioskProcess.  The page goes with its browser *)
(* ...                                                                     *)
PageFollows ==
  IF browser = "shown" /\ browser' = "shown" THEN UNCHANGED pageVars
    ELSE list' = None /\ drawn' = None /\ answer' = None

(* ... and what the server knows with its process: run loads the cache.    *)
DataFollows ==
  /\ data' = IF main' = "boot" /\ main # "boot" THEN cache ELSE data
  /\ UNCHANGED cache

ProcessStep == Next /\ PageFollows /\ DataFollows /\ UNCHANGED day

DayNext == \/ ProcessStep \/ Synced \/ Midnight
           \/ Answered \/ Rendered \/ Dropped

(* As in KioskProcess; and polls are answered, and not all dropped.        *)
DaySpec == DayInit /\ [][DayNext]_dayVars
FairDaySpec ==
  /\ DaySpec /\ Fairness
  /\ WF_dayVars(Answered) /\ SF_dayVars(Rendered)

-----------------------------------------------------------------------------
(* Properties *)

(* While syncs go on, the list comes to count from the day it is, also     *)
(* when they read nothing new, and when the page was loaded by a process   *)
(* that had been restarted.                                                *)
ListIsToday ==
  \A d \in Days :
    <>[](Healthy /\ day = d) /\ []<><<Synced>>_dayVars => <>[](list = d)
=============================================================================
