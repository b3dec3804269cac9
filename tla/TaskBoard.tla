----------------------------- MODULE TaskBoard -----------------------------
(***************************************************************************)
(* What the calendar server promises about the task list it shows, with no *)
(* word of locks, fetches, sessions or files.  The server shows a set of   *)
(* tasks; Google holds the set of open ones.  A completion closes the task *)
(* at Google and then takes it off the board; a refresh replaces the board *)
(* by what Google listed, which may be some seconds old, but never by a    *)
(* list that brings back a task the kiosk has completed.  CalendarSync     *)
(* implements this module.                                                 *)
(***************************************************************************)
EXTENDS Naturals

CONSTANTS Tasks,     \* the tasks of every list
          Parent,    \* the parent of a task, NoTask for a top-level one
          NoTask

VARIABLES open,      \* the tasks Google holds as open
          shown,     \* the tasks the server shows
          done       \* completed through the kiosk since the server started,
                     \* and not reopened at Google since

boardVars == <<open, shown, done>>

TopLevel(t) == Parent[t] = NoTask
Subtasks(t) == {s \in Tasks : Parent[s] = t}

Init == /\ open \in SUBSET Tasks
        /\ shown \in SUBSET Tasks
        /\ done = {}

(* Google, for the kiosk or for a phone, closes some tasks. *)
Close == /\ open' \in SUBSET open
         /\ UNCHANGED <<shown, done>>

(* A phone opens a task, new or completed before. *)
Open == \E t \in Tasks : /\ open' = open \cup {t}
                         /\ done' = done \ {t}
                         /\ UNCHANGED shown

(* A confirmed completion: the task and its subtasks leave the board.      *)
Complete(t) ==
  /\ TopLevel(t)
  /\ shown' = shown \ ({t} \cup Subtasks(t))
  /\ done' = done \cup ({t} \ open)
  /\ UNCHANGED open

(* A refresh: whatever Google listed, without what was completed here.     *)
Refresh == /\ shown' \in SUBSET (Tasks \ done)
           /\ UNCHANGED <<open, done>>

(* A new server process starts from the cache its predecessor left.        *)
Restart == /\ shown' \in SUBSET Tasks
           /\ done' = {}
           /\ UNCHANGED open

Next == Close \/ Open \/ (\E t \in shown : Complete(t)) \/ Refresh \/ Restart

Spec == Init /\ [][Next]_boardVars

(* No completed task is shown, and none that Google has open counts as     *)
(* completed: the promise itself.                                          *)
Promise == done \cap (shown \cup open) = {}
=============================================================================
