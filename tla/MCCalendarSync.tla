--------------------------- MODULE MCCalendarSync ---------------------------
(***************************************************************************)
(* Model values and functions for the runs of CalendarSync: a task and its *)
(* subtask in one list, or two tasks in two lists.                         *)
(***************************************************************************)
EXTENDS CalendarSync, TLC

CONSTANTS parent, child, other, inbox, work, h1, h2

FamilyTasks  == {parent, child}
FamilyListOf == [t \in FamilyTasks |-> inbox]
FamilyParent == [t \in FamilyTasks |-> IF t = child THEN parent ELSE NoTask]

ListsTasks  == {parent, other}
ListsListOf == [t \in ListsTasks |-> IF t = other THEN work ELSE inbox]
ListsParent == [t \in ListsTasks |-> NoTask]

HandlerSymmetry == Permutations({h1, h2})
=============================================================================
