---------------------------- MODULE MCKioskPage ----------------------------
(* A task and its subtask, and two polls in flight. *)
EXTENDS KioskPage

CONSTANTS parent, child

MCTasks  == {parent, child}
MCParent == [t \in MCTasks |-> IF t = child THEN parent ELSE NoTask]
=============================================================================
