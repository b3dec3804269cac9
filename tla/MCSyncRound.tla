---------------------------- MODULE MCSyncRound ----------------------------
(* An event, a holiday, a task list with a task on each of two pages and   *)
(* another with one task.                                                  *)
EXTENDS SyncRound

CONSTANTS event, holiday, inbox, work, first, second, other

MCItems  == {event, holiday, inbox, work, first, second, other}
MCHome   == [i \in MCItems |-> CASE i = event -> Events
                                 [] i = holiday -> Holidays
                                 [] i \in {inbox, work} -> Lists
                                 [] i \in {first, second} -> inbox
                                 [] i = other -> work]
MCPageOf == [i \in MCItems |-> IF i = second THEN 2 ELSE 1]
=============================================================================
