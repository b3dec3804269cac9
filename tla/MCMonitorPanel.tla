--------------------------- MODULE MCMonitorPanel ---------------------------
(* Three PCs; the first by name is the last in display order, and the others *)
(* share one.                                                              *)
EXTENDS MonitorPanel

MCHosts == 1..3
MCDisplayOrder == [h \in MCHosts |-> IF h = 1 THEN 1001 ELSE 0]
=============================================================================
