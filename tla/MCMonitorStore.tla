--------------------------- MODULE MCMonitorStore ---------------------------
(* A PC whose clock is a tick ahead of the server's. *)
EXTENDS MonitorStore

CONSTANTS pc

MCSkew == [h \in Hosts |-> 1]
=============================================================================
