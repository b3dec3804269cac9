--------------------------- MODULE MCKioskProcess ---------------------------
(* The unit with a smaller start limit, set by the configurations. *)
EXTENDS KioskProcess
=============================================================================
