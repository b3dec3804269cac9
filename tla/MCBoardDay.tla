----------------------------- MODULE MCBoardDay -----------------------------
(* Two midnights; signatures for the server, its cache, the page and an    *)
(* answer on its way, and one that is new.                                 *)
EXTENDS BoardDay

MCSignatures == 1..5
=============================================================================
