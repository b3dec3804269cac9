---------------------------- MODULE MCTokenFile ----------------------------
(* Files enough for both names, an open one, a pushed one and orphans. *)
EXTENDS TokenFile, TLC

CONSTANTS f1, f2, f3, f4, f5

MCFiles == {f1, f2, f3, f4, f5}
FileSymmetry == Permutations(MCFiles)
=============================================================================
