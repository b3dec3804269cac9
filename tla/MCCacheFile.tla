---------------------------- MODULE MCCacheFile ----------------------------
(* Files enough for both names, an open one and those of two orphans. *)
EXTENDS CacheFile, TLC

CONSTANTS f1, f2, f3, f4, f5

MCFiles == {f1, f2, f3, f4, f5}
FileSymmetry == Permutations(MCFiles)
=============================================================================
