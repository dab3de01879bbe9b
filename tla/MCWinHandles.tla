---------------------------- MODULE MCWinHandles ----------------------------
(* WinHandles.tla on small instances; the constants are in the cfg files.  *)
EXTENDS WinHandles, TLC

(* Jobs are interchangeable, and so are handle values.                     *)
Symmetry == Permutations(Jobs) \union Permutations(Values)
==============================================================================
