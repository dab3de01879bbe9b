------------------------------ MODULE MCTracker ------------------------------
(* Tracker.tla on small instances; the constants are in the cfg files.     *)
EXTENDS Tracker, TLC

(* Callers of kill() are interchangeable, and so are the two streams.      *)
Symmetry == Permutations(Killers) \union Permutations(Streams)
==============================================================================
