---------------------------- MODULE MCBroadcaster ----------------------------
(* Broadcaster.tla on small instances; the constants are in the cfg files. *)
EXTENDS Broadcaster

(* Calls of logs() are interchangeable, and so are frame payloads.         *)
Symmetry == Permutations(Clients) \union Permutations(Frames)
==============================================================================
