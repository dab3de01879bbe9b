------------------------------ MODULE MCService ------------------------------
(* Service.tla on small instances; the constants are in the cfg files.     *)
EXTENDS Service, TLC

(* Users, jobs and requests are interchangeable.                           *)
Symmetry == Permutations(Users) \union Permutations(JobIds) \union Permutations(Requests)
==============================================================================
