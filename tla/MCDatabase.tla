------------------------------ MODULE MCDatabase ------------------------------
(***************************************************************************)
(* Instances of Database for TLC: two collections, so that one is dropped, *)
(* re-created or closed while the export of the other runs, and one index. *)
(***************************************************************************)
EXTENDS Database, TLC

CONSTANTS a, b

Symmetry == Permutations({a, b})

===============================================================================
