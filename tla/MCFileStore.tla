---------------------------- MODULE MCFileStore ----------------------------
(***************************************************************************)
(* FileStore for TLC.  Versions are named by their number of segments.     *)
(* Paths and workers are interchangeable.                                  *)
(***************************************************************************)
EXTENDS FileStore, TLC

CONSTANTS empty, one, two

SegsOf == [v \in Version |-> CASE v = empty -> 0 [] v = one -> 1
                               [] v = two -> 2]

StoreSymmetry == Permutations(Path) \cup Permutations(Worker)
=============================================================================
