------------------------------ MODULE MCServer ------------------------------
(* Small instances of Server for TLC.  See the .cfg files. *)
EXTENDS Server, TLC

BlockSymmetry == Permutations(Bufs)
Symmetry == Permutations(Bufs) \union Permutations(Conns)
=============================================================================
