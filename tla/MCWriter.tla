------------------------------ MODULE MCWriter ------------------------------
(* Model-checking instance of Writer.  Nothing tells the files of the volume
   apart, and every property is about single states and steps. *)
EXTENDS Writer, TLC

Symmetry == Permutations(Inodes)
=============================================================================
