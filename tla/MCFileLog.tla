----------------------------- MODULE MCFileLog -----------------------------
(* FileLog for TLC: instances and entries are interchangeable.             *)
EXTENDS FileLog, TLC

Symmetry == Permutations(Instance) \cup Permutations(Entry)
=============================================================================
