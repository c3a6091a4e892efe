---------------------------- MODULE MCWarehouse ----------------------------
(* Warehouse for TLC: calls and types are interchangeable.                 *)
EXTENDS Warehouse, TLC

Symmetry == Permutations(Call) \cup Permutations(Type)
=============================================================================
