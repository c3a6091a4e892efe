----------------------------- MODULE MCEpcOrder -----------------------------
(* EpcOrder for TLC: tags, orders, exchanges and syncs are interchangeable. *)
EXTENDS EpcOrder, TLC

Symmetry == UNION {Permutations(S) : S \in {Epc, Order, Exchange, Sync}}
=============================================================================
