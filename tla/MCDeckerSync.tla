---------------------------- MODULE MCDeckerSync ----------------------------
(* DeckerSync for TLC: tags that share a command, or a prefix, or neither.  *)
(* The tag e3 may be one of the factory's own.                              *)
EXTENDS DeckerSync, TLC

CONSTANTS e1, e2, e3, c1, c2

\* The tags of one command have different prefixes.
OneCommand   == [e \in Epc |-> c1]
TwoCommands  == [e \in Epc |-> IF e = e1 THEN c1 ELSE c2]
PrefixButE3  == [e \in Epc |-> IF e = e3 THEN 2 ELSE 1]
OwnPrefix    == [e \in Epc |-> IF e = e1 THEN 1 ELSE 2]
=============================================================================
