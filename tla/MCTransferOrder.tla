-------------------------- MODULE MCTransferOrder --------------------------
(* TransferOrder for TLC.                                                  *)
EXTENDS TransferOrder, TLC

CONSTANTS f1, f2, o1, o2

\* Bodies that write one column each; one of the order number that is there
\* already writes none.
Keep   == [factory |-> Same, order |-> Same, code |-> Same]
Bodies == {[Keep EXCEPT !.factory = f2], [Keep EXCEPT !.order = o2],
           [Keep EXCEPT !.code = <<f1, 0, 2>>]}
=============================================================================
