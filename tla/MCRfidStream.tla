---------------------------- MODULE MCRfidStream ----------------------------
(* RfidStream for TLC.                                                     *)
EXTENDS RfidStream, TLC
=============================================================================
