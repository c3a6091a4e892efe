----------------------------- MODULE MCRequests -----------------------------
(* Requests for TLC.                                                       *)
EXTENDS Requests, TLC

CONSTANT h1

\* One host stands for all: the sources of two hosts have nothing in common.
OneHost == [t \in Tenant |-> h1]
=============================================================================
