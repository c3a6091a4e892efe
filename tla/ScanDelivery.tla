---------------------------- MODULE ScanDelivery ----------------------------
(***************************************************************************)
(* What the readers' queue promises, with no lists, locks, workers or      *)
(* stalls: a reader's scan is accepted once and is open until it leaves in *)
(* one of three ways.  It is settled, and then it has a result; it is      *)
(* blocked, where it stays until it is removed; or it is removed.  What    *)
(* has left is never open again.  A result may come at any time once the   *)
(* scan is accepted, of a scan that has left as well: the work is done at  *)
(* least once, not exactly once.                                           *)
(***************************************************************************)
CONSTANT Job  \* scans

VARIABLES
  open,     \* scans accepted that have not left
  blocked,  \* scans that are not tried any more
  posted,   \* scans accepted
  written,  \* scans whose tags are written
  logged,   \* scans whose outcome is in the log
  removed   \* scans taken away

vars == <<open, blocked, posted, written, logged, removed>>

Init ==
  /\ open = {} /\ blocked = {}
  /\ posted = {} /\ written = {} /\ logged = {} /\ removed = {}

Accept(j) ==
  /\ j \notin posted
  /\ posted' = posted \cup {j}
  /\ open' = open \cup {j}
  /\ UNCHANGED <<blocked, written, logged, removed>>

\* The tags of a scan are written, or the log has why not.
Result(j) ==
  /\ j \in posted
  /\ \/ written' = written \cup {j} /\ UNCHANGED logged
     \/ logged' = logged \cup {j} /\ UNCHANGED written
  /\ UNCHANGED <<open, blocked, posted, removed>>

Settle(j) ==
  /\ j \in open /\ j \in written \cup logged
  /\ open' = open \ {j}
  /\ UNCHANGED <<blocked, posted, written, logged, removed>>

Block(j) ==
  /\ j \in open
  /\ open' = open \ {j}
  /\ blocked' = blocked \cup {j}
  /\ UNCHANGED <<posted, written, logged, removed>>

Remove(S) ==
  /\ S \subseteq open \cup blocked
  /\ open' = open \ S /\ blocked' = blocked \ S
  /\ removed' = removed \cup S
  /\ UNCHANGED <<posted, written, logged>>

Next ==
  \/ \E j \in Job : Accept(j) \/ Result(j) \/ Settle(j) \/ Block(j)
  \/ \E S \in SUBSET Job : Remove(S)

Spec == Init /\ [][Next]_vars
=============================================================================
