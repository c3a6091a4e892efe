----------------------------- MODULE OrderBook -----------------------------
(***************************************************************************)
(* What transfer orders promise their readers, with no requests, checks,   *)
(* counts, transactions or failures: some orders are placed together, each *)
(* with its details, all at once; the orders, or the details, that have    *)
(* one code are amended together, and those that have one of some codes    *)
(* withdrawn together; nothing withdrawn comes back.                       *)
(***************************************************************************)
VARIABLES
  orders,   \* the orders there are
  details,  \* the details there are, with the orders they came with
  placed    \* all orders there have been

vars == <<orders, details, placed>>

Ids(S) == {r.id : r \in S}

Init == orders = {} /\ details = {} /\ placed = {}

Place ==
  LET R == orders' \ orders
  IN  /\ R # {} /\ Ids(R) \cap placed = {}
      /\ \A r, s \in R : r.id = s.id => r = s
      /\ orders' = orders \cup R
      /\ details' = details \cup {[id |-> r.id, code |-> r.code] : r \in R}
      /\ placed' = placed \cup Ids(R)

\* What had one code has another content, each under its own identity.
Amended(S, T) ==
  /\ Ids(T) = Ids(S)
  /\ \A r, s \in S \ T : r.code = s.code
  /\ \A r \in S, s \in T : r.id = s.id => r = s \/ r \notin T

AmendOrders  == Amended(orders, orders') /\ UNCHANGED <<details, placed>>
AmendDetails == Amended(details, details') /\ UNCHANGED <<orders, placed>>

\* S without the rows that have one of some codes.
Without(S, T) ==
  /\ T \subseteq S
  /\ \A r \in S \ T, s \in T : r.code # s.code

WithdrawDetails == Without(details, details') /\ UNCHANGED <<orders, placed>>
WithdrawOrders  == Without(orders, orders') /\ UNCHANGED <<details, placed>>

Next == Place \/ AmendOrders \/ AmendDetails \/ WithdrawDetails \/ WithdrawOrders

Spec == Init /\ [][Next]_vars
=============================================================================
