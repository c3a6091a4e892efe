---------------------------- MODULE OrderRecord ----------------------------
(***************************************************************************)
(* What the table of record promises its callers, with no statements,      *)
(* batches, locks or MongoDB: a call fails and changes nothing, or it      *)
(* takes effect at one point.  An exchange then gives its order to every   *)
(* row its tags had when it was asked; a row added since may be missed.  A *)
(* sync then leaves no tag of its payload without a row, and adds one row  *)
(* for a tag at most.  Nothing is taken back.                              *)
(***************************************************************************)
CONSTANTS
  Epc,       \* the tags
  Order,     \* manufacturing orders
  None,      \* no row, not exchanged, no call
  Undefined, \* in a row of which no order is known
  Exchange,  \* callers that give tags another order
  Sync       \* callers that register tags

\* A tag is in one row for each sync that has registered it, and in one more
\* if it was registered before.
Row == Epc \X (Sync \cup {None})
Caller == Exchange \cup Sync

VARIABLES
  mo,     \* the order a row is added with
  actual, \* the order it has been given since
  ids,    \* the tags a call is about, {} without one
  to,     \* the order of an exchange
  info,   \* the order a sync has for each tag
  before  \* the rows the tags of an exchange had when it was asked

vars == <<mo, actual, ids, to, info, before>>

RowsOf(S) == {r \in Row : r[1] \in S /\ mo[r] # None}

Init ==
  /\ mo \in [Row -> Order \cup {None}]
  /\ actual = [r \in Row |-> None]
  /\ ids = [c \in Caller |-> {}]
  /\ to = [x \in Exchange |-> None]
  /\ info = [y \in Sync |-> [e \in Epc |-> Undefined]]
  /\ before = [x \in Exchange |-> {}]

Ask(c, S) ==
  /\ ids[c] = {} /\ S # {}
  /\ ids' = [ids EXCEPT ![c] = S]
  /\ UNCHANGED <<mo, actual>>

AskExchange(x, S, o) ==
  /\ Ask(x, S)
  /\ to' = [to EXCEPT ![x] = o]
  /\ before' = [before EXCEPT ![x] = RowsOf(S)]
  /\ UNCHANGED info

AskSync(y, S, f) ==
  /\ Ask(y, S)
  /\ info' = [info EXCEPT ![y] = f]
  /\ UNCHANGED <<to, before>>

Over(c) ==
  /\ ids' = [ids EXCEPT ![c] = {}]
  /\ before' = [x \in Exchange |-> IF x = c THEN {} ELSE before[x]]
  /\ to' = [x \in Exchange |-> IF x = c THEN None ELSE to[x]]
  /\ info' = [y \in Sync |-> IF y = c THEN [e \in Epc |-> Undefined] ELSE info[y]]

Assign(x, R) ==
  /\ ids[x] # {}
  /\ before[x] \subseteq R /\ R \subseteq RowsOf(ids[x])
  /\ actual' = [r \in Row |-> IF r \in R THEN to[x] ELSE actual[r]]
  /\ Over(x)
  /\ UNCHANGED mo

Register(y, S) ==
  /\ ids[y] # {}
  /\ S \subseteq ids[y]
  /\ \A e \in S : mo[<<e, y>>] = None
  /\ \A e \in ids[y] \ S : RowsOf({e}) # {}
  /\ mo' = [r \in Row |-> IF r \in S \X {y} THEN info[y][r[1]] ELSE mo[r]]
  /\ Over(y)
  /\ UNCHANGED actual

Fail(c) == ids[c] # {} /\ Over(c) /\ UNCHANGED <<mo, actual>>

Next ==
  \/ \E x \in Exchange : \/ \E S \in SUBSET Epc, o \in Order : AskExchange(x, S, o)
                         \/ \E R \in SUBSET Row : Assign(x, R)
  \/ \E y \in Sync : \/ \E S \in SUBSET Epc, f \in [Epc -> Order \cup {Undefined}] :
                           AskSync(y, S, f)
                     \/ \E S \in SUBSET Epc : Register(y, S)
  \/ \E c \in Caller : Fail(c)

Spec == Init /\ [][Next]_vars
=============================================================================
