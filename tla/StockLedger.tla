---------------------------- MODULE StockLedger ----------------------------
(***************************************************************************)
(* What stocking promises, with no tables, collections or requests in      *)
(* progress: a ledger of recorded tags, a shelf of saved documents and the *)
(* answers given to clients.  Nothing recorded or saved is ever withdrawn, *)
(* a document is saved once, after its tag is recorded, and an answer      *)
(* counts tags that are recorded, saved and in no other answer.            *)
(***************************************************************************)
CONSTANTS
  Tag,      \* what is stocked
  Client    \* who asks for it; an answer is given to a client once

VARIABLES
  recorded, \* tags in the book of record
  saved,    \* tags whose document is kept
  counted   \* the tags each answer counted, {} before it is given

vars == <<recorded, saved, counted>>

Init ==
  /\ recorded = {} /\ saved = {}
  /\ counted = [c \in Client |-> {}]

\* Some tags enter the book together.
Record(S) ==
  /\ S \subseteq Tag /\ S # {}
  /\ recorded' = recorded \cup S
  /\ UNCHANGED <<saved, counted>>

\* The document of a recorded tag is kept, once.
Save(t) ==
  /\ t \in recorded \ saved
  /\ saved' = saved \cup {t}
  /\ UNCHANGED <<recorded, counted>>

\* A client is told that S is stocked.
Answer(c, S) ==
  /\ counted[c] = {}
  /\ S \subseteq recorded \cap saved
  /\ \A d \in Client \ {c} : S \cap counted[d] = {}
  /\ counted' = [counted EXCEPT ![c] = S]
  /\ UNCHANGED <<recorded, saved>>

Next ==
  \/ \E S \in SUBSET Tag : Record(S)
  \/ \E t \in Tag : Save(t)
  \/ \E c \in Client, S \in SUBSET Tag : Answer(c, S)

Spec == Init /\ [][Next]_vars
=============================================================================
