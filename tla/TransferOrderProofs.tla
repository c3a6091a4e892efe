------------------------ MODULE TransferOrderProofs ------------------------
(***************************************************************************)
(* Theorems about TransferOrder, for any requests, factories, orders and   *)
(* bodies and any number of failures.                                      *)
(***************************************************************************)
EXTENDS TransferOrder, FiniteSetTheorems, SequenceTheorems, TLAPS

Rows  == master \cup ever
Named == {"find", "approve", "update", "edit", "delete_details", "delete_masters"}

\* Where a request is decides what it has.
Shape ==
  \A c \in Call :
    /\ step[c] \notin {"count", "insert", "details"} => own[c] = {}
    /\ step[c] \in {"check", "count", "insert"} => list[c] # <<>>
    /\ step[c] \in Named => todo[c] # {}
    /\ step[c] \in {"find", "approve", "edit"} => \A k, l \in todo[c] : k = l

\* Two versions of one row: what no statement writes.
Kin(q, r) == q.id = r.id /\ q.given = r.given /\ q.past = r.past /\ q.after = r.after

\* Identity values are given once, in order.
IdInv ==
  /\ \A r \in Rows : r.id \in 1..last /\ r.past \subseteq 1..last /\ r.after \subseteq 1..(r.id - 1)
  /\ \A r, s \in Rows : r.id = s.id => Kin(r, s)
  /\ \A r, s \in master : r.id = s.id => r = s
  /\ \A d, e \in detail : d.id = e.id => d = e
  /\ \A c \in Call : checked[c] \subseteq 1..last /\ counted[c] \subseteq 1..last

\* What is not committed is in one transaction; all else was committed once.
TxnInv ==
  /\ \A c \in Call : own[c] \subseteq master /\ Ids(own[c]) \cap Ids(ever) = {}
  /\ \A c, d \in Call : c # d => own[c] \cap own[d] = {}
  /\ \A r \in master : r \in ever \/ r \in Uncommitted
  /\ detail \subseteq noted /\ Ids(noted) \subseteq Ids(ever)

\* A row the check has seen is of no order still to insert, unless someone
\* has rewritten it.
OrderInv ==
  /\ \A c \in Call : step[c] \in {"count", "insert"} =>
       \A r \in master, i \in DOMAIN list[c] :
         r.id \in checked[c] /\ r.order = list[c][i].order => Renumbered(r.id)
  /\ \A r, s \in master : r.order = s.order /\ r.id # s.id =>
       Unseen(r, s, "past") \/ Renumbered(r.id) \/ Renumbered(s.id)

\* A code in use was picked; after the details of a deletion are gone, a
\* detail has one of its codes because the code was given or written again.
PickInv ==
  /\ \A c \in Call : step[c] \in Named =>
       \A k \in todo[c] : \E i \in picked \cap Ids(ever) : k \in Names(i)
  /\ \A c \in Call : step[c] = "delete_masters" =>
       \A d \in detail : d.code \in todo[c] => Recoded(d.id) \/ Shares(d.id)
  /\ DetailsHaveOrder
  /\ OnlyPickedChange

Of(f, R)    == {r \in R : r.factory = f}
Given(f, R) == {r \in R : r.given[1] = f}

\* As long as a factory keeps its orders, whoever counts a row given a code of
\* it counts what the row has counted: what is committed is closed, and so is
\* what is committed or in one transaction.
Closed(f) ==
  /\ \A r \in Given(f, Committed) : r.after \subseteq Ids(Of(f, Committed))
  /\ \A c \in Call : \A r \in Given(f, own[c]) : r.after \subseteq Ids(Of(f, Visible(c)))
  /\ \A r, s \in Given(f, Rows) : r.id \in s.after => r.after \subseteq s.after

Counting(f) ==
  \A c \in Call : step[c] = "insert" /\ Head(list[c]).factory = f =>
    /\ counted[c] \subseteq Ids(Of(f, Visible(c)))
    /\ \A r \in Given(f, Rows) : r.id \in counted[c] => r.after \subseteq counted[c]

CountInv ==
  /\ \A r \in Rows : r.given[3] = Cardinality(r.after) + 1
  /\ \A f \in Factory \ lost : Closed(f) /\ Counting(f)

-----------------------------------------------------------------------------
(* The steps, grouped by what they leave alone.                            *)

\* What a rollback leaves alone.
RollbackFrame ==
  /\ UNCHANGED <<detail, changed, last, month, versioned, asked, history>>
  /\ faults' \in {faults, faults + 1}

\* A request picks orders, one of them if it approves or edits.
Picks(c) ==
  \E R \in SUBSET Committed, s \in {"find", "update", "edit", "delete_details"} :
    Pick(c, R, s) /\ (s \in {"find", "edit"} => \A q, r \in R : q = r)

\* Both updates of dv_transferordermst.
Writes(c) ==
  /\ step[c] \in {"approve", "update"} /\ ~Blocked(c)
  /\ \E k \in todo[c], b \in Body : Write(k, b)
  /\ \/ Answer(c)
     \/ step[c] = "update" /\ \E k \in todo[c] : ItemDone(c, k)
  /\ UNCHANGED <<detail, last, own, outside, noted, picked>>

Asks(c) == \E f \in Factory, L \in Lists : Create(c, f, L)

LEMMA NextCases ==
  ASSUME [Next]_vars
  PROVE  \/ \E c \in Call :
              \/ Asks(c) \/ Check(c) \/ Count(c) \/ Insert(c) \/ InsertDetails(c)
              \/ Rollback(c) /\ RollbackFrame
              \/ Picks(c) \/ Find(c) \/ Writes(c) \/ FailItem(c)
              \/ EditDetails(c) \/ DeleteDetails(c) \/ DeleteMasters(c)
         \/ NextMonth \/ UNCHANGED vars
<1>1. ASSUME NEW c \in Call, Request(c) PROVE Asks(c) \/ Picks(c)
  <2>1. \A r, f : r \in List(f) => {r} \in SUBSET Committed
    BY DEF List
  <2>2. \A f : SUBSET List(f) \subseteq SUBSET Committed
    BY DEF List
  <2>3. \A f \in Company, L \in Lists : Create(c, f, L) => Asks(c)
    BY TransferAssumption DEF Asks
  <2>4. \A R \in SUBSET Committed : Delete(c, R) \/ UpdateMulti(c, R) => Picks(c)
    BY DEF Delete, UpdateMulti, Picks
  <2>5. \A r : {r} \in SUBSET Committed /\ (Approve(c, r) \/ UpdateDetail(c, r)) => Picks(c)
    <3> SUFFICES ASSUME NEW r, {r} \in SUBSET Committed, Approve(c, r) \/ UpdateDetail(c, r) PROVE Picks(c)
      OBVIOUS
    <3>1. \A p, q \in {r} : p = q
      OBVIOUS
    <3> QED
      BY <3>1 DEF Approve, UpdateDetail, Picks
  <2> QED
    BY <1>1, <2>1, <2>2, <2>3, <2>4, <2>5 DEF Request
<1>2. \A c \in Call : Victim(c) \/ Fail(c) => Rollback(c) /\ RollbackFrame
  BY DEF Victim, MayBeVictim, Fail, outside, history, RollbackFrame
<1>3. \A c \in Call : WriteApproval(c) \/ WriteItem(c) => Writes(c)
  BY DEF WriteApproval, WriteItem, Writes
<1> QED
  BY <1>1, <1>2, <1>3 DEF Next, Work

\* What ending a request, or an item of it, does to its local variables.
Same4(c) ==
  \A d \in Call \ {c} : /\ step'[d] = step[d] /\ list'[d] = list[d] /\ todo'[d] = todo[d]
                        /\ checked'[d] = checked[d] /\ counted'[d] = counted[d]
Ends(c) ==
  /\ step'[c] = "idle" /\ list'[c] = <<>> /\ todo'[c] = {} /\ checked'[c] = {} /\ counted'[c] = {}
GoesOnWith(c) ==
  /\ step'[c] = step[c] /\ list'[c] = list[c] /\ checked'[c] = checked[c] /\ counted'[c] = counted[c]
  /\ todo'[c] \subseteq todo[c] /\ todo'[c] # {}
Locals ==
  /\ step' \in [Call -> Steps] /\ list' \in [Call -> Seq(Item)] /\ todo' \in [Call -> SUBSET Codes]
  /\ checked' \in [Call -> SUBSET Nat] /\ counted' \in [Call -> SUBSET Nat]

LEMMA AnswerEnds == ASSUME TypeOK, NEW c \in Call, Answer(c) PROVE Same4(c) /\ Ends(c) /\ Locals
<1>1. <<>> \in Seq(Item)
  OBVIOUS
<1>2. Locals
  BY <1>1 DEF Answer, Goto, TypeOK, Locals, Steps
<1> QED
  BY <1>2 DEF Answer, Goto, TypeOK, Same4, Ends

LEMMA ItemEnds ==
  ASSUME TypeOK, NEW c \in Call, NEW k \in todo[c], ItemDone(c, k)
  PROVE  Same4(c) /\ (Ends(c) \/ GoesOnWith(c)) /\ Locals
<1>1. CASE todo[c] = {k}
  BY <1>1, AnswerEnds DEF ItemDone
<1>2. CASE todo[c] # {k}
  <2>1. todo' = [todo EXCEPT ![c] = @ \ {k}] /\ UNCHANGED <<step, list, checked, counted>>
    BY <1>2 DEF ItemDone
  <2>2. todo[c] \ {k} # {}
    BY <1>2
  <2> QED
    BY <2>1, <2>2 DEF TypeOK, Same4, GoesOnWith, Locals
<1> QED
  BY <1>1, <1>2

\* The new list of a create.
LEMMA Listed ==
  ASSUME NEW f \in Factory, NEW L \in Lists, NEW M, M = [i \in DOMAIN L |-> [factory |-> f, order |-> L[i]]]
  PROVE  M \in Seq(Item) /\ M # <<>> /\ Len(L) \in Nat
<1>1. PICK n \in 1..ListLimit : L \in [1..n -> Order]
  BY DEF Lists
<1>2. n \in Nat /\ n # 0
  BY TransferAssumption
<1>3. M \in [1..n -> Item]
  BY <1>1 DEF Item
<1>4. M \in Seq(Item) /\ L \in Seq(Order)
  BY <1>1, <1>2, <1>3, SeqDef
<1>5. M # <<>>
  BY <1>1, <1>2
<1> QED
  BY <1>4, <1>5, LenProperties

\* The list when its first item is inserted.
LEMMA HeadTail ==
  ASSUME TypeOK, NEW c \in Call, list[c] # <<>>
  PROVE  /\ Head(list[c]) \in Item /\ Tail(list[c]) \in Seq(Item)
         /\ 1 \in DOMAIN list[c] /\ Head(list[c]) = list[c][1]
         /\ Len(list[c]) # 1 => Tail(list[c]) # <<>>
         /\ \A i \in DOMAIN Tail(list[c]) : i + 1 \in DOMAIN list[c] /\ Tail(list[c])[i] = list[c][i + 1]
<1>1. list[c] \in Seq(Item)
  BY DEF TypeOK
<1>2. PICK s \in Seq(Item) : s = list[c] /\ s # <<>>
  BY <1>1
<1>3. Head(s) \in Item /\ Tail(s) \in Seq(Item) /\ Len(Tail(s)) = Len(s) - 1
      /\ \A i \in 1..Len(Tail(s)) : Tail(s)[i] = s[i + 1]
  BY <1>2, HeadTailProperties
<1>4. Len(s) \in Nat /\ DOMAIN s = 1..Len(s) /\ DOMAIN Tail(s) = 1..Len(Tail(s)) /\ Len(s) # 0
  BY <1>2, <1>3, LenProperties, EmptySeq
<1>5. Head(s) = s[1]
  BY <1>2
<1>6. Len(s) # 1 => Tail(s) # <<>>
  <2> SUFFICES ASSUME Len(s) # 1, Tail(s) = <<>> PROVE FALSE
    OBVIOUS
  <2>1. Len(Tail(s)) = 0
    BY <1>2, EmptySeq
  <2> QED
    BY <1>3, <1>4, <2>1
<1> QED
  BY <1>2, <1>3, <1>4, <1>5, <1>6

-----------------------------------------------------------------------------
(* Types and identities.                                                   *)

LEMMA CommittedIs == Committed \subseteq master /\ \A c \in Call : Committed \cap own[c] = {}
BY DEF Committed, Uncommitted

LEMMA UncommittedOf == \A r : r \in Uncommitted <=> \E d \in Call : r \in own[d]
BY DEF Uncommitted

LEMMA IdsBounded ==
  ASSUME IdInv, NEW R \in SUBSET Rows
  PROVE  Ids(R) \subseteq 1..last
BY DEF IdInv, Ids

LEMMA CountedFinite == ASSUME IdInv, TypeOK, NEW c \in Call PROVE Cardinality(counted[c]) \in Nat
<1>1. IsFiniteSet(1..last)
  BY FS_Interval DEF TypeOK
<1> QED
  BY <1>1, FS_Subset, FS_CardinalityType DEF IdInv

\* The row an insert adds.
LEMMA NewRowIs ==
  ASSUME TypeOK, Shape, IdInv, NEW c \in Call, step[c] = "insert", NEW n, n = NewRow(c)
  PROVE  /\ n \in Row /\ n.id = last + 1 /\ n.past = checked[c] /\ n.after = counted[c]
         /\ n.factory = Head(list[c]).factory /\ n.order = Head(list[c]).order
         /\ n.given[1] = n.factory /\ n.given[3] = Cardinality(n.after) + 1
<1>1. Head(list[c]) \in Item
  BY HeadTail DEF Shape
<1>2. Cardinality(counted[c]) \in Nat /\ last \in Nat /\ month \in Nat /\ checked[c] \subseteq Nat /\ counted[c] \subseteq Nat
  BY CountedFinite DEF TypeOK
<1>3. PICK k : k = <<Head(list[c]).factory, month, Cardinality(counted[c]) + 1>>
  OBVIOUS
<1>4. k \in Codes /\ k[1] = Head(list[c]).factory /\ k[3] = Cardinality(counted[c]) + 1
  BY <1>1, <1>2, <1>3 DEF Codes, Item
<1>5. n = [id |-> last + 1, factory |-> Head(list[c]).factory, order |-> Head(list[c]).order, code |-> k,
           given |-> k, past |-> checked[c], after |-> counted[c]]
  BY <1>3 DEF NewRow, NextRow
<1> QED
  BY <1>1, <1>2, <1>4, <1>5 DEF Row, Item

LEMMA WrittenIs ==
  ASSUME NEW r \in Row, NEW b \in Body
  PROVE  Written(r, b) \in Row /\ Kin(r, Written(r, b))
<1>1. b \in [factory : Factory \cup {Same}, order : Order \cup {Same}, code : Codes \cup {Same}]
  BY TransferAssumption
<1>2. Or(b.factory, r.factory) \in Factory /\ Or(b.order, r.order) \in Order /\ Or(b.code, r.code) \in Codes
  BY <1>1 DEF Or, Row
<1>3. Written(r, b) = [r EXCEPT !.factory = Or(b.factory, r.factory), !.order = Or(b.order, r.order),
                                !.code = Or(b.code, r.code)]
  BY DEF Written
<1> QED
  BY <1>2, <1>3 DEF Row, Kin

\* What an update of dv_transferordermst writes: some rows of one code k, each
\* to a version of it.
Rewrites(k, b) ==
  LET R == {r \in master : r.code = k}
      W == {Written(r, b) : r \in R}
  IN  /\ master' = (master \ R) \cup W /\ ever' = ever \cup W
      /\ changed' = changed \cup Ids(R)
      /\ lost' = lost \cup {r.factory : r \in {s \in R : Written(s, b).factory # s.factory}}
      /\ Ids(W) = Ids(R) /\ W \subseteq Row

LEMMA WritesIs ==
  ASSUME TypeOK, Shape, TxnInv, NEW c \in Call, Writes(c)
  PROVE  /\ \E k \in todo[c], b \in Body : Rewrites(k, b)
         /\ master \subseteq ever /\ Uncommitted = {} /\ \A d \in Call : own[d] = {}
<1>1. PICK k \in todo[c], b \in Body : Write(k, b)
  BY DEF Writes
<1>2. own[c] = {} /\ Uncommitted = {} /\ \A d \in Call : own[d] = {}
  BY DEF Writes, Shape, Blocked, Uncommitted
<1>3. master \subseteq ever
  BY <1>2 DEF TxnInv
<1> DEFINE R == {r \in master : r.code = k}
           W == {Written(r, b) : r \in R}
<1>4. \A r \in R : Written(r, b) \in Row /\ Written(r, b).id = r.id
  BY WrittenIs DEF TypeOK, Kin
<1>5. Ids(W) = Ids(R) /\ W \subseteq Row
  BY <1>4 DEF Ids
<1> HIDE DEF Ids
<1>6. /\ master' = (master \ R) \cup W /\ ever' = ever \cup W
      /\ changed' = changed \cup Ids(R)
      /\ lost' = lost \cup {r.factory : r \in {s \in R : Written(s, b).factory # s.factory}}
  BY <1>1 DEF Write
<1> HIDE DEF R, W
<1>7. Rewrites(k, b)
  BY <1>5, <1>6 DEF R, W, Rewrites
<1> QED
  BY <1>2, <1>3, <1>7

LEMMA StepType == TypeOK /\ Shape /\ IdInv /\ TxnInv /\ [Next]_vars => TypeOK'
<1> SUFFICES ASSUME TypeOK, Shape, IdInv, TxnInv, [Next]_vars PROVE TypeOK'
  OBVIOUS
<1> USE DEF tables, request, outside, history, RollbackFrame
<1>1. ASSUME NEW c \in Call, Asks(c) PROVE TypeOK'
  <2>1. PICK f \in Factory, L \in Lists : Create(c, f, L)
    BY <1>1 DEF Asks
  <2>2. PICK M : M = [i \in DOMAIN L |-> [factory |-> f, order |-> L[i]]]
    OBVIOUS
  <2>3. M \in Seq(Item) /\ Len(L) \in Nat
    BY <2>2, Listed
  <2>4. list' = [list EXCEPT ![c] = M] /\ asked' = asked + Len(L) /\ step' = [step EXCEPT ![c] = "check"]
    BY <2>1, <2>2 DEF Create, Free, Goto
  <2>5. list' \in [Call -> Seq(Item)] /\ step' \in [Call -> Steps] /\ asked' \in Nat
    BY <2>3, <2>4 DEF TypeOK, Steps
  <2> QED
    BY <2>1, <2>5 DEF Create, TypeOK
<1>2. ASSUME NEW c \in Call, Check(c) PROVE TypeOK'
  <2>1. Ids(Committed) \subseteq Nat
    BY CommittedIs DEF TypeOK, Row, Ids
  <2>2. CASE Existing(c)
    BY <1>2, <2>2, AnswerEnds DEF Check, TypeOK, Locals
  <2>3. CASE ~Existing(c)
    BY <1>2, <2>1, <2>3 DEF Check, Goto, TypeOK, Steps
  <2> QED
    BY <2>2, <2>3
<1>3. ASSUME NEW c \in Call, Count(c) PROVE TypeOK'
  <2>1. Ids({r \in Visible(c) : r.factory = Head(list[c]).factory}) \subseteq Nat
    BY CommittedIs DEF TypeOK, Row, Ids, Visible
  <2> QED
    BY <1>3, <2>1 DEF Count, Goto, TypeOK, Steps
<1>4. ASSUME NEW c \in Call, Insert(c) PROVE TypeOK'
  <2>1. NewRow(c) \in Row
    BY <1>4, NewRowIs DEF Insert
  <2>2. Tail(list[c]) \in Seq(Item)
    BY <1>4, HeadTail DEF Shape, Insert
  <2> QED
    BY <1>4, <2>1, <2>2 DEF Insert, Goto, TypeOK, Steps
<1>5. ASSUME NEW c \in Call, InsertDetails(c) PROVE TypeOK'
  <2>1. DetailsOf(own[c]) \subseteq Detail
    BY DEF DetailsOf, Detail, TypeOK, Row
  <2>2. Locals
    BY <1>5, AnswerEnds DEF InsertDetails
  <2> QED
    BY <1>5, <2>1, <2>2 DEF InsertDetails, TypeOK, Locals
<1>6. ASSUME NEW c \in Call, Rollback(c), RollbackFrame PROVE TypeOK'
  BY <1>6, AnswerEnds DEF Rollback, TypeOK, Locals
<1>7. ASSUME NEW c \in Call, Picks(c) PROVE TypeOK'
  <2>1. PICK R \in SUBSET Committed, s \in {"find", "update", "edit", "delete_details"} : Pick(c, R, s)
    BY <1>7 DEF Picks
  <2>2. {r.code : r \in R} \subseteq Codes
    BY CommittedIs DEF TypeOK, Row
  <2>3. Ids(R) \subseteq 1..last /\ Ids(R) \subseteq Nat
    BY <2>1, CommittedIs, IdsBounded DEF Rows, TypeOK
  <2>4. Cardinality(Ids(R)) \in Nat
    <3>1. IsFiniteSet(1..last)
      BY FS_Interval DEF TypeOK
    <3> QED
      BY <2>3, <3>1, FS_Subset, FS_CardinalityType
  <2> HIDE DEF Ids
  <2>5. picked' = picked \cup Ids(R) /\ asked' = asked + Cardinality(Ids(R))
    BY <2>1 DEF Pick
  <2>6. step' \in [Call -> Steps] /\ todo' \in [Call -> SUBSET Codes]
    BY <2>1, <2>2 DEF Pick, Free, Goto, TypeOK, Steps
  <2>7. picked' \subseteq Nat /\ asked' \in Nat
    <3>1. picked \subseteq Nat /\ asked \in Nat
      BY DEF TypeOK
    <3>2. asked' \in Nat
      BY <2>4, <2>5, <3>1
    <3>3. picked' \subseteq Nat
      BY <2>3, <2>5, <3>1
    <3> QED
      BY <3>2, <3>3
  <2> QED
    BY <2>1, <2>6, <2>7 DEF Pick, TypeOK
<1>8. ASSUME NEW c \in Call, Find(c) PROVE TypeOK'
  <2>1. CASE Answer(c)
    BY <1>8, <2>1, AnswerEnds DEF Find, TypeOK, Locals
  <2>2. CASE Goto(c, "approve") /\ UNCHANGED <<list, todo, checked, counted>>
    BY <1>8, <2>2 DEF Find, Goto, TypeOK, Steps
  <2> QED
    BY <1>8, <2>1, <2>2 DEF Find
<1>9. ASSUME NEW c \in Call, Writes(c) PROVE TypeOK'
  <2>1. PICK k \in todo[c], b \in Body : Rewrites(k, b)
    BY <1>9, WritesIs
  <2>2. master' \subseteq Row /\ ever' \subseteq Row
    BY <2>1 DEF TypeOK, Rewrites
  <2>3. changed' \subseteq Nat /\ lost' \subseteq Factory
    BY <2>1 DEF TypeOK, Row, Ids, Rewrites
  <2>4. Locals
    BY <1>9, AnswerEnds, ItemEnds DEF Writes
  <2> QED
    BY <1>9, <2>2, <2>3, <2>4 DEF Writes, TypeOK, Locals
<1>10. ASSUME NEW c \in Call, FailItem(c) PROVE TypeOK'
  <2>1. Locals
    BY <1>10, ItemEnds DEF FailItem
  <2> QED
    BY <1>10, <2>1 DEF FailItem, TypeOK, Locals
<1>11. ASSUME NEW c \in Call, EditDetails(c) PROVE TypeOK'
  <2>1. PICK b \in Body :
         LET D == {d \in detail : d.code \in todo[c]}
             E == {[d EXCEPT !.code = Or(b.code, @)] : d \in D}
         IN  /\ detail' = (detail \ D) \cup E
             /\ noted' = noted \cup E
             /\ changed' = changed \cup Ids(D)
    BY <1>11 DEF EditDetails
  <2>2. \A d \in detail : [d EXCEPT !.code = Or(b.code, d.code)] \in Detail
    <3>1. \A d \in detail : Or(b.code, d.code) \in Codes
      BY TransferAssumption DEF Or, TypeOK, Detail
    <3> QED
      BY <3>1 DEF TypeOK, Detail
  <2>3. detail' \subseteq Detail /\ noted' \subseteq Detail /\ changed' \subseteq Nat
    BY <2>1, <2>2 DEF TypeOK, Detail, Ids
  <2>4. Locals
    BY <1>11, AnswerEnds DEF EditDetails
  <2> QED
    BY <1>11, <2>3, <2>4 DEF EditDetails, TypeOK, Locals
<1>12. ASSUME NEW c \in Call, DeleteDetails(c) PROVE TypeOK'
  <2>1. CASE Answer(c)
    BY <1>12, <2>1, AnswerEnds DEF DeleteDetails, TypeOK, Locals
  <2>2. CASE Goto(c, "delete_masters") /\ UNCHANGED <<list, todo, checked, counted>>
    BY <1>12, <2>2 DEF DeleteDetails, Goto, TypeOK, Steps
  <2> QED
    BY <1>12, <2>1, <2>2 DEF DeleteDetails
<1>13. ASSUME NEW c \in Call, DeleteMasters(c) PROVE TypeOK'
  <2>1. {r.factory : r \in WithCode(master, todo[c])} \subseteq Factory
    BY DEF TypeOK, Row, WithCode
  <2>2. Locals
    BY <1>13, AnswerEnds DEF DeleteMasters
  <2> QED
    BY <1>13, <2>1, <2>2 DEF DeleteMasters, TypeOK, Locals
<1>14. CASE NextMonth \/ UNCHANGED vars
  <2>1. month' \in Nat
    BY <1>14 DEF NextMonth, vars, TypeOK
  <2>2. UNCHANGED <<tables, request, versioned, asked, faults, history>>
    BY <1>14 DEF NextMonth, vars
  <2> QED
    BY <2>1, <2>2 DEF TypeOK
<1> QED
  BY <1>1, <1>2, <1>3, <1>4, <1>5, <1>6, <1>7, <1>8, <1>9, <1>10, <1>11, <1>12, <1>13, <1>14, NextCases

LEMMA ShapeEnds ==
  ASSUME Shape, NEW c \in Call, own'[c] = {}, \A d \in Call \ {c} : own'[d] = own[d], Same4(c),
         Ends(c) \/ (GoesOnWith(c) /\ step[c] = "update")
  PROVE  Shape'
BY DEF Shape, Same4, Ends, GoesOnWith, Named

LEMMA StepShape == TypeOK /\ Shape /\ TxnInv /\ [Next]_vars => Shape'
<1> SUFFICES ASSUME TypeOK, Shape, TxnInv, [Next]_vars PROVE Shape'
  OBVIOUS
<1> USE DEF tables, request, outside, history, RollbackFrame
<1>1. ASSUME NEW c \in Call, Asks(c) PROVE Shape'
  <2>1. PICK f \in Factory, L \in Lists : Create(c, f, L)
    BY <1>1 DEF Asks
  <2>2. PICK M : M = [i \in DOMAIN L |-> [factory |-> f, order |-> L[i]]]
    OBVIOUS
  <2>3. M # <<>>
    BY <2>2, Listed
  <2>4. list' = [list EXCEPT ![c] = M] /\ step' = [step EXCEPT ![c] = "check"] /\ own' = own /\ todo' = todo
    BY <2>1, <2>2 DEF Create, Free, Goto
  <2>5. own[c] = {}
    BY <2>1 DEF Create, Free, Shape
  <2> QED
    BY <2>3, <2>4, <2>5 DEF Shape, TypeOK, Named
<1>2. ASSUME NEW c \in Call, Check(c) PROVE Shape'
  <2>1. own' = own /\ own[c] = {}
    BY <1>2 DEF Check, Shape
  <2>2. CASE Existing(c)
    BY <1>2, <2>1, <2>2, AnswerEnds, ShapeEnds DEF Check
  <2>3. CASE ~Existing(c)
    BY <1>2, <2>1, <2>3 DEF Check, Goto, TypeOK, Shape, Named
  <2> QED
    BY <2>2, <2>3
<1>3. ASSUME NEW c \in Call, Count(c) PROVE Shape'
  BY <1>3 DEF Count, Goto, TypeOK, Shape, Named
<1>4. ASSUME NEW c \in Call, Insert(c) PROVE Shape'
  <2>1. PICK T : T = Tail(list[c])
    OBVIOUS
  <2>2. Len(list[c]) # 1 => T # <<>>
    BY <1>4, <2>1, HeadTail DEF Insert, Shape
  <2>3. /\ list' = [list EXCEPT ![c] = T] /\ todo' = todo /\ own' = [own EXCEPT ![c] = @ \cup {NewRow(c)}]
        /\ step' = [step EXCEPT ![c] = IF Len(list[c]) = 1 THEN "details" ELSE "count"]
    BY <1>4, <2>1 DEF Insert, Goto
  <2> QED
    BY <2>2, <2>3 DEF TypeOK, Shape, Named
<1>5. ASSUME NEW c \in Call, InsertDetails(c) PROVE Shape'
  <2>1. own'[c] = {} /\ \A d \in Call \ {c} : own'[d] = own[d]
    BY <1>5 DEF InsertDetails, TypeOK
  <2> QED
    BY <1>5, <2>1, AnswerEnds, ShapeEnds DEF InsertDetails
<1>6. ASSUME NEW c \in Call, Rollback(c), RollbackFrame PROVE Shape'
  <2>1. own'[c] = {} /\ \A d \in Call \ {c} : own'[d] = own[d]
    BY <1>6 DEF Rollback, TypeOK
  <2> QED
    BY <1>6, <2>1, AnswerEnds, ShapeEnds DEF Rollback
<1>7. ASSUME NEW c \in Call, Picks(c) PROVE Shape'
  <2>1. PICK R \in SUBSET Committed, s \in {"find", "update", "edit", "delete_details"} :
          Pick(c, R, s) /\ (s \in {"find", "edit"} => \A q, r \in R : q = r)
    BY <1>7 DEF Picks
  <2>2. PICK C : C = {r.code : r \in R}
    OBVIOUS
  <2>3. C # {} /\ (s \in {"find", "edit"} => \A k, l \in C : k = l)
    BY <2>1, <2>2 DEF Pick
  <2>4. todo' = [todo EXCEPT ![c] = C] /\ step' = [step EXCEPT ![c] = s] /\ own' = own /\ list' = list /\ own[c] = {}
    BY <2>1, <2>2 DEF Pick, Free, Goto, Shape
  <2> QED
    BY <2>3, <2>4 DEF Shape, TypeOK, Named
<1>8. ASSUME NEW c \in Call, Find(c) PROVE Shape'
  <2>1. own' = own /\ own[c] = {}
    BY <1>8 DEF Find, Shape
  <2>2. CASE Answer(c)
    BY <2>1, <2>2, AnswerEnds, ShapeEnds
  <2>3. CASE Goto(c, "approve") /\ UNCHANGED <<list, todo, checked, counted>>
    BY <1>8, <2>1, <2>3 DEF Find, Goto, TypeOK, Shape, Named
  <2> QED
    BY <1>8, <2>2, <2>3 DEF Find
<1>9. ASSUME NEW c \in Call, Writes(c) PROVE Shape'
  <2>1. own' = own /\ own[c] = {}
    BY <1>9 DEF Writes, Shape
  <2> QED
    BY <1>9, <2>1, AnswerEnds, ItemEnds, ShapeEnds DEF Writes
<1>10. ASSUME NEW c \in Call, FailItem(c) PROVE Shape'
  <2>1. own' = own /\ own[c] = {}
    BY <1>10 DEF FailItem, Shape
  <2> QED
    BY <1>10, <2>1, ItemEnds, ShapeEnds DEF FailItem
<1>11. ASSUME NEW c \in Call, EditDetails(c) PROVE Shape'
  <2>1. own' = own /\ own[c] = {}
    BY <1>11 DEF EditDetails, Shape
  <2> QED
    BY <1>11, <2>1, AnswerEnds, ShapeEnds DEF EditDetails
<1>12. ASSUME NEW c \in Call, DeleteDetails(c) PROVE Shape'
  <2>1. own' = own /\ own[c] = {}
    BY <1>12 DEF DeleteDetails, Shape
  <2>2. CASE Answer(c)
    BY <2>1, <2>2, AnswerEnds, ShapeEnds
  <2>3. CASE Goto(c, "delete_masters") /\ UNCHANGED <<list, todo, checked, counted>>
    BY <1>12, <2>1, <2>3 DEF DeleteDetails, Goto, TypeOK, Shape, Named
  <2> QED
    BY <1>12, <2>2, <2>3 DEF DeleteDetails
<1>13. ASSUME NEW c \in Call, DeleteMasters(c) PROVE Shape'
  <2>1. own' = own /\ own[c] = {}
    BY <1>13 DEF DeleteMasters, Shape
  <2> QED
    BY <1>13, <2>1, AnswerEnds, ShapeEnds DEF DeleteMasters
<1>14. CASE NextMonth \/ UNCHANGED vars
  BY <1>14 DEF NextMonth, vars, Shape
<1> QED
  BY <1>1, <1>2, <1>3, <1>4, <1>5, <1>6, <1>7, <1>8, <1>9, <1>10, <1>11, <1>12, <1>13, <1>14, NextCases

\* A step that does not insert adds versions of rows there are only.
NoNewRow == \A r \in Rows' : \E q \in Rows : Kin(q, r)

\* Steps that read, pick or give up.
Still == UNCHANGED <<master, detail, changed, last, own, ever, noted, lost>>

LEMMA StillSteps ==
  ASSUME NEW c \in Call, Asks(c) \/ Check(c) \/ Count(c) \/ Picks(c) \/ Find(c) \/ FailItem(c)
  PROVE  Still
BY DEF Asks, Picks, Create, Check, Count, Pick, Find, FailItem, Still, tables, history

LEMMA MonthStill == ASSUME NextMonth \/ UNCHANGED vars PROVE Still /\ UNCHANGED <<request, picked>>
BY DEF NextMonth, vars, Still, tables, request, history

LEMMA StepRows ==
  ASSUME TypeOK, Shape, IdInv, TxnInv, [Next]_vars
  PROVE  NoNewRow \/ \E c \in Call : Insert(c)
<1> USE DEF Rows, NoNewRow
<1>0. \A r : Kin(r, r)
  BY DEF Kin
<1>1. Rows' \subseteq Rows => NoNewRow
  BY <1>0
<1>2. ASSUME NEW c \in Call, Writes(c) PROVE NoNewRow
  <2>1. PICK k \in todo[c], b \in Body : Rewrites(k, b)
    BY <1>2, WritesIs
  <2>2. \A r \in master : Kin(r, Written(r, b))
    BY WrittenIs DEF TypeOK
  <2> QED
    BY <1>0, <2>1, <2>2 DEF Rewrites
<1>3. ASSUME NEW c \in Call, InsertDetails(c) \/ (Rollback(c) /\ RollbackFrame) PROVE Rows' \subseteq Rows
  BY <1>3 DEF InsertDetails, Rollback, RollbackFrame, history, TxnInv
<1>4. ASSUME NEW c \in Call, EditDetails(c) \/ DeleteDetails(c) \/ DeleteMasters(c) PROVE Rows' \subseteq Rows
  BY <1>4 DEF EditDetails, DeleteDetails, DeleteMasters, history
<1>5. Still => Rows' \subseteq Rows
  BY DEF Still
<1> QED
  BY <1>1, <1>2, <1>3, <1>4, <1>5, StillSteps, MonthStill, NextCases

LEMMA StepIds == TypeOK /\ Shape /\ IdInv /\ TxnInv /\ [Next]_vars => IdInv'
<1> SUFFICES ASSUME TypeOK, Shape, IdInv, TxnInv, [Next]_vars PROVE IdInv'
  OBVIOUS
<1>1. ASSUME NEW c \in Call, Insert(c) PROVE IdInv'
  <2>1. PICK n : n = NewRow(c)
    OBVIOUS
  <2>2. n.id = last + 1 /\ n.past = checked[c] /\ n.after = counted[c]
    BY <1>1, <2>1, NewRowIs DEF Insert
  <2>3. /\ last' = last + 1 /\ last \in Nat /\ master' = master \cup {n} /\ Rows' = Rows \cup {n}
        /\ checked' = checked /\ counted' = counted /\ detail' = detail
    BY <1>1, <2>1 DEF Insert, Rows, TypeOK, history
  <2>4. \A r \in Rows' : r.id \in 1..last' /\ r.past \subseteq 1..last' /\ r.after \subseteq 1..(r.id - 1)
    <3>1. \A r \in Rows : r.id \in 1..last' /\ r.past \subseteq 1..last' /\ r.after \subseteq 1..(r.id - 1)
      BY <2>3 DEF IdInv
    <3>2. n.id \in 1..last' /\ n.past \subseteq 1..last' /\ n.after \subseteq 1..(n.id - 1)
      BY <2>2, <2>3 DEF IdInv
    <3> QED
      BY <2>3, <3>1, <3>2
  <2>5. \A r \in Rows : r.id # n.id
    BY <2>2, <2>3 DEF IdInv
  <2>6. \A r, s \in Rows' : r.id = s.id => Kin(r, s)
    BY <2>3, <2>5 DEF IdInv, Kin
  <2>7. \A r, s \in master' : r.id = s.id => r = s
    BY <2>3, <2>5 DEF IdInv, Rows
  <2>8. \A d \in Call : checked'[d] \subseteq 1..last' /\ counted'[d] \subseteq 1..last'
    BY <2>3 DEF IdInv
  <2> QED
    BY <2>3, <2>4, <2>6, <2>7, <2>8 DEF IdInv
<1>2. ASSUME NoNewRow, last' = last,
             \A r, s \in master' : r.id = s.id => r = s, \A d, e \in detail' : d.id = e.id => d = e,
             \A c \in Call : checked'[c] \subseteq 1..last /\ counted'[c] \subseteq 1..last
      PROVE  IdInv'
  <2>1. \A r \in Rows' : r.id \in 1..last' /\ r.past \subseteq 1..last' /\ r.after \subseteq 1..(r.id - 1)
    BY <1>2 DEF IdInv, NoNewRow, Kin
  <2>2. ASSUME NEW r \in Rows', NEW s \in Rows', r.id = s.id PROVE Kin(r, s)
    <3>1. PICK p \in Rows, q \in Rows : Kin(p, r) /\ Kin(q, s)
      BY <1>2 DEF NoNewRow
    <3>2. Kin(p, q)
      BY <2>2, <3>1 DEF IdInv, Kin
    <3> QED
      BY <3>1, <3>2 DEF Kin
  <2> QED
    BY <1>2, <2>1, <2>2 DEF IdInv
<1>3. ASSUME NEW c \in Call, Same4(c), Ends(c) \/ GoesOnWith(c)
      PROVE  \A d \in Call : checked'[d] \subseteq 1..last /\ counted'[d] \subseteq 1..last
  BY <1>3 DEF IdInv, Same4, Ends, GoesOnWith
<1>4. ASSUME Still, NoNewRow, \A c \in Call : checked'[c] \subseteq 1..last /\ counted'[c] \subseteq 1..last
      PROVE  IdInv'
  BY <1>2, <1>4 DEF Still, IdInv
<1>5. ASSUME NEW c \in Call, Asks(c) \/ Picks(c) PROVE checked' = checked /\ counted' = counted
  BY <1>5 DEF Asks, Picks, Create, Pick
<1>6. ASSUME NEW c \in Call, Check(c)
      PROVE  \A d \in Call : checked'[d] \subseteq 1..last /\ counted'[d] \subseteq 1..last
  <2>1. Ids(Committed) \subseteq 1..last
    BY CommittedIs, IdsBounded DEF Rows
  <2>2. CASE Existing(c)
    BY <1>3, <1>6, <2>2, AnswerEnds DEF Check
  <2>3. CASE ~Existing(c)
    <3>1. checked' = [checked EXCEPT ![c] = Ids(Committed)] /\ counted' = counted
      BY <1>6, <2>3 DEF Check
    <3> HIDE DEF Ids
    <3> QED
      BY <2>1, <3>1 DEF IdInv, TypeOK
  <2> QED
    BY <2>2, <2>3
<1>7. ASSUME NEW c \in Call, Count(c)
      PROVE  \A d \in Call : checked'[d] \subseteq 1..last /\ counted'[d] \subseteq 1..last
  <2> DEFINE S == {r \in Visible(c) : r.factory = Head(list[c]).factory}
  <2>1. S \subseteq Rows
    BY CommittedIs DEF Visible, TxnInv, Rows
  <2>2. Ids(S) \subseteq 1..last
    BY <2>1, IdsBounded
  <2>3. counted' = [counted EXCEPT ![c] = Ids(S)] /\ checked' = checked
    BY <1>7 DEF Count
  <2> HIDE DEF S
  <2> QED
    BY <2>2, <2>3 DEF IdInv, TypeOK
<1>8. ASSUME NEW c \in Call, Find(c)
      PROVE  \A d \in Call : checked'[d] \subseteq 1..last /\ counted'[d] \subseteq 1..last
  <2>1. Answer(c) \/ UNCHANGED <<checked, counted>>
    BY <1>8 DEF Find
  <2> QED
    BY <1>3, <2>1, AnswerEnds DEF IdInv
<1>9. ASSUME NEW c \in Call, FailItem(c)
      PROVE  \A d \in Call : checked'[d] \subseteq 1..last /\ counted'[d] \subseteq 1..last
  BY <1>3, <1>9, ItemEnds DEF FailItem
<1>10. ASSUME NEW c \in Call, InsertDetails(c), NoNewRow PROVE IdInv'
  <2>1. master' = master /\ last' = last /\ detail' = detail \cup DetailsOf(own[c])
    BY <1>10 DEF InsertDetails
  <2>2. \A d \in DetailsOf(own[c]) : \E r \in own[c] : d = [id |-> r.id, code |-> r.code]
    BY DEF DetailsOf
  <2>3. \A r, s \in own[c] : r.id = s.id => r = s
    BY DEF IdInv, TxnInv
  <2>4. \A d \in DetailsOf(own[c]), e \in detail : d.id # e.id
    BY <2>2 DEF TxnInv, Ids
  <2>5. \A d, e \in DetailsOf(own[c]) : d.id = e.id => d = e
    BY <2>2, <2>3
  <2>6. \A d, e \in detail' : d.id = e.id => d = e
    BY <2>1, <2>4, <2>5 DEF IdInv
  <2>7. \A d \in Call : checked'[d] \subseteq 1..last /\ counted'[d] \subseteq 1..last
    BY <1>3, <1>10, AnswerEnds DEF InsertDetails
  <2> QED
    BY <1>2, <1>10, <2>1, <2>6, <2>7 DEF IdInv
<1>11. ASSUME NEW c \in Call, Rollback(c), RollbackFrame, NoNewRow PROVE IdInv'
  <2>1. master' \subseteq master /\ last' = last /\ detail' = detail
    BY <1>11 DEF Rollback, RollbackFrame
  <2>2. \A d \in Call : checked'[d] \subseteq 1..last /\ counted'[d] \subseteq 1..last
    BY <1>3, <1>11, AnswerEnds DEF Rollback
  <2> QED
    BY <1>2, <1>11, <2>1, <2>2 DEF IdInv
<1>12. ASSUME NEW c \in Call, Writes(c), NoNewRow PROVE IdInv'
  <2>1. PICK k \in todo[c], b \in Body : Rewrites(k, b)
    BY <1>12, WritesIs
  <2>2. \A r \in master : Written(r, b).id = r.id
    BY WrittenIs DEF TypeOK, Kin
  <2>3. \A w \in master' : \E r \in master : r.id = w.id /\ w = IF r.code = k THEN Written(r, b) ELSE r
    BY <2>1, <2>2 DEF Rewrites
  <2>4. \A v, w \in master' : v.id = w.id => v = w
    BY <2>3 DEF IdInv
  <2>5. \A d \in Call : checked'[d] \subseteq 1..last /\ counted'[d] \subseteq 1..last
    BY <1>3, <1>12, AnswerEnds, ItemEnds DEF Writes
  <2>6. last' = last /\ detail' = detail
    BY <1>12 DEF Writes
  <2> QED
    BY <1>2, <1>12, <2>4, <2>5, <2>6 DEF IdInv
<1>13. ASSUME NEW c \in Call, EditDetails(c), NoNewRow PROVE IdInv'
  <2>1. PICK b \in Body :
          detail' = (detail \ {d \in detail : d.code \in todo[c]}) \cup
                    {[d EXCEPT !.code = Or(b.code, @)] : d \in {e \in detail : e.code \in todo[c]}}
    BY <1>13 DEF EditDetails
  <2>2. \A d \in detail : [d EXCEPT !.code = Or(b.code, @)].id = d.id
    BY DEF TypeOK, Detail
  <2>3. \A w \in detail' : \E d \in detail :
          d.id = w.id /\ w = IF d.code \in todo[c] THEN [d EXCEPT !.code = Or(b.code, @)] ELSE d
    BY <2>1, <2>2
  <2>4. \A v, w \in detail' : v.id = w.id => v = w
    BY <2>3 DEF IdInv
  <2>5. \A d \in Call : checked'[d] \subseteq 1..last /\ counted'[d] \subseteq 1..last
    BY <1>3, <1>13, AnswerEnds DEF EditDetails
  <2>6. last' = last /\ master' = master
    BY <1>13 DEF EditDetails
  <2> QED
    BY <1>2, <1>13, <2>4, <2>5, <2>6 DEF IdInv
<1>14. ASSUME NEW c \in Call, DeleteDetails(c) \/ DeleteMasters(c), NoNewRow PROVE IdInv'
  <2>1. master' \subseteq master /\ detail' \subseteq detail /\ last' = last
    BY <1>14 DEF DeleteDetails, DeleteMasters
  <2>2. Answer(c) \/ UNCHANGED <<checked, counted>>
    BY <1>14 DEF DeleteDetails, DeleteMasters
  <2>3. \A d \in Call : checked'[d] \subseteq 1..last /\ counted'[d] \subseteq 1..last
    BY <1>3, <2>2, AnswerEnds DEF IdInv
  <2> QED
    BY <1>2, <1>14, <2>1, <2>3 DEF IdInv
<1>15. ASSUME UNCHANGED <<checked, counted>>
       PROVE  \A d \in Call : checked'[d] \subseteq 1..last /\ counted'[d] \subseteq 1..last
  BY <1>15 DEF IdInv
<1>16. NextMonth \/ UNCHANGED vars => UNCHANGED <<checked, counted>>
  BY DEF NextMonth, vars, request
<1> QED
  BY <1>1, <1>4, <1>5, <1>6, <1>7, <1>8, <1>9, <1>10, <1>11, <1>12, <1>13, <1>14, <1>15, <1>16,
     StepRows, StillSteps, MonthStill, NextCases

LEMMA StepTxn == TypeOK /\ Shape /\ IdInv /\ TxnInv /\ [Next]_vars => TxnInv'
<1> SUFFICES ASSUME TypeOK, Shape, IdInv, TxnInv, [Next]_vars PROVE TxnInv'
  OBVIOUS
<1>1. ASSUME Still PROVE TxnInv'
  BY <1>1 DEF Still, TxnInv, Uncommitted, Ids
<1>2. ASSUME NEW c \in Call, Insert(c) PROVE TxnInv'
  <2>1. PICK n : n = NewRow(c)
    OBVIOUS
  <2>2. n.id = last + 1
    BY <1>2, <2>1, NewRowIs DEF Insert
  <2>3. /\ master' = master \cup {n} /\ ever' = ever /\ detail' = detail /\ noted' = noted
        /\ \A d \in Call : own'[d] = IF d = c THEN own[d] \cup {n} ELSE own[d]
    BY <1>2, <2>1 DEF Insert, history, TypeOK
  <2>4. \A r \in Rows : r.id # n.id
    BY <2>2 DEF IdInv, TypeOK
  <2>5. \A d \in Call : own'[d] \subseteq master' /\ Ids(own'[d]) \cap Ids(ever') = {}
    <3>1. n.id \notin Ids(ever) /\ \A d \in Call : Ids(own'[d]) \subseteq Ids(own[d]) \cup {n.id}
      BY <2>3, <2>4 DEF Rows, Ids
    <3>2. \A d \in Call : own'[d] \subseteq master'
      BY <2>3 DEF TxnInv
    <3> QED
      BY <2>3, <3>1, <3>2 DEF TxnInv
  <2>6. \A d, e \in Call : d # e => own'[d] \cap own'[e] = {}
    <3>1. \A d \in Call : n \notin own[d]
      BY <2>4 DEF TxnInv, Rows
    <3> QED
      BY <2>3, <3>1 DEF TxnInv
  <2>7. \A r \in master' : r \in ever' \/ r \in Uncommitted'
    <3>1. \A r \in master' : r \in ever' \/ \E d \in Call : r \in own'[d]
      BY <2>3, UncommittedOf DEF TxnInv
    <3> QED
      BY <3>1 DEF Uncommitted
  <2> QED
    BY <2>3, <2>5, <2>6, <2>7 DEF TxnInv, Ids
<1>3. ASSUME NEW c \in Call, InsertDetails(c) PROVE TxnInv'
  <2>1. /\ master' = master /\ ever' = ever \cup own[c]
        /\ detail' = detail \cup DetailsOf(own[c]) /\ noted' = noted \cup DetailsOf(own[c])
        /\ \A d \in Call : own'[d] = IF d = c THEN {} ELSE own[d]
    BY <1>3 DEF InsertDetails, TypeOK
  <2>2. \A d \in Call : \A r \in own'[d], s \in own[c] : r.id # s.id
    BY <2>1 DEF TxnInv, IdInv, Rows
  <2>3. \A d \in Call : own'[d] \subseteq master' /\ Ids(own'[d]) \cap Ids(ever') = {}
    BY <2>1, <2>2 DEF TxnInv, Ids
  <2>4. \A d, e \in Call : d # e => own'[d] \cap own'[e] = {}
    BY <2>1 DEF TxnInv
  <2>5. \A r \in master' : r \in ever' \/ r \in Uncommitted'
    <3>1. \A r \in master' : r \in ever' \/ \E d \in Call : r \in own'[d]
      BY <2>1, UncommittedOf DEF TxnInv
    <3> QED
      BY <3>1 DEF Uncommitted
  <2>6. detail' \subseteq noted' /\ Ids(noted') \subseteq Ids(ever')
    BY <2>1 DEF TxnInv, Ids, DetailsOf
  <2> QED
    BY <2>3, <2>4, <2>5, <2>6 DEF TxnInv
<1>4. ASSUME NEW c \in Call, Rollback(c), RollbackFrame PROVE TxnInv'
  <2>1. /\ master' = master \ own[c] /\ ever' = ever /\ detail' = detail /\ noted' = noted
        /\ \A d \in Call : own'[d] = IF d = c THEN {} ELSE own[d]
    BY <1>4 DEF Rollback, RollbackFrame, history, TypeOK
  <2>2. \A d \in Call : own'[d] \subseteq master' /\ Ids(own'[d]) \cap Ids(ever') = {}
    BY <2>1 DEF TxnInv, Ids
  <2>3. \A d, e \in Call : d # e => own'[d] \cap own'[e] = {}
    BY <2>1 DEF TxnInv
  <2>4. \A r \in master' : r \in ever' \/ r \in Uncommitted'
    <3>1. \A r \in master' : r \in ever' \/ \E d \in Call : r \in own'[d]
      BY <2>1, UncommittedOf DEF TxnInv
    <3> QED
      BY <3>1 DEF Uncommitted
  <2> QED
    BY <2>1, <2>2, <2>3, <2>4 DEF TxnInv, Ids
<1>5. ASSUME NEW c \in Call, Writes(c) PROVE TxnInv'
  <2>1. PICK k \in todo[c], b \in Body : Rewrites(k, b)
    BY <1>5, WritesIs
  <2>2. \A d \in Call : own'[d] = {}
    BY <1>5, WritesIs DEF Writes
  <2>3. master' \subseteq ever' /\ ever \subseteq ever'
    BY <1>5, <2>1, WritesIs DEF Rewrites
  <2>4. Ids(own'[c]) = {} /\ Ids({}) = {} /\ Ids(ever) \subseteq Ids(ever')
    BY <2>2, <2>3 DEF Ids
  <2> QED
    BY <1>5, <2>2, <2>3, <2>4 DEF TxnInv, Writes, Ids
<1>6. ASSUME NEW c \in Call, EditDetails(c) PROVE TxnInv'
  <2>1. PICK b \in Body :
          LET D == {d \in detail : d.code \in todo[c]}
              E == {[d EXCEPT !.code = Or(b.code, @)] : d \in D}
          IN  detail' = (detail \ D) \cup E /\ noted' = noted \cup E
    BY <1>6 DEF EditDetails
  <2> DEFINE D == {d \in detail : d.code \in todo[c]}
             E == {[d EXCEPT !.code = Or(b.code, @)] : d \in D}
  <2>2. \A e \in E : \E d \in detail : e.id = d.id
    BY DEF TypeOK, Detail
  <2>3. UNCHANGED <<master, own, ever>>
    BY <1>6 DEF EditDetails
  <2>4. detail' \subseteq detail \cup E /\ noted' = noted \cup E
    BY <2>1
  <2> HIDE DEF D, E
  <2>5. Ids(E) \subseteq Ids(noted)
    BY <2>2 DEF TxnInv, Ids
  <2>6. Ids(noted') \subseteq Ids(noted) \cup Ids(E)
    BY <2>4 DEF Ids
  <2> QED
    BY <2>3, <2>4, <2>5, <2>6 DEF TxnInv, Uncommitted
<1>7. ASSUME NEW c \in Call, DeleteDetails(c) PROVE TxnInv'
  BY <1>7 DEF DeleteDetails, history, TxnInv, Uncommitted, Ids
<1>8. ASSUME NEW c \in Call, DeleteMasters(c) PROVE TxnInv'
  <2>1. \A d \in Call : own[d] = {}
    BY <1>8 DEF DeleteMasters, Shape, Blocked
  <2>2. master' \subseteq master /\ UNCHANGED <<detail, own, ever, noted>>
    BY <1>8 DEF DeleteMasters
  <2>3. master \subseteq ever
    BY <2>1, UncommittedOf DEF TxnInv
  <2> QED
    BY <2>1, <2>2, <2>3 DEF TxnInv, Ids
<1> QED
  BY <1>1, <1>2, <1>3, <1>4, <1>5, <1>6, <1>7, <1>8, StillSteps, MonthStill, NextCases

-----------------------------------------------------------------------------
(* Order numbers.                                                          *)

\* What has been rewritten stays so.
LEMMA OnceRewritten ==
  ASSUME ever \subseteq ever', noted \subseteq noted', NEW i
  PROVE  /\ Renumbered(i) => Renumbered(i)'
         /\ Recoded(i) => Recoded(i)'
         /\ Shares(i) => Shares(i)'
         /\ Names(i) \subseteq Names(i)'
<1>1. Versions(i) \subseteq Versions(i)' /\ \A j : Names(j) \subseteq Names(j)'
  BY DEF Versions, Names
<1>2. Ids(ever) \subseteq Ids(ever')
  BY DEF Ids
<1> QED
  BY <1>1, <1>2 DEF Renumbered, Recoded, Shares

LEMMA StepHistory == ASSUME [Next]_vars PROVE ever \subseteq ever' /\ noted \subseteq noted'
<1>1. \A c \in Call : Asks(c) \/ Check(c) \/ Count(c) \/ Picks(c) \/ Find(c) \/ FailItem(c) => UNCHANGED <<ever, noted>>
  BY DEF Asks, Picks, Create, Check, Count, Pick, Find, FailItem, history
<1>2. \A c \in Call : Insert(c) \/ InsertDetails(c) \/ (Rollback(c) /\ RollbackFrame) => ever \subseteq ever' /\ noted \subseteq noted'
  BY DEF Insert, InsertDetails, RollbackFrame, history
<1>3. \A c \in Call : EditDetails(c) \/ DeleteDetails(c) \/ DeleteMasters(c) => ever \subseteq ever' /\ noted \subseteq noted'
  BY DEF EditDetails, DeleteDetails, DeleteMasters, history
<1>4. \A c \in Call : Writes(c) => ever \subseteq ever' /\ noted \subseteq noted'
  BY DEF Writes, Write
<1>5. NextMonth \/ UNCHANGED vars => UNCHANGED <<ever, noted>>
  BY DEF NextMonth, vars, history
<1> QED
  BY <1>1, <1>2, <1>3, <1>4, <1>5, NextCases

\* Steps that insert and rewrite nothing, and add nothing to what a create has
\* checked.
LEMMA OrderFrame ==
  ASSUME OrderInv, master' \subseteq master, ever \subseteq ever', noted \subseteq noted',
         \A c \in Call : step'[c] \in {"count", "insert"} =>
           step[c] \in {"count", "insert"} /\ list'[c] = list[c] /\ checked'[c] = checked[c]
  PROVE  OrderInv'
<1>1. \A i : Renumbered(i) => Renumbered(i)'
  BY OnceRewritten
<1> QED
  BY <1>1 DEF OrderInv, Unseen

LEMMA StepOrder == TypeOK /\ Shape /\ IdInv /\ TxnInv /\ OrderInv /\ [Next]_vars => OrderInv'
<1> SUFFICES ASSUME TypeOK, Shape, IdInv, TxnInv, OrderInv, [Next]_vars PROVE OrderInv'
  OBVIOUS
<1>0. ever \subseteq ever' /\ noted \subseteq noted' /\ \A i : Renumbered(i) => Renumbered(i)'
  BY StepHistory, OnceRewritten
<1>a. ASSUME NEW c \in Call, Same4(c), master' \subseteq master, Ends(c) \/ GoesOnWith(c) PROVE OrderInv'
  BY <1>0, <1>a, OrderFrame DEF Same4, Ends, GoesOnWith
<1>1. ASSUME NEW c \in Call, Asks(c) \/ Picks(c) PROVE OrderInv'
  <2>1. master' = master /\ checked' = checked
    BY <1>1 DEF Asks, Picks, Create, Pick, tables
  <2>2. \A d \in Call : step'[d] \in {"count", "insert"} => d # c /\ step'[d] = step[d] /\ list'[d] = list[d]
    BY <1>1 DEF Asks, Picks, Create, Pick, Free, Goto, TypeOK
  <2> QED
    BY <1>0, <2>1, <2>2, OrderFrame
<1>2. ASSUME NEW c \in Call, Check(c) PROVE OrderInv'
  <2>1. CASE Existing(c)
    BY <1>2, <1>a, <2>1, AnswerEnds DEF Check, tables
  <2>2. CASE ~Existing(c)
    <3>1. /\ master' = master /\ list' = list /\ checked' = [checked EXCEPT ![c] = Ids(Committed)]
          /\ \A d \in Call : d # c => step'[d] = step[d]
      BY <1>2, <2>2 DEF Check, Goto, tables, TypeOK
    <3>2. \A r \in master : r.id \in Ids(Committed) => r \in Committed
      BY CommittedIs DEF IdInv, Ids
    <3>3. \A r \in Committed : \A i \in DOMAIN list[c] : r.order # list[c][i].order
      BY <2>2 DEF Existing
    <3>4. checked'[c] = Ids(Committed) /\ \A d \in Call : d # c => checked'[d] = checked[d]
      BY <3>1 DEF TypeOK
    <3> HIDE DEF Ids
    <3> QED
      BY <1>0, <3>1, <3>2, <3>3, <3>4 DEF OrderInv, Unseen
  <2> QED
    BY <2>1, <2>2
<1>3. ASSUME NEW c \in Call, Count(c) PROVE OrderInv'
  <2>1. /\ master' = master /\ list' = list /\ checked' = checked
        /\ \A d \in Call : step'[d] \in {"count", "insert"} => step[d] \in {"count", "insert"}
    BY <1>3 DEF Count, Goto, tables, TypeOK
  <2> QED
    BY <1>0, <2>1, OrderFrame
<1>4. ASSUME NEW c \in Call, Insert(c) PROVE OrderInv'
  <2>1. PICK n : n = NewRow(c)
    OBVIOUS
  <2>2. n.id = last + 1 /\ n.past = checked[c] /\ n.order = Head(list[c]).order
    BY <1>4, <2>1, NewRowIs DEF Insert
  <2>3. master' = master \cup {n} /\ checked' = checked /\ list' = [list EXCEPT ![c] = Tail(list[c])]
    BY <1>4, <2>1 DEF Insert
  <2>4. n.id \notin 1..last
    BY <2>2 DEF TypeOK
  <2>5. (\A r \in master : r.id \in 1..last /\ n.id \notin r.past) /\ (\A d \in Call : n.id \notin checked[d])
    BY <2>4 DEF IdInv, Rows
  <2>6. /\ 1 \in DOMAIN list[c] /\ n.order = list[c][1].order
        /\ \A i \in DOMAIN Tail(list[c]) : i + 1 \in DOMAIN list[c] /\ Tail(list[c])[i] = list[c][i + 1]
    BY <1>4, <2>2, HeadTail DEF Insert, Shape
  <2>7. \A d \in Call : step'[d] \in {"count", "insert"} =>
          /\ step[d] \in {"count", "insert"}
          /\ \A i \in DOMAIN list'[d] : \E j \in DOMAIN list[d] : list'[d][i] = list[d][j]
    <3>1. \A d \in Call : list'[d] = IF d = c THEN Tail(list[c]) ELSE list[d]
      BY <2>3 DEF TypeOK
    <3>2. \A d \in Call : step'[d] \in {"count", "insert"} => step[d] \in {"count", "insert"}
      BY <1>4 DEF Insert, Goto, TypeOK
    <3> QED
      BY <2>6, <3>1, <3>2
  <2>8. \A d \in Call : step'[d] \in {"count", "insert"} =>
          \A r \in master', i \in DOMAIN list'[d] :
            r.id \in checked'[d] /\ r.order = list'[d][i].order => Renumbered(r.id)
    BY <2>3, <2>5, <2>7 DEF OrderInv
  <2>9. \A r \in master : r.order = n.order => (Unseen(r, n, "past") /\ Unseen(n, r, "past")) \/ Renumbered(r.id)
    BY <1>4, <2>2, <2>5, <2>6 DEF OrderInv, Insert, Unseen
  <2>10. \A r, s \in master' : r.order = s.order /\ r.id # s.id =>
           Unseen(r, s, "past") \/ Renumbered(r.id) \/ Renumbered(s.id)
    BY <2>3, <2>9 DEF OrderInv
  <2> QED
    BY <1>0, <2>8, <2>10 DEF OrderInv, Unseen
<1>5. ASSUME NEW c \in Call, InsertDetails(c) \/ (Rollback(c) /\ RollbackFrame) \/ EditDetails(c) \/ DeleteMasters(c)
      PROVE  OrderInv'
  <2>1. master' \subseteq master /\ Answer(c)
    BY <1>5 DEF InsertDetails, Rollback, EditDetails, DeleteMasters
  <2> QED
    BY <1>a, <2>1, AnswerEnds
<1>6. ASSUME NEW c \in Call, FailItem(c) PROVE OrderInv'
  <2>1. master' = master
    BY <1>6 DEF FailItem, tables
  <2> QED
    BY <1>6, <1>a, <2>1, ItemEnds DEF FailItem
<1>7. ASSUME NEW c \in Call, Find(c) \/ DeleteDetails(c) PROVE OrderInv'
  <2>1. master' = master
    BY <1>7 DEF Find, DeleteDetails, tables
  <2>2. CASE Answer(c)
    BY <1>a, <2>1, <2>2, AnswerEnds
  <2>3. CASE ~Answer(c)
    <3>1. /\ UNCHANGED <<list, checked>>
          /\ \A d \in Call : step'[d] \in {"count", "insert"} => step'[d] = step[d]
      BY <1>7, <2>3 DEF Find, DeleteDetails, Goto, TypeOK
    <3> QED
      BY <1>0, <2>1, <3>1, OrderFrame
  <2> QED
    BY <2>2, <2>3
<1>8. ASSUME NEW c \in Call, Writes(c) PROVE OrderInv'
  <2>1. PICK k \in todo[c], b \in Body : Rewrites(k, b)
    BY <1>8, WritesIs
  <2>2. \A r \in master : Kin(r, Written(r, b))
    BY WrittenIs DEF TypeOK
  <2>3. master \subseteq ever
    BY <1>8, WritesIs
  <2>4. \A w \in master' : \E r \in master : Kin(r, w) /\ (w.order = r.order \/ Renumbered(r.id)')
    <3> SUFFICES ASSUME NEW w \in master', w \notin master
                 PROVE  \E r \in master : Kin(r, w) /\ (w.order = r.order \/ Renumbered(r.id)')
      BY DEF Kin
    <3>1. PICK r \in master : w = Written(r, b)
      BY <2>1 DEF Rewrites
    <3>2. w \in ever' /\ r \in ever' /\ w.id = r.id
      BY <1>0, <2>1, <2>2, <2>3, <3>1 DEF Rewrites, Kin
    <3>3. w.order # r.order => Renumbered(r.id)'
      BY <3>2 DEF Renumbered, Versions
    <3> QED
      BY <2>2, <3>1, <3>3
  <2>5. \A d \in Call : step'[d] \in {"count", "insert"} =>
          step[d] \in {"count", "insert"} /\ list'[d] = list[d] /\ checked'[d] = checked[d]
    <3>1. Same4(c) /\ (Ends(c) \/ (GoesOnWith(c) /\ step[c] = "update"))
      BY <1>8, AnswerEnds, ItemEnds DEF Writes
    <3> QED
      BY <3>1 DEF Same4, Ends, GoesOnWith
  <2>6. \A d \in Call : step'[d] \in {"count", "insert"} =>
          \A w \in master', i \in DOMAIN list'[d] :
            w.id \in checked'[d] /\ w.order = list'[d][i].order => Renumbered(w.id)'
    BY <1>0, <2>4, <2>5 DEF OrderInv, Kin
  <2>7. \A v, w \in master' : v.order = w.order /\ v.id # w.id =>
          Unseen(v, w, "past") \/ Renumbered(v.id)' \/ Renumbered(w.id)'
    <3> SUFFICES ASSUME NEW v \in master', NEW w \in master', v.order = w.order, v.id # w.id,
                        ~Renumbered(v.id)', ~Renumbered(w.id)'
                 PROVE  Unseen(v, w, "past")
      OBVIOUS
    <3>1. PICK r \in master, s \in master : Kin(r, v) /\ Kin(s, w) /\ r.order = v.order /\ s.order = w.order
      BY <2>4 DEF Kin
    <3>2. Unseen(r, s, "past")
      BY <1>0, <3>1 DEF OrderInv, Kin
    <3> QED
      BY <3>1, <3>2 DEF Unseen, Kin
  <2> QED
    BY <2>6, <2>7 DEF OrderInv, Unseen
<1>9. CASE NextMonth \/ UNCHANGED vars
  BY <1>0, <1>9, OrderFrame, MonthStill DEF Still, request
<1> QED
  BY <1>1, <1>2, <1>3, <1>4, <1>5, <1>6, <1>7, <1>8, <1>9, NextCases

-----------------------------------------------------------------------------
(* Picks, details and orders.                                              *)

\* Whose code a request has in hand, was picked or shares the code.
LEMMA InHand ==
  ASSUME PickInv, NEW c \in Call, step[c] \in Named, NEW k \in todo[c], NEW i \in Ids(ever), k \in Names(i)
  PROVE  i \in picked \/ Shares(i)
<1>1. PICK j \in picked \cap Ids(ever) : k \in Names(j)
  BY DEF PickInv
<1> QED
  BY <1>1 DEF Shares

\* Codes of rows and details are among the names of their orders.
LEMMA CodesNamed ==
  ASSUME TxnInv
  PROVE  /\ \A r \in ever : r.id \in Ids(ever) /\ r.code \in Names(r.id)
         /\ \A d \in detail : d.id \in Ids(ever) /\ d.code \in Names(d.id)
BY DEF TxnInv, Ids, Names, Versions

\* What a step must not do to keep PickInv; more may change and be gone.
LEMMA PickFrame ==
  ASSUME PickInv, ever \subseteq ever', noted \subseteq noted', picked \subseteq picked',
         \A c \in Call : step'[c] \in Named => step[c] \in Named /\ todo'[c] \subseteq todo[c],
         \A c \in Call : step'[c] = "delete_masters" =>
           \/ step[c] = "delete_masters"
           \/ \A d \in detail' : d.code \notin todo'[c],
         \A d \in detail' : \/ d \in detail
                            \/ Recoded(d.id)' /\ \E e \in detail : e.id = d.id,
         \A d \in detail' : d.id \in Ids(master) => d.id \in Ids(master') \/ Recoded(d.id)' \/ Shares(d.id)',
         \A i \in changed' \cup Gone' : i \in changed \cup Gone \/ i \in picked' \/ Shares(i)'
  PROVE  PickInv'
<1>1. \A i : /\ Recoded(i) => Recoded(i)'
             /\ Shares(i) => Shares(i)'
             /\ Names(i) \subseteq Names(i)'
  BY OnceRewritten
<1>2. Ids(ever) \subseteq Ids(ever')
  BY DEF Ids
<1>3. \A c \in Call : step'[c] \in Named =>
        \A k \in todo'[c] : \E i \in picked' \cap Ids(ever') : k \in Names(i)'
  BY <1>1, <1>2 DEF PickInv
<1>4. \A c \in Call : step'[c] = "delete_masters" =>
        \A d \in detail' : d.code \in todo'[c] => Recoded(d.id)' \/ Shares(d.id)'
  BY <1>1 DEF PickInv, Named
<1>5. DetailsHaveOrder'
  BY <1>1 DEF PickInv, DetailsHaveOrder
<1>6. OnlyPickedChange'
  BY <1>1 DEF PickInv, OnlyPickedChange
<1> QED
  BY <1>3, <1>4, <1>5, <1>6 DEF PickInv

LEMMA StepPick == TypeOK /\ Shape /\ IdInv /\ TxnInv /\ PickInv /\ [Next]_vars => PickInv'
<1> SUFFICES ASSUME TypeOK, Shape, IdInv, TxnInv, PickInv, [Next]_vars PROVE PickInv'
  OBVIOUS
<1>0. ever \subseteq ever' /\ noted \subseteq noted'
  BY StepHistory
<1>a. \A i : /\ Recoded(i) => Recoded(i)'
             /\ Shares(i) => Shares(i)'
             /\ Names(i) \subseteq Names(i)'
  BY <1>0, OnceRewritten
<1>b. ASSUME NEW c \in Call, Same4(c), Ends(c) \/ (GoesOnWith(c) /\ step[c] = "update")
      PROVE  \A d \in Call : step'[d] \in Named =>
               /\ step[d] \in Named /\ todo'[d] \subseteq todo[d]
               /\ step'[d] = "delete_masters" => step[d] = "delete_masters"
  BY <1>b DEF Same4, Ends, GoesOnWith, Named
<1>c. ASSUME Still, picked' = picked,
             \A d \in Call : step'[d] \in Named =>
               /\ step[d] \in Named /\ todo'[d] \subseteq todo[d]
               /\ step'[d] = "delete_masters" => step[d] = "delete_masters"
      PROVE  PickInv'
  <2>1. Gone' = Gone /\ changed' = changed /\ detail' = detail /\ Ids(master') = Ids(master)
    BY <1>c DEF Still, Gone, Ids
  <2> QED
    BY <1>0, <1>c, <2>1, PickFrame DEF Named
<1>1. ASSUME NEW c \in Call, Asks(c) \/ Check(c) \/ Count(c) \/ Find(c) \/ FailItem(c) PROVE PickInv'
  <2>1. picked' = picked
    BY <1>1 DEF Asks, Create, Check, Count, Find, FailItem, history
  <2>2. Asks(c) \/ Count(c) =>
          \A d \in Call : step'[d] \in Named => step'[d] = step[d] /\ todo'[d] = todo[d]
    BY DEF Asks, Create, Count, Free, Goto, TypeOK, Named
  <2>3. Check(c) /\ ~Answer(c) =>
          \A d \in Call : step'[d] \in Named => step'[d] = step[d] /\ todo'[d] = todo[d]
    BY DEF Check, Goto, TypeOK, Named
  <2>4. Find(c) /\ ~Answer(c) =>
          \A d \in Call : step'[d] \in Named => /\ step[d] \in Named /\ todo'[d] = todo[d]
                                                /\ step'[d] = "delete_masters" => step[d] = "delete_masters"
    BY DEF Find, Goto, TypeOK, Named
  <2>5. FailItem(c) => Same4(c) /\ (Ends(c) \/ (GoesOnWith(c) /\ step[c] = "update"))
    BY ItemEnds DEF FailItem
  <2> QED
    BY <1>1, <1>b, <1>c, <2>1, <2>2, <2>3, <2>4, <2>5, AnswerEnds, StillSteps
<1>2. CASE NextMonth \/ UNCHANGED vars
  <2>1. Still /\ UNCHANGED <<step, todo, picked>>
    BY <1>2, MonthStill DEF request
  <2> QED
    BY <1>c, <2>1
<1>3. ASSUME NEW c \in Call, Picks(c) PROVE PickInv'
  <2>1. PICK R \in SUBSET Committed, s \in {"find", "update", "edit", "delete_details"} : Pick(c, R, s)
    BY <1>3 DEF Picks
  <2>2. PICK C : C = {r.code : r \in R}
    OBVIOUS
  <2>3. /\ Still /\ picked' = picked \cup Ids(R) /\ noted' = noted
        /\ todo' = [todo EXCEPT ![c] = C] /\ step' = [step EXCEPT ![c] = s]
    BY <1>3, <2>1, <2>2, StillSteps DEF Pick, Free, Goto
  <2>4. R \subseteq ever
    BY DEF TxnInv, Committed
  <2>5. \A k \in C : \E i \in picked' \cap Ids(ever') : k \in Names(i)'
    <3> SUFFICES ASSUME NEW k \in C PROVE \E i \in picked' \cap Ids(ever') : k \in Names(i)'
      OBVIOUS
    <3>1. PICK r \in R : k = r.code
      BY <2>2
    <3>2. r.id \in Ids(R) /\ r.id \in Ids(ever) /\ k \in Names(r.id)
      BY <2>4, <3>1, CodesNamed DEF Ids
    <3>3. ever' = ever
      BY <2>3 DEF Still
    <3> QED
      BY <1>a, <2>3, <3>2, <3>3
  <2>6. /\ \A d \in Call \ {c} : step'[d] = step[d] /\ todo'[d] = todo[d]
        /\ todo'[c] = C /\ step'[c] # "delete_masters"
    BY <2>3 DEF TypeOK
  <2>7. Gone' = Gone /\ changed' = changed /\ detail' = detail /\ ever' = ever /\ Ids(master') = Ids(master)
    BY <2>3 DEF Still, Gone, Ids
  <2>8. picked \subseteq picked'
    BY <2>3
  <2>9. \A d \in Call : step'[d] \in Named =>
          \A k \in todo'[d] : \E i \in picked' \cap Ids(ever') : k \in Names(i)'
    BY <1>a, <2>5, <2>6, <2>7, <2>8 DEF PickInv
  <2>10. \A d \in Call : step'[d] = "delete_masters" =>
           \A e \in detail' : e.code \in todo'[d] => Recoded(e.id)' \/ Shares(e.id)'
    BY <1>a, <2>6, <2>7 DEF PickInv
  <2>11. DetailsHaveOrder' /\ OnlyPickedChange'
    BY <1>a, <2>7, <2>8 DEF PickInv, DetailsHaveOrder, OnlyPickedChange
  <2> QED
    BY <2>9, <2>10, <2>11 DEF PickInv
<1>4. ASSUME NEW c \in Call, Insert(c) PROVE PickInv'
  <2>1. /\ master \subseteq master' /\ detail' = detail /\ changed' = changed /\ ever' = ever /\ picked' = picked
    BY <1>4 DEF Insert, history
  <2>2. Gone' \subseteq Gone /\ Ids(master) \subseteq Ids(master')
    BY <2>1 DEF Gone, Ids
  <2>3. \A d \in Call : step'[d] \in Named => step'[d] = step[d] /\ todo'[d] = todo[d]
    BY <1>4 DEF Insert, Goto, TypeOK, Named
  <2> QED
    BY <1>0, <2>1, <2>2, <2>3, PickFrame DEF Named
<1>5. ASSUME NEW c \in Call, Rollback(c), RollbackFrame PROVE PickInv'
  <2>1. /\ master' = master \ own[c] /\ detail' = detail /\ changed' = changed /\ ever' = ever /\ picked' = picked
    BY <1>5 DEF Rollback, RollbackFrame, history
  <2>2. \A i \in Ids(ever) : i \in Ids(master) => i \in Ids(master')
    BY <2>1 DEF TxnInv, Ids
  <2>3. Gone' \subseteq Gone
    BY <2>1, <2>2 DEF Gone
  <2>4. \A d \in detail' : d.id \in Ids(master) => d.id \in Ids(master')
    BY <2>1, <2>2, CodesNamed
  <2>5. Same4(c) /\ Ends(c)
    BY <1>5, AnswerEnds DEF Rollback
  <2> QED
    BY <1>0, <1>b, <2>1, <2>3, <2>4, <2>5, PickFrame DEF Named
<1>6. ASSUME NEW c \in Call, InsertDetails(c) PROVE PickInv'
  <2>1. /\ master' = master /\ detail' = detail \cup DetailsOf(own[c]) /\ changed' = changed
        /\ ever' = ever \cup own[c] /\ noted' = noted \cup DetailsOf(own[c]) /\ picked' = picked
    BY <1>6 DEF InsertDetails
  <2>2. Same4(c) /\ Ends(c)
    BY <1>6, AnswerEnds DEF InsertDetails
  <2>3. \A d \in DetailsOf(own[c]) : d.id \in Ids(own[c])
    BY DEF DetailsOf, Ids
  <2>4. Ids(own[c]) \cap Ids(ever) = {} /\ Ids(own[c]) \subseteq Ids(master)
    BY DEF TxnInv, Ids
  <2>5. Ids(detail') = Ids(detail) \cup Ids(own[c]) /\ Ids(ever') = Ids(ever) \cup Ids(own[c])
    <3>1. Ids(DetailsOf(own[c])) = Ids(own[c])
      <4>1. ASSUME NEW r \in own[c]  PROVE  r.id \in Ids(DetailsOf(own[c]))
        <5>1. [id |-> r.id, code |-> r.code] \in DetailsOf(own[c])
          BY DEF DetailsOf
        <5> QED
          BY <5>1 DEF Ids
      <4> QED
        BY <2>3, <4>1 DEF Ids
    <3>2. \A A, B : Ids(A \cup B) = Ids(A) \cup Ids(B)
      BY DEF Ids
    <3> HIDE DEF Ids
    <3> QED
      BY <2>1, <3>1, <3>2
  <2>6. Gone' \subseteq Gone
    BY <2>1, <2>4, <2>5 DEF Gone
  <2>7. OnlyPickedChange'
    BY <1>a, <2>1, <2>6 DEF PickInv, OnlyPickedChange
  <2>8. DetailsHaveOrder'
    BY <1>a, <2>1, <2>3, <2>4 DEF PickInv, DetailsHaveOrder
  <2>9. \A d \in Call : step'[d] \in Named =>
          \A k \in todo'[d] : \E i \in picked' \cap Ids(ever') : k \in Names(i)'
    BY <1>a, <1>b, <2>1, <2>2, <2>5 DEF PickInv
  <2>10. ASSUME NEW d \in Call, step'[d] = "delete_masters", NEW e \in detail', e.code \in todo'[d]
         PROVE  Recoded(e.id)' \/ Shares(e.id)'
    <3>1. step[d] = "delete_masters" /\ todo'[d] \subseteq todo[d]
      BY <1>b, <2>2, <2>10 DEF Named
    <3>2. CASE e \in detail
      BY <1>a, <2>10, <3>1, <3>2 DEF PickInv
    <3>3. CASE e \in DetailsOf(own[c])
      <4>1. PICK j \in picked \cap Ids(ever) : e.code \in Names(j)
        BY <2>10, <3>1 DEF PickInv, Named
      <4>2. j # e.id /\ j \in Ids(ever')
        BY <2>3, <2>4, <2>5, <3>3, <4>1
      <4>3. e.code \in Names(e.id)'
        BY <2>1, <3>3 DEF Names
      <4> QED
        BY <1>a, <4>1, <4>2, <4>3 DEF Shares
    <3> QED
      BY <2>1, <3>2, <3>3
  <2> QED
    BY <2>7, <2>8, <2>9, <2>10 DEF PickInv
<1>7. ASSUME NEW c \in Call, Writes(c) PROVE PickInv'
  <2>1. PICK k \in todo[c], b \in Body : Rewrites(k, b)
    BY <1>7, WritesIs
  <2>2. PICK R, W : /\ R = {r \in master : r.code = k} /\ W = {Written(r, b) : r \in R}
    OBVIOUS
  <2>3. /\ master' = (master \ R) \cup W /\ ever' = ever \cup W /\ changed' = changed \cup Ids(R) /\ Ids(W) = Ids(R)
    BY <2>1, <2>2 DEF Rewrites
  <2>4. R \subseteq master /\ master \subseteq ever
    BY <1>7, <2>2, WritesIs
  <2>5. Ids(master') = Ids(master) /\ Ids(ever') = Ids(ever)
    <3>1. Ids((master \ R) \cup W) = Ids(master \ R) \cup Ids(W) /\ Ids(ever \cup W) = Ids(ever) \cup Ids(W)
      BY DEF Ids
    <3>2. Ids(master \ R) \cup Ids(R) = Ids(master) /\ Ids(R) \subseteq Ids(ever)
      BY <2>4 DEF Ids
    <3> QED
      BY <2>3, <3>1, <3>2
  <2>6. detail' = detail /\ picked' = picked
    BY <1>7 DEF Writes
  <2>7. Gone' = Gone
    BY <2>5, <2>6 DEF Gone
  <2>8. \A i \in Ids(R) : i \in picked \/ Shares(i)
    <3> SUFFICES ASSUME NEW r \in R PROVE r.id \in picked \/ Shares(r.id)
      BY DEF Ids
    <3>1. r.id \in Ids(ever) /\ k \in Names(r.id)
      BY <2>2, <2>4, CodesNamed
    <3> QED
      BY <1>7, <3>1, InHand DEF Writes, Named
  <2>9. \A i \in changed' \cup Gone' : i \in changed \cup Gone \/ i \in picked' \/ Shares(i)'
    BY <1>a, <2>3, <2>6, <2>7, <2>8
  <2>10. Same4(c) /\ (Ends(c) \/ (GoesOnWith(c) /\ step[c] = "update"))
    BY <1>7, AnswerEnds, ItemEnds DEF Writes
  <2> QED
    BY <1>0, <1>b, <2>5, <2>6, <2>9, <2>10, PickFrame DEF Named
<1>8. ASSUME NEW c \in Call, EditDetails(c) PROVE PickInv'
  <2>1. PICK b \in Body :
          LET D == {d \in detail : d.code \in todo[c]}
              E == {[d EXCEPT !.code = Or(b.code, @)] : d \in D}
          IN  detail' = (detail \ D) \cup E /\ noted' = noted \cup E /\ changed' = changed \cup Ids(D)
    BY <1>8 DEF EditDetails
  <2> DEFINE D == {d \in detail : d.code \in todo[c]}
             E == {[d EXCEPT !.code = Or(b.code, @)] : d \in D}
  <2>2. \A e \in E : \E d \in D : e.id = d.id /\ (e.code = d.code => e = d)
    BY DEF TypeOK, Detail
  <2>3. \A d \in D : \E e \in E : e.id = d.id
    <3> SUFFICES ASSUME NEW d \in D PROVE \E e \in E : e.id = d.id
      OBVIOUS
    <3>1. [d EXCEPT !.code = Or(b.code, @)] \in E /\ [d EXCEPT !.code = Or(b.code, @)].id = d.id
      BY DEF TypeOK, Detail
    <3> QED
      BY <3>1
  <2>4. D \subseteq detail /\ \A d \in D : d.code \in todo[c]
    OBVIOUS
  <2>5. detail' = (detail \ D) \cup E /\ noted' = noted \cup E /\ changed' = changed \cup Ids(D)
    BY <2>1
  <2> HIDE DEF D, E
  <2>6. UNCHANGED <<master, ever, picked>> /\ Same4(c) /\ Ends(c)
    BY <1>8, AnswerEnds DEF EditDetails
  <2>7. Ids(detail') = Ids(detail)
    BY <2>2, <2>3, <2>4, <2>5 DEF Ids
  <2>8. Gone' = Gone
    BY <2>6, <2>7 DEF Gone, Ids
  <2>9. \A i \in Ids(D) : i \in picked \/ Shares(i)
    <3> SUFFICES ASSUME NEW d \in D PROVE d.id \in picked \/ Shares(d.id)
      BY DEF Ids
    <3>1. d.id \in Ids(ever) /\ d.code \in Names(d.id)
      BY <2>4, CodesNamed
    <3> QED
      BY <1>8, <2>4, <3>1, InHand DEF EditDetails, Named
  <2>10. \A i \in changed' \cup Gone' : i \in changed \cup Gone \/ i \in picked' \/ Shares(i)'
    BY <1>a, <2>5, <2>6, <2>8, <2>9
  <2>11. \A d \in detail' : \/ d \in detail
                            \/ Recoded(d.id)' /\ \E e \in detail : e.id = d.id
    <3> SUFFICES ASSUME NEW d \in detail', d \notin detail
                 PROVE  Recoded(d.id)' /\ \E e \in detail : e.id = d.id
      OBVIOUS
    <3>1. d \in E /\ d \in noted'
      BY <2>5
    <3>2. PICK e \in D : d.id = e.id /\ (d.code = e.code => d = e)
      BY <2>2, <3>1
    <3>3. e \in detail /\ e \in noted' /\ d.code # e.code
      BY <1>0, <2>4, <3>2 DEF TxnInv
    <3>4. d.code \in Names(d.id)' /\ e.code \in Names(d.id)'
      BY <3>1, <3>2, <3>3 DEF Names
    <3> QED
      BY <3>2, <3>3, <3>4 DEF Recoded
  <2>12. Ids(master') = Ids(master)
    BY <2>6
  <2> QED
    BY <1>0, <1>b, <2>6, <2>10, <2>11, <2>12, PickFrame DEF Named
<1>9. ASSUME NEW c \in Call, DeleteDetails(c) PROVE PickInv'
  <2> DEFINE D == WithCode(detail, todo[c])
  <2>1. D \subseteq detail /\ (\A d \in D : d.code \in todo[c]) /\ \A d \in detail \ D : d.code \notin todo[c]
    BY DEF WithCode
  <2>2. detail' = detail \ D /\ UNCHANGED <<master, changed, ever, picked>>
    BY <1>9 DEF DeleteDetails, history
  <2> HIDE DEF D
  <2>3. Gone' \subseteq Gone \cup Ids(D)
    BY <2>1, <2>2 DEF Gone, Ids
  <2>4. \A i \in Ids(D) : i \in picked \/ Shares(i)
    <3> SUFFICES ASSUME NEW d \in D PROVE d.id \in picked \/ Shares(d.id)
      BY DEF Ids
    <3>1. d.id \in Ids(ever) /\ d.code \in Names(d.id)
      BY <2>1, CodesNamed
    <3> QED
      BY <1>9, <2>1, <3>1, InHand DEF DeleteDetails, Named
  <2>5. \A i \in changed' \cup Gone' : i \in changed \cup Gone \/ i \in picked' \/ Shares(i)'
    BY <1>a, <2>2, <2>3, <2>4
  <2>6. \A d \in Call : step'[d] \in Named =>
          /\ step[d] \in Named /\ todo'[d] \subseteq todo[d]
          /\ step'[d] = "delete_masters" => step[d] = "delete_masters" \/ \A e \in detail' : e.code \notin todo'[d]
    <3>1. CASE Answer(c)
      BY <1>b, <3>1, AnswerEnds
    <3>2. CASE Goto(c, "delete_masters") /\ UNCHANGED <<list, todo, checked, counted>>
      BY <1>9, <2>1, <2>2, <3>2 DEF DeleteDetails, Goto, TypeOK, Named
    <3> QED
      BY <1>9, <3>1, <3>2 DEF DeleteDetails
  <2>7. Ids(master') = Ids(master) /\ detail' \subseteq detail
    BY <2>2
  <2> QED
    BY <1>0, <2>2, <2>5, <2>6, <2>7, PickFrame DEF Named
<1>10. ASSUME NEW c \in Call, DeleteMasters(c) PROVE PickInv'
  <2> DEFINE R == WithCode(master, todo[c])
  <2>1. R \subseteq master /\ \A r \in R : r.code \in todo[c]
    BY DEF WithCode
  <2>2. master' = master \ R /\ UNCHANGED <<detail, changed, ever, picked>>
    BY <1>10 DEF DeleteMasters
  <2>3. master \subseteq ever /\ step[c] = "delete_masters"
    <3>1. \A d \in Call : own[d] = {}
      BY <1>10 DEF DeleteMasters, Shape, Blocked
    <3> QED
      BY <1>10, <3>1, UncommittedOf DEF TxnInv, DeleteMasters
  <2> HIDE DEF R
  <2>4. Gone' \subseteq Gone \cup Ids(R)
    BY <2>1, <2>2 DEF Gone, Ids
  <2>5. \A r \in R : r.id \in picked \/ Shares(r.id)
    BY <2>1, <2>3, CodesNamed, InHand DEF Named
  <2>6. \A i \in changed' \cup Gone' : i \in changed \cup Gone \/ i \in picked' \/ Shares(i)'
    <3>1. \A i \in Ids(R) : i \in picked \/ Shares(i)
      BY <2>5 DEF Ids
    <3> QED
      BY <1>a, <2>2, <2>4, <3>1
  <2>7. \A d \in detail' : d.id \in Ids(master) => d.id \in Ids(master') \/ Recoded(d.id)' \/ Shares(d.id)'
    <3> SUFFICES ASSUME NEW d \in detail, d.id \in Ids(master), d.id \notin Ids(master')
                 PROVE  Recoded(d.id) \/ Shares(d.id)
      BY <1>a, <2>2
    <3>1. PICK r \in R : r.id = d.id
      BY <2>2 DEF Ids
    <3>2. d.code \in Names(d.id) /\ r.code \in Names(d.id)
      BY <2>1, <2>3, <3>1, CodesNamed
    <3>3. CASE d.code \in todo[c]
      BY <2>3, <3>3 DEF PickInv
    <3>4. CASE d.code \notin todo[c]
      <4>1. d.code # r.code
        BY <2>1, <3>1, <3>4
      <4> QED
        BY <3>2, <4>1 DEF Recoded
    <3> QED
      BY <3>3, <3>4
  <2>8. Same4(c) /\ Ends(c)
    BY <1>10, AnswerEnds DEF DeleteMasters
  <2> QED
    BY <1>0, <1>b, <2>2, <2>6, <2>7, <2>8, PickFrame DEF Named
<1> QED
  BY <1>1, <1>2, <1>3, <1>4, <1>5, <1>6, <1>7, <1>8, <1>9, <1>10, NextCases

-----------------------------------------------------------------------------
(* Codes.                                                                  *)

LEMMA IdsMonotone == ASSUME NEW R, NEW S, R \subseteq S, NEW f PROVE Ids(Of(f, R)) \subseteq Ids(Of(f, S))
BY DEF Ids, Of

\* Steps that add no row but versions, keep each factory's committed rows, and
\* let transactions end: what was visible to a transaction still is.
LEMMA CountFrame ==
  ASSUME CountInv, TypeOK, IdInv, TxnInv, NoNewRow, lost \subseteq lost', lost' \subseteq Factory,
         \A c \in Call : step'[c] = "insert" =>
           step[c] = "insert" /\ list'[c] = list[c] /\ counted'[c] = counted[c] /\ own'[c] = own[c],
         \A c \in Call : own'[c] = {} \/ own'[c] = own[c],
         \A f \in Factory \ lost' :
           /\ Ids(Of(f, Committed)) \subseteq Ids(Of(f, Committed))'
           /\ \A r \in Committed' :
                \/ \E q \in Committed : Kin(q, r)
                \/ \E d \in Call : r \in own[d] /\ Ids(Of(f, Visible(d))) \subseteq Ids(Of(f, Committed))'
  PROVE  CountInv'
<1>1. \A r \in Rows' : r.given[3] = Cardinality(r.after) + 1
  BY DEF CountInv, NoNewRow, Kin
<1>2. ASSUME NEW f \in Factory \ lost' PROVE Closed(f)' /\ Counting(f)'
  <2>1. f \in Factory \ lost /\ Closed(f) /\ Counting(f)
    BY DEF CountInv
  <2>2. PICK C : C = Ids(Of(f, Committed))'
    OBVIOUS
  <2>3. Ids(Of(f, Committed)) \subseteq C
    BY <2>2
  <2>4. \A r \in Given(f, Committed)' : r.after \subseteq C
    <3> SUFFICES ASSUME NEW r \in Committed', r.given[1] = f PROVE r.after \subseteq C
      BY DEF Given
    <3>1. CASE \E q \in Committed : Kin(q, r)
      <4>1. PICK q \in Committed : Kin(q, r)
        BY <3>1
      <4>2. q \in Given(f, Committed) /\ r.after = q.after
        BY <4>1 DEF Given, Kin
      <4> QED
        BY <2>1, <2>3, <4>2 DEF Closed
    <3>2. ASSUME NEW d \in Call, r \in own[d], Ids(Of(f, Visible(d))) \subseteq C PROVE r.after \subseteq C
      <4>1. r \in Given(f, own[d])
        BY <3>2 DEF Given
      <4> QED
        BY <2>1, <3>2, <4>1 DEF Closed
    <3> QED
      BY <2>2, <3>1, <3>2
  <2>5. ASSUME NEW c \in Call, own'[c] = own[c] PROVE Ids(Of(f, Visible(c))) \subseteq Ids(Of(f, Visible(c)))'
    <3>1. \A R, S : Ids(Of(f, R \cup S)) = Ids(Of(f, R)) \cup Ids(Of(f, S))
      BY DEF Ids, Of
    <3>2. Ids(Of(f, Visible(c))) = Ids(Of(f, Committed)) \cup Ids(Of(f, own[c]))
      BY <3>1 DEF Visible
    <3>3. Ids(Of(f, Visible(c)))' = C \cup Ids(Of(f, own'[c]))
      <4>1. Visible(c)' = Committed' \cup own'[c]
        BY DEF Visible
      <4>2. Ids(Of(f, Visible(c)))' = Ids(Of(f, Committed' \cup own'[c])) /\ C = Ids(Of(f, Committed'))
        BY <2>2, <4>1 DEF Ids, Of
      <4> QED
        BY <3>1, <4>2
    <3> QED
      BY <2>3, <2>5, <3>2, <3>3
  <2>6. \A c \in Call : \A r \in Given(f, own[c])' : r.after \subseteq Ids(Of(f, Visible(c)))'
    <3> SUFFICES ASSUME NEW c \in Call, NEW r \in own'[c], r.given[1] = f PROVE r.after \subseteq Ids(Of(f, Visible(c)))'
      BY DEF Given
    <3>1. own'[c] = own[c] /\ r \in Given(f, own[c])
      BY DEF Given
    <3>2. r.after \subseteq Ids(Of(f, Visible(c)))
      BY <2>1, <3>1 DEF Closed
    <3> QED
      BY <2>5, <3>1, <3>2
  <2>7. \A r, s \in Given(f, Rows)' : r.id \in s.after => r.after \subseteq s.after
    <3> SUFFICES ASSUME NEW r \in Rows', NEW s \in Rows', r.given[1] = f, s.given[1] = f, r.id \in s.after
                 PROVE  r.after \subseteq s.after
      BY DEF Given
    <3>1. PICK p \in Rows, q \in Rows : Kin(p, r) /\ Kin(q, s)
      BY DEF NoNewRow
    <3>2. p \in Given(f, Rows) /\ q \in Given(f, Rows) /\ p.id \in q.after
      BY <3>1 DEF Kin, Given
    <3>3. p.after \subseteq q.after
      BY <2>1, <3>2 DEF Closed
    <3> QED
      BY <3>1, <3>3 DEF Kin
  <2>8. Closed(f)'
    BY <2>2, <2>4, <2>6, <2>7 DEF Closed
  <2>9. Counting(f)'
    <3> SUFFICES ASSUME NEW c \in Call, step'[c] = "insert", Head(list'[c]).factory = f
                 PROVE  /\ counted'[c] \subseteq Ids(Of(f, Visible(c)))'
                        /\ \A r \in Given(f, Rows)' : r.id \in counted'[c] => r.after \subseteq counted'[c]
      BY DEF Counting
    <3>1. /\ step[c] = "insert" /\ Head(list[c]).factory = f /\ counted'[c] = counted[c] /\ own'[c] = own[c]
      OBVIOUS
    <3>2. /\ counted[c] \subseteq Ids(Of(f, Visible(c)))
          /\ \A r \in Given(f, Rows) : r.id \in counted[c] => r.after \subseteq counted[c]
      BY <2>1, <3>1 DEF Counting
    <3>3. ASSUME NEW r \in Given(f, Rows)', r.id \in counted[c] PROVE r.after \subseteq counted[c]
      <4>1. PICK p \in Rows : Kin(p, r)
        BY DEF Given, NoNewRow
      <4>2. p \in Given(f, Rows)
        BY <4>1 DEF Given, Kin
      <4> QED
        BY <3>2, <3>3, <4>1, <4>2 DEF Kin
    <3> QED
      BY <2>5, <3>1, <3>2, <3>3
  <2> QED
    BY <2>8, <2>9
<1> QED
  BY <1>1, <1>2 DEF CountInv

LEMMA StepCount == TypeOK /\ Shape /\ IdInv /\ TxnInv /\ CountInv /\ [Next]_vars => CountInv'
<1> SUFFICES ASSUME TypeOK, Shape, IdInv, TxnInv, CountInv, [Next]_vars PROVE CountInv'
  OBVIOUS
<1>0. lost' \subseteq Factory
  BY StepType DEF TypeOK
<1>a. \A r : Kin(r, r)
  BY DEF Kin
\* Nothing changes for the transactions, and no committed row goes.
<1>b. ASSUME NoNewRow, lost \subseteq lost', own' = own,
             \A c \in Call : step'[c] = "insert" => step[c] = "insert" /\ list'[c] = list[c] /\ counted'[c] = counted[c],
             \A f \in Factory \ lost' : Ids(Of(f, Committed)) \subseteq Ids(Of(f, Committed))',
             \A r \in Committed' : \E q \in Committed : Kin(q, r)
      PROVE  CountInv'
  BY <1>0, <1>b, CountFrame
<1>c. ASSUME NoNewRow, Still,
             \A c \in Call : step'[c] = "insert" => step[c] = "insert" /\ list'[c] = list[c] /\ counted'[c] = counted[c]
      PROVE  CountInv'
  <2>1. Committed' = Committed /\ own' = own /\ lost' = lost
    BY <1>c DEF Still, Committed, Uncommitted
  <2>2. \A f : Ids(Of(f, Committed))' = Ids(Of(f, Committed))
    BY <2>1 DEF Ids, Of
  <2> QED
    BY <1>a, <1>b, <1>c, <2>1, <2>2
<1>d. ASSUME NEW c \in Call, Same4(c), Ends(c) \/ (GoesOnWith(c) /\ step[c] = "update")
      PROVE  \A d \in Call : step'[d] = "insert" =>
               d # c /\ step[d] = "insert" /\ list'[d] = list[d] /\ counted'[d] = counted[d]
  BY <1>d DEF Same4, Ends, GoesOnWith
<1>1. ASSUME NEW c \in Call, Asks(c) \/ Check(c) \/ Picks(c) \/ Find(c) \/ FailItem(c), NoNewRow PROVE CountInv'
  <2>1. Asks(c) \/ Picks(c) =>
          \A d \in Call : step'[d] = "insert" => step[d] = "insert" /\ list'[d] = list[d] /\ counted'[d] = counted[d]
    BY DEF Asks, Picks, Create, Pick, Free, Goto, TypeOK
  <2>2. Check(c) /\ ~Answer(c) =>
          \A d \in Call : step'[d] = "insert" => step[d] = "insert" /\ list'[d] = list[d] /\ counted'[d] = counted[d]
    BY DEF Check, Goto, TypeOK
  <2>3. Find(c) /\ ~Answer(c) =>
          \A d \in Call : step'[d] = "insert" => step[d] = "insert" /\ list'[d] = list[d] /\ counted'[d] = counted[d]
    BY DEF Find, Goto, TypeOK
  <2>4. FailItem(c) => Same4(c) /\ (Ends(c) \/ (GoesOnWith(c) /\ step[c] = "update"))
    BY ItemEnds DEF FailItem
  <2> QED
    BY <1>1, <1>c, <1>d, <2>1, <2>2, <2>3, <2>4, AnswerEnds, StillSteps
<1>2. CASE (NextMonth \/ UNCHANGED vars) /\ NoNewRow
  <2>1. Still /\ UNCHANGED <<step, list, counted>>
    BY <1>2, MonthStill DEF request
  <2> QED
    BY <1>2, <1>c, <2>1
<1>3. ASSUME NEW c \in Call, Count(c), NoNewRow PROVE CountInv'
  <2>1. PICK g : g = Head(list[c]).factory
    OBVIOUS
  <2>2. /\ Still /\ list' = list
        /\ \A d \in Call \ {c} : step'[d] = step[d] /\ counted'[d] = counted[d]
        /\ counted'[c] = Ids(Of(g, Visible(c)))
    BY <1>3, <2>1, StillSteps DEF Count, Goto, TypeOK, Of
  <2>3. Rows' = Rows /\ Committed' = Committed /\ own' = own /\ lost' = lost /\ \A d : Visible(d)' = Visible(d)
    BY <2>2 DEF Still, Rows, Committed, Uncommitted, Visible
  <2>4. /\ \A f : Ids(Of(f, Committed))' = Ids(Of(f, Committed)) /\ Given(f, Rows)' = Given(f, Rows)
                  /\ Given(f, Committed)' = Given(f, Committed)
        /\ \A f, d : Ids(Of(f, Visible(d)))' = Ids(Of(f, Visible(d))) /\ Given(f, own[d])' = Given(f, own[d])
    BY <2>3 DEF Ids, Of, Given
  <2>5. \A f \in Factory : Closed(f) => Closed(f)'
    BY <2>4 DEF Closed
  <2>6. ASSUME NEW f \in Factory, Closed(f), Counting(f) PROVE Counting(f)'
    <3> SUFFICES ASSUME NEW d \in Call, step'[d] = "insert", Head(list[d]).factory = f
                 PROVE  /\ counted'[d] \subseteq Ids(Of(f, Visible(d)))
                        /\ \A r \in Given(f, Rows) : r.id \in counted'[d] => r.after \subseteq counted'[d]
      BY <2>2, <2>4 DEF Counting
    <3>1. CASE d # c
      BY <2>2, <2>6, <3>1 DEF Counting
    <3>2. CASE d = c
      <4>1. counted'[d] = Ids(Of(f, Visible(d)))
        BY <2>1, <2>2, <3>2
      <4>2. ASSUME NEW r \in Given(f, Rows), r.id \in counted'[d] PROVE r.after \subseteq counted'[d]
        <5>1. PICK q \in Of(f, Visible(d)) : q.id = r.id
          BY <4>1, <4>2 DEF Ids
        <5>2. q \in Visible(d) /\ q \in Rows /\ r \in Rows /\ r.given[1] = f
          BY CommittedIs DEF Of, Visible, TxnInv, Rows, Given
        <5>3. Kin(q, r)
          BY <5>1, <5>2 DEF IdInv
        <5>4. CASE q \in Committed
          <6>1. q \in Given(f, Committed) /\ r.after = q.after
            BY <5>2, <5>3, <5>4 DEF Given, Kin
          <6>2. Ids(Of(f, Committed)) \subseteq Ids(Of(f, Visible(d)))
            BY IdsMonotone DEF Visible
          <6> QED
            BY <2>6, <4>1, <6>1, <6>2 DEF Closed
        <5>5. CASE q \in own[d]
          <6>1. q \in Given(f, own[d]) /\ r.after = q.after
            BY <5>2, <5>3, <5>5 DEF Given, Kin
          <6> QED
            BY <2>6, <4>1, <6>1 DEF Closed
        <5> QED
          BY <5>2, <5>4, <5>5 DEF Visible
      <4> QED
        BY <4>1, <4>2
    <3> QED
      BY <3>1, <3>2
  <2> QED
    BY <2>3, <2>5, <2>6 DEF CountInv
<1>4. ASSUME NEW c \in Call, Insert(c) PROVE CountInv'
  <2>1. PICK n : n = NewRow(c)
    OBVIOUS
  <2>2. /\ n.id = last + 1 /\ n.after = counted[c] /\ n.factory = Head(list[c]).factory
        /\ n.given[1] = n.factory /\ n.given[3] = Cardinality(n.after) + 1
    BY <1>4, <2>1, NewRowIs DEF Insert
  <2>3. /\ master' = master \cup {n} /\ ever' = ever /\ counted' = counted /\ lost' = lost
        /\ \A d \in Call : own'[d] = IF d = c THEN own[d] \cup {n} ELSE own[d]
        /\ \A d \in Call : step'[d] = "insert" => step[d] = "insert" /\ d # c /\ list'[d] = list[d]
    BY <1>4, <2>1 DEF Insert, Goto, TypeOK, history
  <2>4. n.id \notin 1..last
    BY <2>2 DEF TypeOK
  <2>5. /\ n \notin Rows
        /\ \A r \in Rows : n.id \notin r.after /\ r.id # n.id
        /\ \A d \in Call : n.id \notin counted[d]
    <3>1. \A r \in Rows : r.id \in 1..last /\ r.after \subseteq 1..last
      BY DEF IdInv, TypeOK
    <3> QED
      BY <2>4, <3>1 DEF IdInv
  <2>6. Rows' = Rows \cup {n}
    BY <2>3 DEF Rows
  <2>7. Committed' = Committed
    <3>1. \A r : r \in Uncommitted' <=> \E d \in Call : r \in own'[d]
      BY DEF Uncommitted
    <3>2. \A r : r # n => (r \in Uncommitted' <=> r \in Uncommitted)
      BY <2>3, <3>1, UncommittedOf
    <3>3. n \in Uncommitted'
      BY <2>3, <3>1
    <3> QED
      BY <2>3, <2>5, <3>2, <3>3 DEF Committed, Rows
  <2>8. \A d \in Call : Visible(d)' = IF d = c THEN Visible(d) \cup {n} ELSE Visible(d)
    BY <2>3, <2>7 DEF Visible
  <2>9. /\ \A f : Ids(Of(f, Committed))' = Ids(Of(f, Committed)) /\ Given(f, Committed)' = Given(f, Committed)
        /\ \A f : \A d \in Call : Ids(Of(f, Visible(d))) \subseteq Ids(Of(f, Visible(d)))'
    BY <2>7, <2>8 DEF Ids, Of, Given
  <2>10. ASSUME NEW f \in Factory \ lost' PROVE Closed(f)'
    <3>0. Closed(f) /\ Counting(f)
      BY <2>3, <2>10 DEF CountInv
    <3>1. \A r \in Given(f, Committed)' : r.after \subseteq Ids(Of(f, Committed))'
      BY <2>9, <3>0 DEF Closed
    <3>2. n.factory = f => /\ n.after \subseteq Ids(Of(f, Visible(c)))
                           /\ \A r \in Given(f, Rows) : r.id \in n.after => r.after \subseteq n.after
      BY <1>4, <2>2, <3>0 DEF Counting, Insert
    <3>3. \A d \in Call : \A r \in Given(f, own[d])' : r.after \subseteq Ids(Of(f, Visible(d)))'
      <4> SUFFICES ASSUME NEW d \in Call, NEW r \in own'[d], r.given[1] = f PROVE r.after \subseteq Ids(Of(f, Visible(d)))'
        BY DEF Given
      <4>1. r \in own[d] \/ (d = c /\ r = n)
        <5>1. own'[d] = IF d = c THEN own[d] \cup {n} ELSE own[d]
          BY <2>3
        <5> QED
          BY <5>1
      <4>2. r \in Given(f, own[d]) \/ (d = c /\ r = n /\ n.factory = f)
        BY <2>2, <4>1 DEF Given
      <4>3. r.after \subseteq Ids(Of(f, Visible(d)))
        BY <3>0, <3>2, <4>2 DEF Closed
      <4> QED
        BY <2>9, <4>3
    <3>4. \A r, s \in Given(f, Rows)' : r.id \in s.after => r.after \subseteq s.after
      <4> SUFFICES ASSUME NEW r \in Rows', NEW s \in Rows', r.given[1] = f, s.given[1] = f, r.id \in s.after
                   PROVE  r.after \subseteq s.after
        BY DEF Given
      <4>1. r \in Given(f, Rows)
        BY <2>2, <2>5, <2>6 DEF Given
      <4>2. CASE s \in Rows
        <5>1. s \in Given(f, Rows)
          BY <4>2 DEF Given
        <5> QED
          BY <3>0, <4>1, <5>1 DEF Closed
      <4>3. CASE s = n
        BY <2>2, <3>2, <4>1, <4>3
      <4> QED
        BY <2>6, <4>2, <4>3
    <3> QED
      BY <3>1, <3>3, <3>4 DEF Closed
  <2>11. ASSUME NEW f \in Factory \ lost' PROVE Counting(f)'
    <3> SUFFICES ASSUME NEW d \in Call, step'[d] = "insert", Head(list'[d]).factory = f
                 PROVE  /\ counted'[d] \subseteq Ids(Of(f, Visible(d)))'
                        /\ \A r \in Given(f, Rows)' : r.id \in counted'[d] => r.after \subseteq counted'[d]
      BY DEF Counting
    <3>0. Counting(f) /\ step[d] = "insert" /\ Head(list[d]).factory = f /\ counted'[d] = counted[d]
      BY <2>3, <2>11 DEF CountInv
    <3>1. /\ counted[d] \subseteq Ids(Of(f, Visible(d)))
          /\ \A r \in Given(f, Rows) : r.id \in counted[d] => r.after \subseteq counted[d]
      BY <3>0 DEF Counting
    <3>2. \A r \in Given(f, Rows)' : r \in Given(f, Rows) \/ r = n
      BY <2>6 DEF Given
    <3> QED
      BY <2>5, <2>9, <3>0, <3>1, <3>2
  <2>12. \A r \in Rows' : r.given[3] = Cardinality(r.after) + 1
    BY <2>2, <2>6 DEF CountInv
  <2> QED
    BY <2>10, <2>11, <2>12 DEF CountInv
<1>5. ASSUME NEW c \in Call, InsertDetails(c) \/ (Rollback(c) /\ RollbackFrame), NoNewRow PROVE CountInv'
  <2>1. /\ \A d \in Call : own'[d] = IF d = c THEN {} ELSE own[d]
        /\ lost' = lost /\ Answer(c)
    BY <1>5 DEF InsertDetails, Rollback, RollbackFrame, history, TypeOK
  <2>2. \A r : r \in Uncommitted' <=> r \in Uncommitted /\ r \notin own[c]
    BY <2>1, UncommittedOf DEF TxnInv, Uncommitted
  <2>3. Committed' = Committed \/ Committed' = Visible(c)
    <3>1. CASE InsertDetails(c)
      <4>1. master' = master
        BY <3>1 DEF InsertDetails
      <4> QED
        BY <2>2, <4>1, UncommittedOf DEF Committed, Visible, TxnInv
    <3>2. CASE Rollback(c)
      <4>1. master' = master \ own[c]
        BY <3>2 DEF Rollback
      <4> QED
        BY <2>2, <4>1, UncommittedOf DEF Committed, TxnInv
    <3> QED
      BY <1>5, <3>1, <3>2
  <2>4. \A f : Ids(Of(f, Committed)) \subseteq Ids(Of(f, Committed))'
    BY <2>3 DEF Visible, Of, Ids
  <2>5. \A f : \A r \in Committed' :
           r \in Committed \/ (r \in own[c] /\ Ids(Of(f, Visible(c))) \subseteq Ids(Of(f, Committed))')
    BY <2>3 DEF Visible, Of, Ids
  <2>6. \A d \in Call : step'[d] = "insert" =>
          step[d] = "insert" /\ list'[d] = list[d] /\ counted'[d] = counted[d] /\ own'[d] = own[d]
    BY <1>d, <2>1, AnswerEnds
  <2> QED
    BY <1>0, <1>5, <1>a, <2>1, <2>4, <2>5, <2>6, CountFrame
<1>6. ASSUME NEW c \in Call, EditDetails(c) \/ DeleteDetails(c), NoNewRow PROVE CountInv'
  <2>1. UNCHANGED <<master, own, lost>>
    BY <1>6 DEF EditDetails, DeleteDetails, history
  <2>2. Committed' = Committed
    BY <2>1 DEF Committed, Uncommitted
  <2>3. \A f : Ids(Of(f, Committed))' = Ids(Of(f, Committed))
    BY <2>2 DEF Ids, Of
  <2>4. DeleteDetails(c) /\ ~Answer(c) =>
          \A d \in Call : step'[d] = "insert" => step[d] = "insert" /\ list'[d] = list[d] /\ counted'[d] = counted[d]
    BY DEF DeleteDetails, Goto, TypeOK
  <2>5. EditDetails(c) => Answer(c)
    BY DEF EditDetails
  <2>6. \A d \in Call : step'[d] = "insert" => step[d] = "insert" /\ list'[d] = list[d] /\ counted'[d] = counted[d]
    BY <1>6, <1>d, <2>4, <2>5, AnswerEnds
  <2> QED
    BY <1>6, <1>a, <1>b, <2>1, <2>2, <2>3, <2>6
<1>7. ASSUME NEW c \in Call, DeleteMasters(c), NoNewRow PROVE CountInv'
  <2>1. /\ master' = master \ WithCode(master, todo[c]) /\ own' = own
        /\ lost' = lost \cup {r.factory : r \in WithCode(master, todo[c])}
    BY <1>7 DEF DeleteMasters
  <2>2. Uncommitted = {} /\ Uncommitted' = {}
    <3>1. \A d \in Call : own[d] = {}
      BY <1>7 DEF DeleteMasters, Shape, Blocked
    <3> QED
      BY <2>1, <3>1 DEF Uncommitted
  <2>3. Committed = master /\ Committed' = master'
    BY <2>2 DEF Committed
  <2>4. \A f \in Factory \ lost' : Of(f, Committed) = Of(f, Committed')
    BY <2>1, <2>3 DEF Of
  <2>5. \A f \in Factory \ lost' : Ids(Of(f, Committed)) \subseteq Ids(Of(f, Committed))'
    BY <2>4 DEF Ids, Of
  <2>6. \A d \in Call : step'[d] = "insert" => step[d] = "insert" /\ list'[d] = list[d] /\ counted'[d] = counted[d]
    BY <1>7, <1>d, AnswerEnds DEF DeleteMasters
  <2>7. \A r \in Committed' : r \in Committed
    BY <2>1, <2>3
  <2>8. lost \subseteq lost'
    BY <2>1
  <2> QED
    BY <1>7, <1>a, <1>b, <2>1, <2>5, <2>6, <2>7, <2>8
<1>8. ASSUME NEW c \in Call, Writes(c), NoNewRow PROVE CountInv'
  <2>1. PICK k \in todo[c], b \in Body : Rewrites(k, b)
    BY <1>8, WritesIs
  <2>2. own' = own /\ Uncommitted = {} /\ Uncommitted' = {}
    BY <1>8, WritesIs DEF Writes, Uncommitted
  <2>3. Committed = master /\ Committed' = master'
    BY <2>2 DEF Committed
  <2>4. \A r \in master : Kin(r, Written(r, b))
    BY WrittenIs DEF TypeOK
  <2>5. \A w \in Committed' : \E r \in Committed : Kin(r, w)
    BY <1>a, <2>1, <2>3, <2>4 DEF Rewrites
  <2>6. ASSUME NEW f \in Factory \ lost' PROVE Ids(Of(f, Committed)) \subseteq Ids(Of(f, Committed))'
    <3> SUFFICES ASSUME NEW r \in master, r.factory = f PROVE \E w \in master' : w.factory = f /\ w.id = r.id
      BY <2>3 DEF Ids, Of
    <3>1. CASE r.code = k
      <4>1. Written(r, b) \in master' /\ Written(r, b).id = r.id
        BY <2>1, <2>4, <3>1 DEF Rewrites, Kin
      <4>2. Written(r, b).factory # r.factory => r.factory \in lost'
        BY <2>1, <3>1 DEF Rewrites
      <4> QED
        BY <2>6, <4>1, <4>2
    <3>2. CASE r.code # k
      BY <2>1, <3>2 DEF Rewrites
    <3> QED
      BY <3>1, <3>2
  <2>7. Same4(c) /\ (Ends(c) \/ (GoesOnWith(c) /\ step[c] = "update"))
    BY <1>8, AnswerEnds, ItemEnds DEF Writes
  <2>8. lost \subseteq lost'
    BY <2>1 DEF Rewrites
  <2> QED
    BY <1>8, <1>b, <1>d, <2>2, <2>5, <2>6, <2>7, <2>8
<1> QED
  BY <1>1, <1>2, <1>3, <1>4, <1>5, <1>6, <1>7, <1>8, StepRows, NextCases
-----------------------------------------------------------------------------
IInv == TypeOK /\ Shape /\ IdInv /\ TxnInv /\ OrderInv /\ PickInv /\ CountInv

LEMMA InitIInv == Init => IInv
<1> SUFFICES ASSUME Init PROVE IInv
  OBVIOUS
<1> USE DEF Init
<1>1. TypeOK
  <2>1. list \in [Call -> Seq(Item)]
    OBVIOUS
  <2> QED
    BY <2>1 DEF TypeOK, Steps
<1>2. Shape /\ IdInv /\ TxnInv /\ OrderInv
  BY DEF Shape, Named, IdInv, TxnInv, OrderInv, Rows, Uncommitted, Ids
<1>3. PickInv
  BY DEF PickInv, Named, DetailsHaveOrder, OnlyPickedChange, Gone, Ids
<1>4. CountInv
  <2>1. Rows = {} /\ Committed = {}
    BY DEF Rows, Committed
  <2> QED
    BY <2>1 DEF CountInv, Closed, Counting, Of, Given
<1> QED
  BY <1>1, <1>2, <1>3, <1>4 DEF IInv

\* The invariant: identity values are given once, transactions are apart,
\* what is committed is closed under counting, and codes in use were picked.
THEOREM Inductive == Spec => []IInv
<1>1. IInv /\ [Next]_vars => IInv'
  BY StepType, StepShape, StepIds, StepTxn, StepOrder, StepPick, StepCount DEF IInv
<1> QED
  BY InitIInv, <1>1, PTL DEF Spec

\* The tables and the requests stay within their types.
THEOREM TypeCorrect == Spec => []TypeOK
<1>1. IInv => TypeOK
  BY DEF IInv
<1> QED
  BY <1>1, Inductive, PTL

\* Two committed orders of one order number: neither was there when the other
\* was checked, or someone has rewritten the number of one.
THEOREM OrderTwiceNeedsOverlapAlways == Spec => []OrderTwiceNeedsOverlap
<1>1. IInv => OrderTwiceNeedsOverlap
  BY CommittedIs DEF IInv, OrderInv, OrderTwiceNeedsOverlap
<1> QED
  BY <1>1, Inductive, PTL

\* Of two rows given codes of one factory that has kept its rows, one counted
\* after the other, the later has counted more.
LEMMA LaterCountsMore ==
  ASSUME IInv, NEW r \in ever, NEW s \in ever, r.given[1] = s.given[1], r.given[1] \notin lost, r.id \in s.after
  PROVE  r.given[3] # s.given[3]
<1>1. r \in Given(r.given[1], Rows) /\ s \in Given(r.given[1], Rows) /\ r \in Rows /\ s \in Rows
  BY DEF Rows, Given
<1>2. r.given[1] \in Factory /\ r.id \in Nat /\ last \in Nat
  BY DEF IInv, TypeOK, Row, Codes
<1>3. r.after \subseteq s.after
  BY <1>1, <1>2 DEF IInv, CountInv, Closed
<1>4. r.after \subseteq 1..(r.id - 1) /\ s.id \in 1..last /\ s.after \subseteq 1..(s.id - 1)
  BY <1>1 DEF IInv, IdInv
<1>5. r.id \notin r.after /\ s.after \subseteq 1..last /\ r.after \subseteq 1..last
  BY <1>2, <1>3, <1>4
<1>6. IsFiniteSet(s.after) /\ IsFiniteSet(r.after)
  <2>1. IsFiniteSet(1..last)
    BY <1>2, FS_Interval
  <2> QED
    BY <1>5, <2>1, FS_Subset
<1>7. Cardinality(r.after \cup {r.id}) = Cardinality(r.after) + 1
  BY <1>5, <1>6, FS_AddElement
<1>8. Cardinality(r.after \cup {r.id}) <= Cardinality(s.after)
  BY <1>3, <1>6, FS_Subset
<1>9. Cardinality(r.after) \in Nat /\ Cardinality(s.after) \in Nat
  BY <1>6, FS_CardinalityType
<1>10. r.given[3] = Cardinality(r.after) + 1 /\ s.given[3] = Cardinality(s.after) + 1
  BY <1>1 DEF IInv, CountInv
<1> QED
  BY <1>7, <1>8, <1>9, <1>10

\* Two orders are given one code only where a row has left their factory, or
\* neither had been inserted when the other's code was counted.
THEOREM CodeTwiceAlways == Spec => []CodeTwiceNeedsLossOrOverlap
<1>1. IInv => CodeTwiceNeedsLossOrOverlap
  <2> SUFFICES ASSUME IInv, NEW r \in ever, NEW s \in ever, r.given = s.given, r.given[1] \notin lost
               PROVE  Unseen(r, s, "after")
    BY DEF CodeTwiceNeedsLossOrOverlap
  <2>1. r.id \notin s.after
    BY LaterCountsMore
  <2>2. s.id \notin r.after
    BY LaterCountsMore
  <2> QED
    BY <2>1, <2>2 DEF Unseen
<1> QED
  BY <1>1, Inductive, PTL

\* No detail outlives its order, unless its code was rewritten or shared.
THEOREM DetailsHaveOrderAlways == Spec => []DetailsHaveOrder
<1>1. IInv => DetailsHaveOrder
  BY DEF IInv, PickInv
<1> QED
  BY <1>1, Inductive, PTL

\* Only orders a user picked are changed or deleted, unless they have shared
\* a code.
THEOREM OnlyPickedChangeAlways == Spec => []OnlyPickedChange
<1>1. IInv => OnlyPickedChange
  BY DEF IInv, PickInv
<1> QED
  BY <1>1, Inductive, PTL

\* A request waits for an open transaction only, and of the open transactions
\* one can go on, or may be ended as the victim of a deadlock.
THEOREM WaitsForTheOpenAlways == Spec => []WaitsForTheOpen
<1>1. ASSUME IInv PROVE WaitsForTheOpen
  <2> SUFFICES ASSUME NEW c \in Call, step[c] # "idle", ~GoesOn(c)
               PROVE  \E d \in Call : (GoesOn(d) \/ MayBeVictim(d)) /\ own[d] # {}
    BY DEF WaitsForTheOpen
  <2>1. ASSUME NEW d \in Call, own[d] # {}, ~GoesOn(d)
        PROVE  step[d] = "count" /\ ReadWaits(d)
    BY <1>1, <2>1 DEF IInv, Shape, GoesOn
  <2>2. Blocked(c)
    BY <1>1 DEF IInv, TypeOK, Steps, Shape, Named, GoesOn, ReadWaits
  <2>3. PICK d \in Call \ {c} : own[d] # {}
    BY <2>2 DEF Blocked
  <2>4. CASE GoesOn(d)
    BY <2>3, <2>4
  <2>5. CASE ~GoesOn(d)
    <3>1. step[d] = "count" /\ ~versioned /\ Blocked(d)
      BY <2>1, <2>3, <2>5 DEF ReadWaits
    <3>2. PICK u \in Call \ {d} : own[u] # {}
      BY <3>1 DEF Blocked
    <3>3. CASE GoesOn(u)
      BY <3>2, <3>3
    <3>4. CASE ~GoesOn(u)
      <4>1. step[u] = "count"
        BY <2>1, <3>2, <3>4
      <4> QED
        BY <2>3, <3>1, <3>2, <4>1 DEF MayBeVictim
    <3> QED
      BY <3>3, <3>4
  <2> QED
    BY <2>4, <2>5
<1> QED
  BY <1>1, Inductive, PTL

-----------------------------------------------------------------------------
(* The order book.                                                         *)

Shown(r) == [id |-> r.id, factory |-> r.factory, order |-> r.order, code |-> r.code]
Show(R)  == {Shown(r) : r \in R}

\* What readers see of rows.
LEMMA ShowIs ==
  ASSUME NEW R, NEW S
  PROVE  /\ Ids(Show(R)) = Ids(R)
         /\ Show(R \cup S) = Show(R) \cup Show(S)
         /\ DetailsOf(Show(R)) = DetailsOf(R)
<1>1. \A r : Shown(r).id = r.id /\ Shown(r).code = r.code
  BY DEF Shown
<1>2. Ids(Show(R)) \subseteq Ids(R)
  BY <1>1 DEF Ids, Show
<1>3. ASSUME NEW r \in R PROVE r.id \in Ids(Show(R)) /\ [id |-> r.id, code |-> r.code] \in DetailsOf(Show(R))
  <2>1. PICK s \in Show(R) : s = Shown(r)
    BY DEF Show
  <2> QED
    BY <1>1, <2>1 DEF Ids, DetailsOf
<1>4. Ids(R) \subseteq Ids(Show(R))
  BY <1>3 DEF Ids
<1>5. DetailsOf(Show(R)) \subseteq DetailsOf(R)
  BY <1>1 DEF DetailsOf, Show
<1>6. DetailsOf(R) \subseteq DetailsOf(Show(R))
  BY <1>3 DEF DetailsOf
<1>7. Show(R \cup S) = Show(R) \cup Show(S)
  BY DEF Show
<1> QED
  BY <1>2, <1>4, <1>5, <1>6, <1>7

\* Steps readers do not see.
Unseeable == UNCHANGED <<Committed, detail, ever>>

LEMMA StillUnseen == ASSUME Still PROVE Unseeable
  BY DEF Still, Unseeable, Committed, Uncommitted

\* An uncommitted row, inserted or rolled back, is not seen.
LEMMA InsertUnseen ==
  ASSUME TypeOK, Shape, IdInv, TxnInv, NEW c \in Call, Insert(c)
  PROVE  Unseeable
<1>1. PICK n : n = NewRow(c)
  OBVIOUS
<1>2. master' = master \cup {n} /\ own' = [own EXCEPT ![c] = @ \cup {n}]
  BY <1>1 DEF Insert
<1>3. n \notin master
  <2>1. n.id = last + 1
    BY <1>1, NewRowIs DEF Insert
  <2>2. \A r \in master : r.id \in 1..last
    BY DEF IdInv, Rows
  <2> QED
    BY <2>1, <2>2 DEF TypeOK
<1>4. \A r : r \in Uncommitted' <=> r \in Uncommitted \/ r = n
  BY <1>2 DEF Uncommitted, TypeOK
<1>5. Committed' = Committed
  BY <1>2, <1>3, <1>4 DEF Committed
<1> QED
  BY <1>5 DEF Unseeable, Insert, outside, history

LEMMA RollbackUnseen ==
  ASSUME TypeOK, NEW c \in Call, Rollback(c), RollbackFrame
  PROVE  Unseeable
<1>1. master' = master \ own[c] /\ \A d \in Call : own'[d] = IF d = c THEN {} ELSE own[d]
  BY DEF Rollback, TypeOK
<1>2. \A r : r \in Uncommitted <=> r \in own[c] \/ \E d \in Call \ {c} : r \in own[d]
  BY DEF Uncommitted
<1>3. \A r : r \in Uncommitted' <=> \E d \in Call \ {c} : r \in own[d]
  BY <1>1 DEF Uncommitted
<1>4. Committed' = Committed
  BY <1>1, <1>2, <1>3 DEF Committed
<1> QED
  BY <1>4 DEF Unseeable, RollbackFrame, history

\* The commit places what the transaction has inserted.
LEMMA CommitPlaces ==
  ASSUME TypeOK, IdInv, TxnInv, NEW c \in Call, InsertDetails(c)
  PROVE  Book!Place \/ Unseeable
<1>1. /\ master' = master /\ detail' = detail \cup DetailsOf(own[c]) /\ ever' = ever \cup own[c]
      /\ \A d \in Call : own'[d] = IF d = c THEN {} ELSE own[d]
  BY DEF InsertDetails, TypeOK
<1>2. \A r : r \in Uncommitted <=> r \in own[c] \/ r \in Uncommitted'
  BY <1>1 DEF Uncommitted
<1>3. \A r \in own[c] : r \in master /\ r \notin Uncommitted'
  BY <1>1 DEF Uncommitted, TxnInv
<1>4. Committed' = Committed \cup own[c] /\ Ids(Committed) \subseteq Ids(ever)
  BY <1>1, <1>2, <1>3 DEF Committed, TxnInv, Ids
<1>5. Ids(ever') = Ids(ever) \cup Ids(own[c])
  BY <1>1 DEF Ids
<1>6. CASE own[c] = {}
  <2>1. DetailsOf(own[c]) = {}
    BY <1>6 DEF DetailsOf
  <2> QED
    BY <1>1, <1>4, <1>6, <2>1 DEF Unseeable
<1>7. CASE own[c] # {}
  <2> DEFINE S == Show(own[c])
  <2>1. Show(Committed') = Show(Committed) \cup S
    BY <1>4, ShowIs
  <2>2. Ids(S) = Ids(own[c]) /\ Ids(own[c]) \cap Ids(ever) = {} /\ Ids(Show(Committed)) \subseteq Ids(ever)
    BY <1>4, ShowIs DEF TxnInv
  <2>3. \A r \in S : r.id \notin Ids(ever)
    BY <2>2 DEF Ids
  <2>4. \A r \in Show(Committed) : r.id \in Ids(ever)
    BY <2>2 DEF Ids
  <2>5. Show(Committed') \ Show(Committed) = S
    BY <2>1, <2>3, <2>4
  <2>6. \A r, s \in S : r.id = s.id => r = s
    BY <1>3 DEF IdInv, Show, Shown
  <2>7. S # {}
    BY <1>7 DEF Show
  <2>8. detail' = detail \cup DetailsOf(S)
    BY <1>1, ShowIs
  <2>9. Ids(ever') = Ids(ever) \cup Ids(S) /\ Ids(S) \cap Ids(ever) = {}
    BY <1>5, <2>2
  <2> HIDE DEF S
  <2>10. /\ Show(Committed') \ Show(Committed) # {}
         /\ Ids(Show(Committed') \ Show(Committed)) \cap Ids(ever) = {}
         /\ \A r, s \in Show(Committed') \ Show(Committed) : r.id = s.id => r = s
         /\ Show(Committed') = Show(Committed) \cup (Show(Committed') \ Show(Committed))
         /\ detail' = detail \cup DetailsOf(Show(Committed') \ Show(Committed))
         /\ Ids(ever') = Ids(ever) \cup Ids(Show(Committed') \ Show(Committed))
    BY <2>1, <2>5, <2>6, <2>7, <2>8, <2>9
  <2> QED
    BY ONLY <2>10 DEF Book!Place, Book!Ids, Show, Shown, Ids, DetailsOf
<1> QED
  BY <1>6, <1>7

\* An update of orders amends those of one code.
LEMMA WritesAmend ==
  ASSUME TypeOK, Shape, TxnInv, IdInv, IdInv', NEW c \in Call, Writes(c)
  PROVE  Book!AmendOrders
<1>1. PICK k \in todo[c], b \in Body : Rewrites(k, b)
  BY WritesIs
<1>2. master \subseteq ever /\ Committed = master /\ Committed' = master' /\ detail' = detail
  BY WritesIs DEF Writes, Committed, Uncommitted
<1> DEFINE R == {r \in master : r.code = k}
           W == {Written(r, b) : r \in R}
<1>3. master' = (master \ R) \cup W /\ ever' = ever \cup W /\ Ids(W) = Ids(R)
  BY <1>1 DEF Rewrites
<1>4. R \subseteq master /\ \A r \in master \ R : r \in master'
  BY <1>3
<1>5. \A r \in R : r.code = k
  OBVIOUS
<1> HIDE DEF R, W
<1>6. Ids(master') = Ids(master) /\ Ids(ever') = Ids(ever)
  <2>1. \A A, B : Ids(A \cup B) = Ids(A) \cup Ids(B)
    BY DEF Ids
  <2>2. master = (master \ R) \cup R /\ ever = ever \cup R
    BY <1>2, <1>4
  <2>3. Ids(master') = Ids(master \ R) \cup Ids(R) /\ Ids(master) = Ids(master \ R) \cup Ids(R)
    BY <1>3, <2>1, <2>2
  <2>4. Ids(ever') = Ids(ever) \cup Ids(R) /\ Ids(ever) = Ids(ever) \cup Ids(R)
    BY <1>3, <2>1, <2>2
  <2> QED
    BY <2>3, <2>4
<1>7. Ids(Show(master')) = Ids(Show(master))
  BY <1>6, ShowIs
<1>8. \A r, s \in Show(master) \ Show(master') : r.code = s.code
  BY <1>4, <1>5 DEF Show, Shown
<1>9. \A r, s \in Show(master') : r.id = s.id => r = s
  BY DEF IdInv, Show, Shown
<1>10. Book!Amended(Show(master), Show(master'))
  BY <1>7, <1>8, <1>9 DEF Book!Amended, Book!Ids, Ids
<1> QED
  BY <1>2, <1>6, <1>10 DEF Book!AmendOrders, Show, Shown

\* An edit amends the details of one code.
LEMMA EditAmends ==
  ASSUME TypeOK, Shape, IdInv, IdInv', NEW c \in Call, EditDetails(c)
  PROVE  Book!AmendDetails
<1>1. PICK b \in Body :
        detail' = (detail \ {d \in detail : d.code \in todo[c]})
                  \cup {[d EXCEPT !.code = Or(b.code, @)] : d \in {e \in detail : e.code \in todo[c]}}
  BY DEF EditDetails
<1> DEFINE D == {d \in detail : d.code \in todo[c]}
           E == {[d EXCEPT !.code = Or(b.code, @)] : d \in D}
<1>2. detail' = (detail \ D) \cup E
  BY <1>1
<1>3. \A d \in D : d \in Detail /\ d.code \in todo[c]
  BY DEF TypeOK
<1>4. \A d \in D : [d EXCEPT !.code = Or(b.code, @)].id = d.id
  BY <1>3 DEF Detail
<1>5. Ids(E) = Ids(D) /\ D \subseteq detail
  BY <1>4 DEF Ids
<1> HIDE DEF D, E
<1>6. Ids(detail') = Ids(detail)
  <2>1. \A A, B : Ids(A \cup B) = Ids(A) \cup Ids(B)
    BY DEF Ids
  <2>2. detail = (detail \ D) \cup D
    BY <1>5
  <2>3. Ids(detail') = Ids(detail \ D) \cup Ids(E)
    BY <1>2, <2>1
  <2>4. Ids(detail) = Ids(detail \ D) \cup Ids(D)
    BY <2>1, <2>2
  <2> QED
    BY <1>5, <2>3, <2>4
<1>7. \A d, e \in detail \ detail' : d.code = e.code
  <2>1. \A d \in detail \ detail' : d \in D
    BY <1>2
  <2> QED
    BY <1>3, <2>1 DEF EditDetails, Shape
<1>8. Book!Amended(detail, detail')
  BY <1>6, <1>7 DEF Book!Amended, Book!Ids, Ids, IdInv
<1>9. Committed' = Committed /\ ever' = ever
  BY DEF EditDetails, outside, Committed, Uncommitted
<1> QED
  BY <1>8, <1>9 DEF Book!AmendDetails

\* The statements of a deletion withdraw the rows of its codes.
LEMMA DeletionWithdraws ==
  ASSUME TypeOK, Shape, TxnInv, NEW c \in Call, DeleteDetails(c) \/ DeleteMasters(c)
  PROVE  Book!WithdrawDetails \/ Book!WithdrawOrders
<1>1. CASE DeleteDetails(c)
  <2>1. detail' = detail \ WithCode(detail, todo[c]) /\ master' = master /\ own' = own /\ ever' = ever
    BY <1>1 DEF DeleteDetails, history
  <2>2. Committed' = Committed
    BY <2>1 DEF Committed, Uncommitted
  <2>3. Book!Without(detail, detail')
    BY <2>1 DEF Book!Without, WithCode
  <2> QED
    BY <2>1, <2>2, <2>3 DEF Book!WithdrawDetails
<1>2. CASE DeleteMasters(c)
  <2>1. master' = master \ WithCode(master, todo[c]) /\ detail' = detail /\ own' = own /\ ever' = ever
    BY <1>2 DEF DeleteMasters
  <2>2. Committed' = {r \in Committed : r.code \notin todo[c]}
    BY <2>1 DEF Committed, Uncommitted, WithCode
  <2>3. \A r \in Show(Committed) : r \in Show(Committed') \/ r.code \in todo[c]
    BY <2>2 DEF Show, Shown
  <2>4. \A r \in Show(Committed') : r \in Show(Committed) /\ r.code \notin todo[c]
    BY <2>2 DEF Show, Shown
  <2>5. Book!Without(Show(Committed), Show(Committed'))
    BY <2>3, <2>4 DEF Book!Without
  <2> QED
    BY <2>1, <2>5 DEF Book!WithdrawOrders, Show, Shown
<1> QED
  BY <1>1, <1>2

LEMMA BookStep == ASSUME IInv, IInv', [Next]_vars PROVE [Book!Next]_(Book!vars)
<1>1. ASSUME NEW c \in Call, Asks(c) \/ Check(c) \/ Count(c) \/ Picks(c) \/ Find(c) \/ FailItem(c) PROVE Unseeable
  BY <1>1, StillSteps, StillUnseen
<1>2. ASSUME NextMonth \/ UNCHANGED vars PROVE Unseeable
  BY <1>2, MonthStill, StillUnseen
<1>3. \/ Unseeable \/ Book!Place \/ Book!AmendOrders \/ Book!AmendDetails
      \/ Book!WithdrawDetails \/ Book!WithdrawOrders
  BY <1>1, <1>2, InsertUnseen, RollbackUnseen, CommitPlaces, WritesAmend, EditAmends, DeletionWithdraws, NextCases
     DEF IInv
<1>4. Unseeable => UNCHANGED Book!vars
  BY DEF Unseeable, Book!vars
<1> QED
  BY <1>3, <1>4 DEF Book!Next

\* The tables implement OrderBook, for any requests, factories, orders and
\* bodies: creates are all or nothing for whoever reads, through failures,
\* deadlocks and interleaved updates and deletions.
THEOREM BookImplemented == Spec => ImplementsBook
<1>1. Init => Book!Init
  BY DEF Init, Book!Init, Committed, Uncommitted, Ids
<1>2. IInv /\ IInv' /\ [Next]_vars => [Book!Next]_(Book!vars)
  BY BookStep
<1> QED
  BY <1>1, <1>2, Inductive, PTL DEF Spec, ImplementsBook, Book!Spec
=============================================================================
