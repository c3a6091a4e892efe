--------------------------- MODULE TransferOrder ---------------------------
(***************************************************************************)
(* Transfer orders: createTransferOrder checks that none of the order      *)
(* numbers has one, then inserts a row of dv_transferordermst per number   *)
(* and their details in one transaction.  The subscriber gives each row    *)
(* its code: the factory, the month, and one more than the factory's rows. *)
(* Users pick orders of the list, and every other call names the code:     *)
(* approvals and edits write any columns of all rows that have it, the     *)
(* order number, the factory and the code itself included; a deletion      *)
(* removes the details and then, in a statement of its own, the orders.    *)
(*                                                                         *)
(* No body is validated: the list of a create may name an order twice, as  *)
(* the pack list does that users choose from (an order in several kg_no).  *)
(* No item of it has a keyid.  The or_no of a detail is left out: no       *)
(* statement reads it.                                                     *)
(*                                                                         *)
(* Neither table has a unique index.  Statements that scan one wait for    *)
(* the rows others have not committed; plain reads do not where the        *)
(* database has READ_COMMITTED_SNAPSHOT on.                                *)
(***************************************************************************)
EXTENDS Naturals, Sequences, FiniteSets

CONSTANTS
  Call,        \* requests at once
  Factory,     \* FactoryCodeRef gives each a letter of its own
  Company,     \* the factories whose users send requests, X-User-Company
  Order,       \* order numbers, or_no
  Same,        \* "the body does not name this column"
  Body,        \* what bodies may write
  ListLimit,   \* items of a create
  WorkLimit,   \* items and picks of all requests of a behaviour
  MonthLimit,  \* the last month of a behaviour
  FaultLimit   \* failing requests in a behaviour

\* transfer_order_code: the factory's letter, the month, a number.
Codes == Factory \X Nat \X Nat

ASSUME TransferAssumption ==
  /\ Company \subseteq Factory
  /\ Same \notin Factory \cup Order \cup Codes
  /\ Body \subseteq [factory : Factory \cup {Same}, order : Order \cup {Same}, code : Codes \cup {Same}]
  /\ ListLimit \in Nat /\ WorkLimit \in Nat /\ MonthLimit \in Nat /\ FaultLimit \in Nat

VARIABLES
  master,    \* rows of dv_transferordermst, committed or not
  detail,    \* rows of dv_transferorderdet: the order they came with, the code
  changed,   \* the orders approved, and those whose details were changed
  last,      \* the last identity value
  month,
  versioned, \* READ_COMMITTED_SNAPSHOT
  step,      \* where a request is
  list,      \* the items a create has still to insert
  todo,      \* codes to delete or to change
  checked,   \* rows a create has checked its orders against
  counted,   \* rows the subscriber has counted for the next code
  own,       \* rows of a request's open transaction
  asked, faults

\* History: read by the properties, never by a guard.
VARIABLES
  ever,    \* rows ever committed, in all their versions
  noted,   \* details ever committed, in all their versions
  lost,    \* factories from which a row has gone
  picked   \* orders users picked to delete or to change

tables  == <<master, detail, changed, last>>
request == <<step, list, todo, checked, counted, own>>
outside == <<month, versioned, asked, faults>>
history == <<ever, noted, lost, picked>>
vars    == <<tables, request, outside, history>>

Ids(R) == {r.id : r \in R}

\* Besides its columns: the code it was given, the rows its create had
\* checked against, and those its code was counted from.
Row    == [id: Nat, factory: Factory, order: Order, code: Codes,
           given: Codes, past: SUBSET Nat, after: SUBSET Nat]
Detail == [id: Nat, code: Codes]
Item   == [factory: Factory, order: Order]

Steps == {"idle", "check", "count", "insert", "details", "find", "approve", "update", "edit",
          "delete_details", "delete_masters"}

TypeOK ==
  /\ master \subseteq Row
  /\ detail \subseteq Detail
  /\ changed \subseteq Nat /\ picked \subseteq Nat
  /\ last \in Nat /\ month \in Nat /\ asked \in Nat /\ faults \in Nat
  /\ versioned \in BOOLEAN
  /\ step \in [Call -> Steps]
  /\ list \in [Call -> Seq(Item)]
  /\ todo \in [Call -> SUBSET Codes]
  /\ checked \in [Call -> SUBSET Nat]
  /\ counted \in [Call -> SUBSET Nat]
  /\ own \in [Call -> SUBSET Row]
  /\ ever \subseteq Row /\ noted \subseteq Detail /\ lost \subseteq Factory

Init ==
  /\ master = {} /\ detail = {} /\ changed = {}
  /\ last = 0 /\ month = 0 /\ asked = 0 /\ faults = 0
  /\ versioned \in BOOLEAN
  /\ step = [c \in Call |-> "idle"]
  /\ list = [c \in Call |-> <<>>]
  /\ todo = [c \in Call |-> {}]
  /\ checked = [c \in Call |-> {}]
  /\ counted = [c \in Call |-> {}]
  /\ own = [c \in Call |-> {}]
  /\ ever = {} /\ noted = {} /\ lost = {} /\ picked = {}

Uncommitted == UNION {own[c] : c \in Call}
Committed   == master \ Uncommitted
Visible(c)  == Committed \cup own[c]

\* A statement of c meets a row another transaction has not committed.
Blocked(c) == \E d \in Call \ {c} : own[d] # {}
ReadWaits(c) == ~versioned /\ Blocked(c)

\* getTransferOrderByFactory: what a user picks from.
List(f) == {r \in Committed : r.factory = f}

Goto(c, s)  == step' = [step EXCEPT ![c] = s]
Free(c, s)  == step[c] = "idle" /\ Goto(c, s)
\* The request ends: its local variables are gone.
Answer(c) ==
  /\ Goto(c, "idle")
  /\ list' = [list EXCEPT ![c] = <<>>] /\ todo' = [todo EXCEPT ![c] = {}]
  /\ checked' = [checked EXCEPT ![c] = {}] /\ counted' = [counted EXCEPT ![c] = {}]

-----------------------------------------------------------------------------
(* createTransferOrder                                                     *)

\* Each item is of the factory that asks.
Create(c, f, L) ==
  /\ Free(c, "check")
  /\ asked' = asked + Len(L) /\ asked' <= WorkLimit
  /\ list' = [list EXCEPT ![c] = [i \in DOMAIN L |-> [factory |-> f, order |-> L[i]]]]
  /\ UNCHANGED <<tables, todo, checked, counted, own, month, versioned, faults, history>>

Existing(c) == \E r \in Committed, i \in DOMAIN list[c] : r.order = list[c][i].order

\* Mutant: the check reads the first of the orders.
CheckOne(c) ==
  /\ step[c] = "check" /\ ~ReadWaits(c)
  /\ IF \E r \in Committed : r.order = Head(list[c]).order THEN Answer(c)
     ELSE /\ Goto(c, "count")
          /\ checked' = [checked EXCEPT ![c] = Ids(Committed)]
          /\ UNCHANGED <<list, todo, counted>>
  /\ UNCHANGED <<tables, own, outside, history>>

\* existsBy, before the transaction: 409 when an order has one.
Check(c) ==
  /\ step[c] = "check" /\ ~ReadWaits(c)
  /\ IF Existing(c) THEN Answer(c)
     ELSE /\ Goto(c, "count")
          /\ checked' = [checked EXCEPT ![c] = Ids(Committed)]
          /\ UNCHANGED <<list, todo, counted>>
  /\ UNCHANGED <<tables, own, outside, history>>

\* TransferOrderEntitySubscriber.beforeInsert, in the transaction.
Count(c) ==
  /\ step[c] = "count" /\ ~ReadWaits(c)
  /\ Goto(c, "insert")
  /\ counted' = [counted EXCEPT ![c] = Ids({r \in Visible(c) : r.factory = Head(list[c]).factory})]
  /\ UNCHANGED <<tables, list, todo, checked, own, outside, history>>

NextRow(c, k) ==
  [id |-> last + 1, factory |-> Head(list[c]).factory, order |-> Head(list[c]).order, code |-> k,
   given |-> k, past |-> checked[c], after |-> counted[c]]

\* Mutant: approved orders are not counted.
NewRowOpen(c) == NextRow(c, <<Head(list[c]).factory, month, Cardinality(counted[c] \ changed) + 1>>)
NewRow(c)     == NextRow(c, <<Head(list[c]).factory, month, Cardinality(counted[c]) + 1>>)

\* One row per item of the list.
Insert(c) ==
  /\ step[c] = "insert"
  /\ master' = master \cup {NewRow(c)}
  /\ own' = [own EXCEPT ![c] = @ \cup {NewRow(c)}]
  /\ list' = [list EXCEPT ![c] = Tail(@)]
  /\ Goto(c, IF Len(list[c]) = 1 THEN "details" ELSE "count")
  /\ last' = last + 1
  /\ UNCHANGED <<detail, changed, todo, checked, counted, outside, history>>

DetailsOf(R) == {[id |-> r.id, code |-> r.code] : r \in R}

\* Mutant: the transaction is not committed and keeps its locks.
InsertDetailsOpen(c) ==
  /\ step[c] = "details"
  /\ detail' = detail \cup DetailsOf(own[c])
  /\ ever' = ever \cup own[c] /\ noted' = noted \cup DetailsOf(own[c])
  /\ Answer(c)
  /\ UNCHANGED <<master, changed, last, own, outside, lost, picked>>

\* The details of all rows, and the commit.
InsertDetails(c) ==
  /\ step[c] = "details"
  /\ detail' = detail \cup DetailsOf(own[c])
  /\ ever' = ever \cup own[c] /\ noted' = noted \cup DetailsOf(own[c])
  /\ own' = [own EXCEPT ![c] = {}]
  /\ Answer(c)
  /\ UNCHANGED <<master, changed, last, outside, lost, picked>>

\* Mutant: the rows are inserted outside the transaction, which undoes nothing.
RollbackNothing(c) ==
  /\ own' = [own EXCEPT ![c] = {}]
  /\ Answer(c)
  /\ UNCHANGED master

Rollback(c) ==
  /\ master' = master \ own[c]
  /\ own' = [own EXCEPT ![c] = {}]
  /\ Answer(c)

\* Two creates wait for each other's rows: SQL Server ends one of them.
MayBeVictim(c) ==
  /\ step[c] = "count" /\ own[c] # {} /\ ~versioned
  /\ \E d \in Call \ {c} : own[d] # {} /\ step[d] = "count"
Victim(c) ==
  /\ MayBeVictim(c)
  /\ Rollback(c)
  /\ UNCHANGED <<detail, changed, last, outside, history>>

\* A statement fails, times out, or the server restarts.
Fail(c) ==
  /\ step[c] # "idle"
  /\ faults < FaultLimit /\ faults' = faults + 1
  /\ Rollback(c)
  /\ UNCHANGED <<detail, changed, last, month, versioned, asked, history>>

-----------------------------------------------------------------------------
(* The calls that name orders by their code                                *)

Pick(c, R, s) ==
  /\ Free(c, s)
  /\ R # {}
  /\ asked' = asked + Cardinality(Ids(R)) /\ asked' <= WorkLimit
  /\ picked' = picked \cup Ids(R)
  /\ todo' = [todo EXCEPT ![c] = {r.code : r \in R}]
  /\ UNCHANGED <<tables, list, checked, counted, own, month, versioned, faults, ever, noted, lost>>

Delete(c, R)      == Pick(c, R, "delete_details")
Approve(c, r)     == Pick(c, {r}, "find")
UpdateMulti(c, R) == Pick(c, R, "update")
UpdateDetail(c, r) == Pick(c, {r}, "edit")

\* findOneBy: 404 when no row has the code.
Find(c) ==
  /\ step[c] = "find" /\ ~ReadWaits(c)
  /\ IF \E r \in Committed : r.code \in todo[c] THEN Goto(c, "approve") /\ UNCHANGED <<list, todo, checked, counted>>
     ELSE Answer(c)
  /\ UNCHANGED <<tables, own, outside, history>>

\* What a row holds after a body has been written to it.
Or(x, y) == IF x = Same THEN y ELSE x
Written(r, b) ==
  [r EXCEPT !.factory = Or(b.factory, @), !.order = Or(b.order, @), !.code = Or(b.code, @)]

\* UPDATE ... SET the columns of b WHERE transfer_order_code = k.
Write(k, b) ==
  LET R == {r \in master : r.code = k}
  IN  /\ master' = (master \ R) \cup {Written(r, b) : r \in R}
      /\ changed' = changed \cup Ids(R)
      /\ ever' = ever \cup {Written(r, b) : r \in R}
      /\ lost' = lost \cup {r.factory : r \in {s \in R : Written(s, b).factory # s.factory}}

\* updateTransferOrderApprove.
WriteApproval(c) ==
  /\ step[c] = "approve" /\ ~Blocked(c)
  /\ \E k \in todo[c], b \in Body : Write(k, b)
  /\ Answer(c)
  /\ UNCHANGED <<detail, last, own, outside, noted, picked>>

ItemDone(c, k) ==
  IF todo[c] = {k} THEN Answer(c)
  ELSE todo' = [todo EXCEPT ![c] = @ \ {k}] /\ UNCHANGED <<step, list, checked, counted>>

\* updateMulti: one update per item, in the order Promise.all runs them.  An
\* item names its code, which stays as it is.
WriteItem(c) ==
  /\ step[c] = "update" /\ ~Blocked(c)
  /\ \E k \in todo[c], b \in Body :
       /\ b.code = Same
       /\ Write(k, b)
       /\ ItemDone(c, k)
  /\ UNCHANGED <<detail, last, own, outside, noted, picked>>

\* The statement of one item fails; Promise.all does not stop the others.
FailItem(c) ==
  /\ step[c] = "update"
  /\ faults < FaultLimit /\ faults' = faults + 1
  /\ \E k \in todo[c] : ItemDone(c, k)
  /\ UNCHANGED <<tables, own, month, versioned, asked, history>>

\* updateTransferOrder: the details of the code, 404 when there are none.
EditDetails(c) ==
  /\ step[c] = "edit"
  /\ \E b \in Body :
       LET D == {d \in detail : d.code \in todo[c]}
           E == {[d EXCEPT !.code = Or(b.code, @)] : d \in D}
       IN  /\ detail' = (detail \ D) \cup E
           /\ noted' = noted \cup E
           /\ changed' = changed \cup Ids(D)
  /\ Answer(c)
  /\ UNCHANGED <<master, last, own, outside, ever, lost, picked>>

WithCode(S, K) == {r \in S : r.code \in K}

\* Mutant: the orders are deleted first, and a failure leaves their details.
DeleteMastersFirst(c) ==
  /\ step[c] = "delete_details" /\ ~Blocked(c)
  /\ master' = master \ WithCode(master, todo[c])
  /\ Goto(c, "delete_masters")
  /\ UNCHANGED <<detail, changed, last, list, todo, checked, counted, own, outside, history>>

\* 404 when there are none; otherwise the orders are next.
DeleteDetails(c) ==
  /\ step[c] = "delete_details"
  /\ detail' = detail \ WithCode(detail, todo[c])
  /\ IF detail' = detail THEN Answer(c)
     ELSE Goto(c, "delete_masters") /\ UNCHANGED <<list, todo, checked, counted>>
  /\ UNCHANGED <<master, changed, last, own, outside, history>>

\* Mutant: the statement takes the codes' factory and month, not the number.
DeleteMonth(c) ==
  /\ step[c] = "delete_masters" /\ ~Blocked(c)
  /\ master' = {r \in master : \A k \in todo[c] : <<k[1], k[2]>> # <<r.code[1], r.code[2]>>}
  /\ Answer(c)
  /\ UNCHANGED <<detail, changed, last, own, outside, history>>

DeleteMasters(c) ==
  /\ step[c] = "delete_masters" /\ ~Blocked(c)
  /\ master' = master \ WithCode(master, todo[c])
  /\ lost' = lost \cup {r.factory : r \in WithCode(master, todo[c])}
  /\ Answer(c)
  /\ UNCHANGED <<detail, changed, last, own, outside, ever, noted, picked>>

-----------------------------------------------------------------------------
NextMonth ==
  /\ month < MonthLimit
  /\ month' = month + 1
  /\ UNCHANGED <<tables, request, versioned, asked, faults, history>>

Work(c) ==
  \/ Check(c) \/ Count(c) \/ Insert(c) \/ InsertDetails(c) \/ Victim(c)
  \/ Find(c) \/ WriteApproval(c) \/ WriteItem(c) \/ EditDetails(c)
  \/ DeleteDetails(c) \/ DeleteMasters(c)

\* The lists a client may send.
Lists == UNION {[1..n -> Order] : n \in 1..ListLimit}

Request(c) ==
  \E f \in Company :
    \/ \E L \in Lists : Create(c, f, L)
    \/ \E R \in SUBSET List(f) : Delete(c, R) \/ UpdateMulti(c, R)
    \/ \E r \in List(f) : Approve(c, r) \/ UpdateDetail(c, r)

Next == (\E c \in Call : Request(c) \/ Work(c) \/ Fail(c) \/ FailItem(c)) \/ NextMonth

Spec == Init /\ [][Next]_vars

\* The server runs its requests, and SQL Server ends every deadlock.
FairSpec == Spec /\ \A c \in Call : WF_vars(Work(c))

-----------------------------------------------------------------------------
(* What holds.                                                             *)

Unseen(r, s, field) == r.id \notin s[field] /\ s.id \notin r[field]

\* The versions there have been of an order and of its details.
Versions(i)   == {v \in ever : v.id = i}
Names(i)      == {v.code : v \in Versions(i)} \cup {d.code : d \in {e \in noted : e.id = i}}
Renumbered(i) == \E v, w \in Versions(i) : v.order # w.order
Recoded(i)    == \E k, l \in Names(i) : k # l
Shares(i)     == \E j \in Ids(ever) \ {i} : Names(i) \cap Names(j) # {}

\* The check for an existing order (409) fails only for a list that names an
\* order twice and where two creates overlap: of two transfer orders of one
\* order number neither was there when the other was checked, unless someone
\* has rewritten the number of one.
OrderTwiceNeedsOverlap ==
  \A r, s \in Committed :
    r.order = s.order /\ r.id # s.id =>
      Unseen(r, s, "past") \/ Renumbered(r.id) \/ Renumbered(s.id)

\* count() + 1 is a code of its own as long as no row leaves the factory, by
\* a deletion or by a rewritten factory, and no two creates overlap: if two
\* orders were given one code, a row has, or neither was there when the
\* other's code was counted.
CodeTwiceNeedsLossOrOverlap ==
  \A r, s \in ever :
    r.given = s.given /\ r.id # s.id => Unseen(r, s, "after") \/ r.given[1] \in lost

\* Although no transaction joins the two deletes, no detail outlives its
\* order, unless their code was rewritten or is another's too: a failure
\* between the deletes leaves orders without detail, never details without
\* order.
DetailsHaveOrder ==
  \A d \in detail : d.id \in Ids(master) \/ Recoded(d.id) \/ Shares(d.id)

\* An order is approved, changed or deleted, or loses its details, because a
\* user picked it, unless it has shared a code with another one.  What a user
\* picked may be deleted or rewritten, and its code given again, before the
\* statement runs.
Gone == Ids(ever) \ (Ids(master) \cap Ids(detail))
OnlyPickedChange == \A i \in changed \cup Gone : i \in picked \/ Shares(i)

\* A request never waits for one that is over, or for a circle nobody breaks:
\* it has its next statement free to run, or a transaction it waits for has,
\* or may be ended as the victim of a deadlock.
GoesOn(c) ==
  \/ step[c] \in {"check", "count", "find"} /\ ~ReadWaits(c)
  \/ step[c] \in {"approve", "update", "delete_masters"} /\ todo[c] # {} /\ ~Blocked(c)
  \/ step[c] \in {"edit", "delete_details", "details"}
  \/ step[c] = "insert" /\ list[c] # <<>>
WaitsForTheOpen ==
  \A c \in Call :
    step[c] # "idle" => \E d \in Call : /\ GoesOn(d) \/ MayBeVictim(d)
                                        /\ d = c \/ own[d] # {}

\* Readers see what OrderBook says: the orders of a create appear together,
\* with their details, or never, whatever
\* statement fails and whoever is the victim of a deadlock; an amendment or a
\* deletion takes all rows of its codes at once.
Book == INSTANCE OrderBook WITH
  orders <- {[id |-> r.id, factory |-> r.factory, order |-> r.order, code |-> r.code] : r \in Committed},
  details <- detail, placed <- Ids(ever)
ImplementsBook == Book!Spec

\* Every request ends, creates that wait for each other's rows included.
CallsEnd == \A c \in Call : step[c] # "idle" ~> step[c] = "idle"
=============================================================================
