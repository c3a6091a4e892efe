--------------------------- MODULE EpcOrderProofs ---------------------------
(* The safety properties of EpcOrder, for any number of tags, orders,      *)
(* exchanges, syncs and scans, any batch size, with row versions or        *)
(* without, and every fault.                                               *)
EXTENDS EpcOrder, TLAPS

-----------------------------------------------------------------------------
(* The inductive invariant, part by part.                                  *)

\* Where a transaction is decides what its local variables can hold.
Local ==
  \A t \in Txn :
    /\ HeldTags(t) \cup batch[t] \cup left[t] \subseteq ids[t]
    /\ pc[t] = "idle" <=> ids[t] = {}
    /\ pc[t] \in {"mongo", "commit"} => batch[t] = {} /\ left[t] = {}
    /\ t \in Exchange => pc[t] # "insert"
    /\ t \in Exchange /\ pc[t] # "idle" => to[t] \in Order

\* Row locks exclude: no row is held twice.  An exchange holds rows that
\* exist, a sync rows of its own it is about to add.
LocksInv ==
  /\ \A t, u \in Txn : t # u => held[t] \cap held[u] = {}
  /\ \A x \in Exchange : \A r \in held[x] : mo[r] # None
  /\ \A y \in Sync : \A r \in held[y] : mo[r] = None /\ r[2] = y
  /\ \A y \in Sync : pc[y] = "insert" => \A e \in batch[y] : mo[<<e, y>>] = None
  /\ \A r \in Row : mo[r] = None => actual[r] = None

\* Every tag of a call is dealt with, or still to be: an exchange misses no
\* row that was there when it began, a sync no tag.
CoverInv ==
  /\ \A x \in Exchange : \A r \in before[x] :
       /\ mo[r] # None /\ r[1] \in ids[x]
       /\ r \in held[x] \/ r[1] \in batch[x] \cup left[x]
  /\ \A y \in Sync : \A e \in ids[y] :
       RowsOf(e) # {} \/ e \in batch[y] \cup left[y] \cup HeldTags(y)

\* Syncs that have worked on a tag at a time, and the rows they leave.
Present(r) == mo[r] # None \/ \E t \in Txn : r \in held[t]
OverlapInv ==
  /\ \A y, z \in Sync : y # z => ids[y] \cap ids[z] \subseteq overlap
  /\ \A y \in Sync : pc[y] = "insert" =>
       \A e \in batch[y] : RowsOf(e) # {} => e \in overlap
  /\ \A q, r \in Row : q # r /\ q[1] = r[1] /\ Present(q) /\ Present(r) => q[1] \in overlap

\* What a scan has read is an order the rows give, unless it is stale.
ReadInv ==
  \A s \in Scan : \A e \in Scanned(s) \ stale[s] : read[s][e] \in OrdersOf(e)

\* The documents of rows about to be committed show what will be committed,
\* unless the tag has another row.
PendingInv ==
  \A t \in Txn : pc[t] = "commit" =>
    \A r \in held[t] :
      r[1] \in Docs \ drift => epcs[r[1]] = Target(t, r[1]) \/ OtherRow(r)

\* A document shows a committed row that nobody is about to change, or what
\* somebody is about to commit for one.
Committing(e) == \E t \in Txn : pc[t] = "commit" /\ e \in HeldTags(t)
ShowsRow(e) ==
  \E r \in RowsOf(e) : /\ epcs[e] = Effective(r)
                        /\ \A t \in Txn : pc[t] = "commit" => r \notin held[t]
ShowsCommit(e) ==
  \E t \in Txn : pc[t] = "commit" /\ e \in HeldTags(t) /\ epcs[e] = Target(t, e)
AgreeInv ==
  \A e \in Docs \ drift :
    RowsOf(e) # {} \/ Committing(e) => ShowsRow(e) \/ ShowsCommit(e)

IInv ==
  /\ TypeOK
  /\ Local
  /\ LocksInv
  /\ CoverInv
  /\ OverlapInv
  /\ ReadInv
  /\ PendingInv
  /\ AgreeInv

-----------------------------------------------------------------------------
(* Type correctness.                                                       *)

\* A statement is sent for tags of its transaction only.
LEMMA BatchesSubset == ASSUME NEW S, NEW b \in Batches(S) PROVE b \subseteq S
  BY DEF Batches

\* A row has a tag.
LEMMA RowTag == ASSUME NEW r \in Row PROVE r[1] \in Epc
  BY DEF Row

\* The rows of a tag are rows.
LEMMA RowsSubset == ASSUME NEW S \in SUBSET Epc PROVE UNION {RowsOf(e) : e \in S} \in SUBSET Row
  BY DEF RowsOf

\* What a scan reads of SQL is an order or one of the two fallbacks.
LEMMA OrdersType == ASSUME TypeOK, NEW e \in Epc PROVE OrdersOf(e) \subseteq MongoOrder
<1>1. ASSUME NEW r \in RowsOf(e) PROVE Effective(r) \in MongoOrder
  BY DEF TypeOK, RowsOf, Effective, MongoOrder
<1> QED
  BY <1>1 DEF OrdersOf, MongoOrder

\* The initial states are typed.
LEMMA InitType == ASSUME Init PROVE TypeOK
<1>1. PICK f \in [Epc -> Order \cup {None}], S \in SUBSET Epc :
        /\ mo = [r \in Row |-> IF r[2] = None THEN f[r[1]] ELSE None]
        /\ epcs = [e \in Epc |-> IF e \notin S THEN None
                                ELSE IF f[e] = None THEN Unknown ELSE f[e]]
  BY DEF Init
<1>2. mo \in [Row -> Order \cup {Undefined, None}]
  BY <1>1, RowTag
<1>3. epcs \in [Epc -> MongoOrder \cup {None}]
  BY <1>1 DEF MongoOrder
<1> QED
  BY <1>2, <1>3, OrderAssumption DEF Init, TypeOK, Txn, NoInfo, OrderAssumption

\* The aggregate selects documents of the collection.
LEMMA SelectionsSubset == ASSUME NEW o, NEW S \in Selections(o) PROVE S \subseteq Epc
<1>1. CASE S \in SelectOne
  <2>1. PICK f \in MongoOrder : S \in SUBSET OfOrder(f)
    BY <1>1 DEF SelectOne
  <2> QED
    BY <2>1 DEF OfOrder
<1>2. CASE S \in SelectMulti(o)
  <2>1. PICK F \in SUBSET MongoOrder : S = UNION {OfOrder(f) : f \in F \ {o}}
    BY <1>2 DEF SelectMulti
  <2> SUFFICES ASSUME NEW e \in S PROVE e \in Epc
    OBVIOUS
  <2>2. PICK f \in F \ {o} : e \in OfOrder(f)
    BY <2>1
  <2> QED
    BY <2>2 DEF OfOrder
<1> QED
  BY <1>1, <1>2 DEF Selections

\* Sending the first statement.
LEMMA BeginType ==
  ASSUME TypeOK, NEW t \in Txn, NEW S \in SUBSET Epc, Begin(t, S)
  PROVE  /\ pc' \in [Txn -> {"idle", "update", "insert", "mongo", "commit"}]
         /\ ids' \in [Txn -> SUBSET Epc]
         /\ left' \in [Txn -> SUBSET Epc]
         /\ batch' \in [Txn -> SUBSET Epc]
<1>1. PICK b \in Batches(S) : /\ batch' = [batch EXCEPT ![t] = b]
                              /\ left' = [left EXCEPT ![t] = S \ b]
  BY DEF Begin
<1>2. b \subseteq Epc
  BY BatchesSubset
<1> QED
  BY <1>1, <1>2 DEF Begin, TypeOK

\* A statement ends, and the next one is sent.
LEMMA LockType ==
  ASSUME TypeOK, NEW t \in Txn, NEW W \in SUBSET Row, Lock(t, W)
  PROVE  TypeOK'
<1> USE DEF TypeOK, rows, past
<1>1. held' \in [Txn -> SUBSET Row]
  BY DEF Lock
<1>2. CASE left[t] = {}
  BY <1>1, <1>2 DEF Lock, NextStatement
<1>3. CASE left[t] # {}
  <2>1. PICK b \in Batches(left[t]) : /\ batch' = [batch EXCEPT ![t] = b]
                                      /\ left' = [left EXCEPT ![t] = @ \ b]
    BY <1>3 DEF Lock, NextStatement
  <2>2. b \subseteq Epc
    BY BatchesSubset
  <2> QED
    BY <1>1, <1>3, <2>1, <2>2 DEF Lock, NextStatement
<1> QED
  BY <1>2, <1>3

\* Writing documents, of whatever tags.
LEMMA MongoWriteType ==
  ASSUME TypeOK, NEW t \in Txn, NEW W, NEW D \in SUBSET Epc, MongoWrite(t, W, D)
  PROVE  /\ epcs' \in [Epc -> MongoOrder \cup {None}]
         /\ drift' \in SUBSET Epc
<1>1. \A e \in Epc : Target(t, e) \in MongoOrder \cup {None}
  BY DEF TypeOK, Target, Txn, MongoOrder
<1> QED
  BY <1>1 DEF TypeOK, MongoWrite

\* Ending a call.
LEMMA EndType ==
  ASSUME TypeOK, NEW t \in Txn, End(t)
  PROVE  /\ pc' \in [Txn -> {"idle", "update", "insert", "mongo", "commit"}]
         /\ ids' \in [Txn -> SUBSET Epc]
         /\ left' \in [Txn -> SUBSET Epc]
         /\ batch' \in [Txn -> SUBSET Epc]
         /\ held' \in [Txn -> SUBSET Row]
         /\ to' \in [Exchange -> Order \cup {None}]
         /\ info' \in [Sync -> [Epc -> Order \cup {Undefined}]]
         /\ before' \in [Exchange -> SUBSET Row]
  BY DEF TypeOK, End, NoInfo

\* The tags of held rows are tags.
LEMMA HeldType == ASSUME TypeOK, NEW t \in Txn PROVE HeldTags(t) \subseteq Epc
  BY RowTag DEF TypeOK, HeldTags

\* Every step keeps the types.
LEMMA NextType == ASSUME TypeOK, [Next]_vars PROVE TypeOK'
<1> USE DEF TypeOK, Txn, rows, txn, past
<1>1. ASSUME NEW x \in Exchange, NEW o \in Order, ExchangeFind(x, o) PROVE TypeOK'
  <2>1. PICK S \in Selections(o) \ {{}} :
            /\ Begin(x, S)
            /\ to' = [to EXCEPT ![x] = o]
            /\ before' = [before EXCEPT ![x] = UNION {RowsOf(e) : e \in S}]
            /\ UNCHANGED <<mo, actual, epcs, held, info, read, versioned, drift, stale, overlap>>
    BY <1>1 DEF ExchangeFind
  <2>2. S \in SUBSET Epc
    BY SelectionsSubset
  <2>3. UNION {RowsOf(e) : e \in S} \in SUBSET Row
    BY <2>2, RowsSubset
  <2> QED
    BY <2>1, <2>2, <2>3, BeginType
<1>2. ASSUME NEW x \in Exchange, ExchangeUpdate(x) PROVE TypeOK'
  <2>1. UNION {RowsOf(e) : e \in batch[x]} \in SUBSET Row
    BY RowsSubset
  <2> QED
    BY <1>2, <2>1, LockType DEF ExchangeUpdate
<1>3. ASSUME NEW x \in Exchange, ExchangeMongo(x) PROVE TypeOK'
  BY <1>3, MongoWriteType DEF ExchangeMongo
<1>4. ASSUME NEW x \in Exchange, ExchangeCommit(x) PROVE TypeOK'
  <2>1. HeldTags(x) \subseteq Epc
    BY HeldType
  <2> QED
    BY <1>4, <2>1, EndType DEF ExchangeCommit, Committed
<1>5. ASSUME NEW y \in Sync, NEW S \in SUBSET Epc, SyncBegin(y, S) PROVE TypeOK'
  BY <1>5, BeginType DEF SyncBegin
<1>6. ASSUME NEW y \in Sync, SyncMatch(y) PROVE TypeOK'
  BY <1>6 DEF SyncMatch
<1>17. ASSUME NEW y \in Sync, SyncInsert(y) PROVE TypeOK'
  <2>1. batch[y] \X {y} \in SUBSET Row
    BY DEF Row
  <2> QED
    BY <1>17, <2>1, LockType DEF SyncInsert
<1>7. ASSUME NEW y \in Sync, SyncMongo(y) PROVE TypeOK'
  <2>1. HeldTags(y) \subseteq Epc
    BY HeldType
  <2> QED
    BY <1>7, <2>1, MongoWriteType DEF SyncMongo, SyncWritten
<1>8. ASSUME NEW y \in Sync, SyncCommit(y) PROVE TypeOK'
  <2>1. HeldTags(y) \subseteq Epc
    BY HeldType
  <2>2. mo' \in [Row -> Order \cup {Undefined, None}]
    BY <1>8, RowTag DEF SyncCommit
  <2> QED
    BY <1>8, <2>1, <2>2, EndType DEF SyncCommit, Committed
<1>9. ASSUME NEW s \in Scan, NEW S \in SUBSET Epc, ScanRead(s, S) PROVE TypeOK'
  BY <1>9 DEF ScanRead
<1>10. ASSUME NEW s \in Scan, ScanWrite(s) PROVE TypeOK'
  BY <1>10 DEF ScanWrite, Scanned
<1>11. ASSUME NEW e \in Epc, Remove(e) PROVE TypeOK'
  BY <1>11 DEF Remove
<1>12. ASSUME NEW t \in Txn, StatementError(t) PROVE TypeOK'
  BY <1>12, EndType DEF StatementError, Rollback
<1>13. ASSUME NEW t \in Txn, MongoError(t) PROVE TypeOK'
  <2>1. PICK W \in SUBSET Written(t) : MongoWrite(t, W, drift \cup W)
    BY <1>13 DEF MongoError
  <2>2. W \in SUBSET Epc
    BY DEF Written, SyncWritten
  <2> QED
    BY <1>13, <2>1, <2>2, MongoWriteType, EndType DEF MongoError, Rollback
<1>14. ASSUME NEW t \in Txn, CommitError(t) PROVE TypeOK'
  BY <1>14, EndType DEF CommitError, Rollback
<1>15. ASSUME NEW s \in Scan, ScanLost(s) PROVE TypeOK'
  BY <1>15 DEF ScanLost
<1>16. CASE UNCHANGED vars
  BY <1>16 DEF vars
<1> QED
  BY <1>1, <1>2, <1>3, <1>4, <1>5, <1>6, <1>7, <1>8, <1>9, <1>10,
     <1>11, <1>12, <1>13, <1>14, <1>15, <1>16, <1>17
  DEF Next, Work, Fault, ExchangeStep, SyncStep

-----------------------------------------------------------------------------
(* Local variables.                                                        *)

\* A transaction that begins works on its batch and what is left.
LEMMA BeginLocal ==
  ASSUME TypeOK, Local, NEW t \in Txn, NEW S \in SUBSET Epc, S # {}, Begin(t, S),
         held' = held,
         \A u \in Exchange : IF u = t THEN to'[u] \in Order ELSE to'[u] = to[u]
  PROVE  Local'
<1>1. PICK b \in Batches(S) : /\ batch' = [batch EXCEPT ![t] = b]
                              /\ left' = [left EXCEPT ![t] = S \ b]
  BY DEF Begin
<1>2. b \subseteq S
  BY BatchesSubset
<1>3. HeldTags(t) = {} /\ \A u \in Txn : HeldTags(u)' = HeldTags(u)
  BY DEF Begin, Local, HeldTags
<1> QED
  BY <1>1, <1>2, <1>3 DEF Begin, TypeOK, Local

\* It locks rows of its tags, and takes the next batch from what is left.
LEMMA LockLocal ==
  ASSUME TypeOK, Local, NEW t \in Txn, NEW W, Lock(t, W), pc[t] # "idle",
         \A r \in W : r[1] \in ids[t]
  PROVE  Local'
<1> USE DEF TypeOK, Local
<1>1. \A u \in Txn : HeldTags(u)' \subseteq ids[u]
  BY DEF Lock, HeldTags
<1>2. CASE left[t] = {}
  BY <1>1, <1>2 DEF Lock, NextStatement
<1>3. CASE left[t] # {}
  <2>1. PICK b \in Batches(left[t]) : /\ batch' = [batch EXCEPT ![t] = b]
                                      /\ left' = [left EXCEPT ![t] = @ \ b]
    BY <1>3 DEF Lock, NextStatement
  <2>2. b \subseteq left[t]
    BY BatchesSubset
  <2> QED
    BY <1>1, <1>3, <2>1, <2>2 DEF Lock, NextStatement
<1> QED
  BY <1>2, <1>3

\* It leaves nothing behind.
LEMMA EndLocal ==
  ASSUME TypeOK, Local, NEW t \in Txn, End(t)
  PROVE  Local'
<1>1. \A u \in Txn : HeldTags(u)' = IF u = t THEN {} ELSE HeldTags(u)
  BY DEF TypeOK, End, HeldTags
<1> QED
  BY <1>1 DEF TypeOK, Local, End

\* Steps that write no local variable.
LEMMA SameLocal ==
  ASSUME Local, UNCHANGED <<pc, ids, left, batch, held, to>>
  PROVE  Local'
  BY DEF Local, HeldTags

\* Every step keeps the local variables in step with pc.
LEMMA LocalStep == ASSUME TypeOK, Local, [Next]_vars PROVE Local'
<1> USE DEF Txn, rows, txn, past
<1>1. ASSUME NEW x \in Exchange, NEW o \in Order, ExchangeFind(x, o) PROVE Local'
  <2>1. PICK S \in Selections(o) \ {{}} :
            /\ Begin(x, S)
            /\ to' = [to EXCEPT ![x] = o]
            /\ held' = held
    BY <1>1 DEF ExchangeFind
  <2>2. S \in SUBSET Epc
    BY SelectionsSubset
  <2>3. \A u \in Exchange : IF u = x THEN to'[u] \in Order ELSE to'[u] = to[u]
    BY <2>1 DEF TypeOK
  <2> QED
    BY <2>1, <2>2, <2>3, BeginLocal
<1>2. ASSUME NEW x \in Exchange, ExchangeUpdate(x) PROVE Local'
  <2> DEFINE W == UNION {RowsOf(e) : e \in batch[x]}
  <2>1. \A r \in W : r[1] \in ids[x]
    BY DEF RowsOf, Local
  <2> QED
    BY <1>2, <2>1, LockLocal DEF ExchangeUpdate
<1>3. ASSUME NEW x \in Exchange, ExchangeMongo(x) PROVE Local'
  BY <1>3 DEF ExchangeMongo, TypeOK, Local, HeldTags
<1>4. ASSUME NEW x \in Exchange, ExchangeCommit(x) PROVE Local'
  BY <1>4, EndLocal DEF ExchangeCommit, Committed
<1>5. ASSUME NEW y \in Sync, NEW S \in (SUBSET Epc) \ {{}}, SyncBegin(y, S) PROVE Local'
  <2>1. \A u \in Exchange : u # y /\ to'[u] = to[u]
    BY <1>5, OrderAssumption DEF SyncBegin, OrderAssumption
  <2> QED
    BY <1>5, <2>1, BeginLocal DEF SyncBegin
<1>6. ASSUME NEW y \in Sync, SyncMatch(y) PROVE Local'
  BY <1>6, OrderAssumption DEF SyncMatch, TypeOK, Local, HeldTags, OrderAssumption
<1>17. ASSUME NEW y \in Sync, SyncInsert(y) PROVE Local'
  <2>1. \A r \in batch[y] \X {y} : r[1] \in ids[y]
    BY DEF Local
  <2> QED
    BY <1>17, <2>1, LockLocal DEF SyncInsert
<1>7. ASSUME NEW y \in Sync, SyncMongo(y) PROVE Local'
  BY <1>7 DEF SyncMongo, TypeOK, Local, HeldTags
<1>8. ASSUME NEW y \in Sync, SyncCommit(y) PROVE Local'
  BY <1>8, EndLocal DEF SyncCommit, Committed
<1>9. ASSUME NEW s \in Scan, NEW S \in SUBSET Epc, ScanRead(s, S) PROVE Local'
  BY <1>9, SameLocal DEF ScanRead
<1>10. ASSUME NEW s \in Scan, ScanWrite(s) PROVE Local'
  BY <1>10, SameLocal DEF ScanWrite
<1>11. ASSUME NEW e \in Epc, Remove(e) PROVE Local'
  BY <1>11, SameLocal DEF Remove
<1>12. ASSUME NEW t \in Txn, StatementError(t) PROVE Local'
  BY <1>12, EndLocal DEF StatementError, Rollback
<1>13. ASSUME NEW t \in Txn, MongoError(t) PROVE Local'
  BY <1>13, EndLocal DEF MongoError, Rollback
<1>14. ASSUME NEW t \in Txn, CommitError(t) PROVE Local'
  BY <1>14, EndLocal DEF CommitError, Rollback
<1>15. ASSUME NEW s \in Scan, ScanLost(s) PROVE Local'
  BY <1>15, SameLocal DEF ScanLost
<1>16. CASE UNCHANGED vars
  BY <1>16, SameLocal DEF vars
<1> QED
  BY <1>1, <1>2, <1>3, <1>4, <1>5, <1>6, <1>7, <1>8, <1>9, <1>10,
     <1>11, <1>12, <1>13, <1>14, <1>15, <1>16, <1>17
  DEF Next, Work, Fault, ExchangeStep, SyncStep

-----------------------------------------------------------------------------
(* Row locks, what calls cover, and rows of one tag.                       *)

\* A batch that is narrowed, or followed by the next one.
LEMMA NextBatch ==
  ASSUME TypeOK, Local, NEW t \in Txn, NEW W, Lock(t, W)
  PROVE  /\ batch'[t] \cup left'[t] = left[t]
         /\ \A u \in Txn \ {t} : batch'[u] = batch[u] /\ left'[u] = left[u] /\ pc'[u] = pc[u]
         /\ \A u \in Txn : held'[u] = IF u = t THEN held[t] \cup W ELSE held[u]
         /\ pc'[t] \in {"update", "mongo"}
<1> USE DEF TypeOK
<1>1. CASE left[t] = {}
  BY <1>1 DEF Lock, NextStatement
<1>2. CASE left[t] # {}
  <2>1. PICK b \in Batches(left[t]) : /\ batch' = [batch EXCEPT ![t] = b]
                                      /\ left' = [left EXCEPT ![t] = @ \ b]
    BY <1>2 DEF Lock, NextStatement
  <2>2. b \subseteq left[t]
    BY BatchesSubset
  <2> QED
    BY <1>2, <2>1, <2>2 DEF Lock, NextStatement
<1> QED
  BY <1>1, <1>2

\* Steps that write no row and no lock.
LEMMA SameLocks ==
  ASSUME LocksInv, UNCHANGED <<mo, actual, held>>,
         \A y \in Sync : pc'[y] = "insert" => pc[y] = "insert" /\ batch'[y] = batch[y]
  PROVE  LocksInv'
  BY DEF LocksInv

\* The end of a call only frees rows.
LEMMA EndLocks ==
  ASSUME TypeOK, LocksInv, NEW t \in Txn, End(t), UNCHANGED rows
  PROVE  LocksInv'
  BY DEF TypeOK, LocksInv, End, rows, Txn

\* Every step keeps the rows locked by one transaction at most: an update
\* waits until its rows are free, an insert makes rows of its own, and only
\* the end of the call frees them.
LEMMA LocksStep == ASSUME TypeOK, Local, LocksInv, [Next]_vars PROVE LocksInv'
<1> USE DEF Txn, rows, txn, past
<1>1. ASSUME NEW x \in Exchange, NEW o \in Order, ExchangeFind(x, o) PROVE LocksInv'
  <2>1. PICK S : Begin(x, S)
    BY <1>1 DEF ExchangeFind
  <2>2. x \notin Sync
    BY OrderAssumption DEF OrderAssumption
  <2> QED
    BY <1>1, <2>1, <2>2, SameLocks DEF ExchangeFind, Begin, TypeOK
<1>2. ASSUME NEW x \in Exchange, ExchangeUpdate(x) PROVE LocksInv'
  <2> DEFINE W == UNION {RowsOf(e) : e \in batch[x]}
  <2>1. x \notin Sync
    BY OrderAssumption DEF OrderAssumption
  <2>2. \A u \in Txn \ {x} : batch[x] \cap HeldTags(u) = {}
    BY <1>2, <2>1 DEF ExchangeUpdate, MayRun, Free
  <2>3. /\ \A u \in Txn : held'[u] = IF u = x THEN held[x] \cup W ELSE held[u]
        /\ mo' = mo /\ actual' = actual
        /\ \A u \in Txn \ {x} : pc'[u] = pc[u] /\ batch'[u] = batch[u]
    BY <1>2, NextBatch DEF ExchangeUpdate, Lock
  <2>4. \A u \in Txn \ {x} : W \cap held[u] = {}
    BY <2>2 DEF RowsOf, HeldTags
  <2>5. \A t, u \in Txn : t # u => held'[t] \cap held'[u] = {}
    BY <2>3, <2>4 DEF LocksInv
  <2>6. \A r \in W : mo[r] # None
    BY DEF RowsOf
  <2> QED
    BY <2>1, <2>3, <2>5, <2>6 DEF LocksInv
<1>3. ASSUME NEW x \in Exchange, ExchangeMongo(x) PROVE LocksInv'
  BY <1>3, SameLocks DEF ExchangeMongo, TypeOK
<1>4. ASSUME NEW x \in Exchange, ExchangeCommit(x) PROVE LocksInv'
  <2>1. \A t \in Txn : held'[t] = IF t = x THEN {} ELSE held[t]
    BY <1>4 DEF ExchangeCommit, Committed, End, TypeOK
  <2>2. \A u \in Txn : pc'[u] = "insert" => pc[u] = "insert" /\ batch'[u] = batch[u]
    BY <1>4 DEF ExchangeCommit, Committed, End, TypeOK
  <2>3. mo' = mo /\ \A r \in Row : r \notin held[x] => actual'[r] = actual[r]
    BY <1>4 DEF ExchangeCommit
  <2> QED
    BY <2>1, <2>2, <2>3 DEF LocksInv
<1>5. ASSUME NEW y \in Sync, NEW S \in (SUBSET Epc) \ {{}}, SyncBegin(y, S) PROVE LocksInv'
  BY <1>5, SameLocks DEF SyncBegin, Begin, TypeOK
<1>6. ASSUME NEW y \in Sync, SyncMatch(y) PROVE LocksInv'
  <2>1. \A e \in batch'[y] : mo[<<e, y>>] = None
    BY <1>6 DEF SyncMatch, RowsOf, Row, TypeOK
  <2>2. /\ UNCHANGED <<mo, actual, held>>
        /\ \A u \in Txn \ {y} : pc'[u] = pc[u] /\ batch'[u] = batch[u]
    BY <1>6 DEF SyncMatch, TypeOK
  <2> QED
    BY <2>1, <2>2 DEF LocksInv
<1>17. ASSUME NEW y \in Sync, SyncInsert(y) PROVE LocksInv'
  <2> DEFINE W == batch[y] \X {y}
  <2>1. /\ \A u \in Txn : held'[u] = IF u = y THEN held[y] \cup W ELSE held[u]
        /\ mo' = mo /\ actual' = actual /\ pc[y] = "insert" /\ pc'[y] # "insert"
        /\ \A u \in Txn \ {y} : pc'[u] = pc[u] /\ batch'[u] = batch[u]
    <3>1. Lock(y, W) /\ pc[y] = "insert"
      BY <1>17 DEF SyncInsert
    <3> HIDE DEF W
    <3>2. /\ \A u \in Txn : held'[u] = IF u = y THEN held[y] \cup W ELSE held[u]
          /\ \A u \in Txn \ {y} : pc'[u] = pc[u] /\ batch'[u] = batch[u]
          /\ pc'[y] \in {"update", "mongo"}
      BY <3>1, NextBatch
    <3> QED
      BY <3>1, <3>2 DEF Lock
  <2>2. \A r \in W : mo[r] = None /\ r[2] = y
    BY <2>1 DEF LocksInv
  <2>3. \A u \in Txn \ {y} : W \cap held[u] = {}
    BY <2>2 DEF LocksInv
  <2>4. \A t, u \in Txn : t # u => held'[t] \cap held'[u] = {}
    BY <2>1, <2>3 DEF LocksInv
  <2>5. y \notin Exchange
    BY OrderAssumption DEF OrderAssumption
  <2> QED
    BY <2>1, <2>2, <2>4, <2>5 DEF LocksInv
<1>7. ASSUME NEW y \in Sync, SyncMongo(y) PROVE LocksInv'
  BY <1>7, SameLocks DEF SyncMongo, TypeOK
<1>8. ASSUME NEW y \in Sync, SyncCommit(y) PROVE LocksInv'
  <2>1. \A t \in Txn : held'[t] = IF t = y THEN {} ELSE held[t]
    BY <1>8 DEF SyncCommit, Committed, End, TypeOK
  <2>2. \A r \in Row : mo'[r] = IF r \in held[y] THEN info[y][r[1]] ELSE mo[r]
    BY <1>8 DEF SyncCommit
  <2>3. \A r \in Row : info[y][r[1]] # None
    BY RowTag, OrderAssumption DEF TypeOK, OrderAssumption
  <2>4. \A t \in Txn : held[t] \subseteq Row
    BY DEF TypeOK
  <2>5. actual' = actual
    BY <1>8 DEF SyncCommit
  <2>6. \A u \in Txn : pc'[u] = "insert" => u # y /\ pc[u] = "insert" /\ batch'[u] = batch[u]
    BY <1>8 DEF SyncCommit, Committed, End, TypeOK
  <2>7. ASSUME NEW z \in Sync, pc'[z] = "insert", NEW e \in batch'[z]
        PROVE  mo'[<<e, z>>] = None
    <3>1. mo[<<e, z>>] = None /\ z # y /\ e \in Epc
      BY <2>6, <2>7 DEF LocksInv, TypeOK
    <3>2. <<e, z>> \in Row /\ <<e, z>> \notin held[y]
      BY <3>1 DEF LocksInv, Row
    <3> QED
      BY <2>2, <3>1, <3>2
  <2> QED
    BY <2>1, <2>2, <2>3, <2>4, <2>5, <2>7 DEF LocksInv
<1>9. ASSUME NEW s \in Scan, NEW S \in SUBSET Epc, ScanRead(s, S) PROVE LocksInv'
  BY <1>9, SameLocks DEF ScanRead
<1>10. ASSUME NEW s \in Scan, ScanWrite(s) PROVE LocksInv'
  BY <1>10, SameLocks DEF ScanWrite
<1>11. ASSUME NEW e \in Epc, Remove(e) PROVE LocksInv'
  BY <1>11, SameLocks DEF Remove
<1>12. ASSUME NEW t \in Txn, StatementError(t) PROVE LocksInv'
  BY <1>12, EndLocks DEF StatementError, Rollback
<1>13. ASSUME NEW t \in Txn, MongoError(t) PROVE LocksInv'
  BY <1>13, EndLocks DEF MongoError, Rollback
<1>14. ASSUME NEW t \in Txn, CommitError(t) PROVE LocksInv'
  BY <1>14, EndLocks DEF CommitError, Rollback
<1>15. ASSUME NEW s \in Scan, ScanLost(s) PROVE LocksInv'
  BY <1>15, SameLocks DEF ScanLost
<1>16. CASE UNCHANGED vars
  BY <1>16, SameLocks DEF vars
<1> QED
  BY <1>1, <1>2, <1>3, <1>4, <1>5, <1>6, <1>7, <1>8, <1>9, <1>10,
     <1>11, <1>12, <1>13, <1>14, <1>15, <1>16, <1>17
  DEF Next, Work, Fault, ExchangeStep, SyncStep

\* No step takes a row away.
LEMMA RowsStay ==
  ASSUME TypeOK, [Next]_vars
  PROVE  /\ \A r \in Row : mo[r] # None => mo'[r] # None
         /\ \A e \in Epc : RowsOf(e) \subseteq RowsOf(e)'
<1>1. ASSUME NEW y \in Sync, SyncCommit(y) PROVE \A r \in Row : mo[r] # None => mo'[r] # None
  <2>1. \A r \in Row : info[y][r[1]] # None
    BY RowTag, OrderAssumption DEF TypeOK, OrderAssumption
  <2> QED
    BY <1>1, <2>1 DEF SyncCommit
<1>2. mo' = mo \/ \E y \in Sync : SyncCommit(y)
  BY DEF Next, Work, ExchangeStep, SyncStep, Fault, vars, rows, ExchangeFind,
    ExchangeUpdate, ExchangeMongo, ExchangeCommit, SyncBegin, SyncMatch, SyncInsert,
    SyncMongo, Lock, StatementError, MongoError, CommitError, Rollback, ScanRead,
    ScanWrite, ScanLost, Remove
<1>3. \A r \in Row : mo[r] # None => mo'[r] # None
  BY <1>1, <1>2
<1> QED
  BY <1>3 DEF RowsOf

\* Steps that leave a call alone or end it.
LEMMA CoverKept ==
  ASSUME TypeOK, CoverInv,
         \A r \in Row : mo[r] # None => mo'[r] # None,
         \A t \in Txn : \/ /\ ids'[t] = ids[t] /\ batch'[t] = batch[t]
                           /\ left'[t] = left[t] /\ held'[t] = held[t]
                        \/ ids'[t] = {},
         \A x \in Exchange : \/ /\ before'[x] = before[x] /\ ids'[x] = ids[x]
                                /\ batch'[x] = batch[x] /\ left'[x] = left[x]
                                /\ held'[x] = held[x]
                             \/ before'[x] = {}
  PROVE  CoverInv'
<1>1. \A x \in Exchange : before[x] \subseteq Row
  BY DEF TypeOK
<1>2. ASSUME NEW y \in Sync, NEW e \in ids'[y]
      PROVE  RowsOf(e)' # {} \/ e \in batch'[y] \cup left'[y] \cup HeldTags(y)'
  <2>1. y \in Txn
    BY DEF Txn
  <2>2. ids'[y] = ids[y] /\ batch'[y] = batch[y] /\ left'[y] = left[y] /\ held'[y] = held[y]
    BY <1>2, <2>1
  <2> QED
    BY <1>2, <2>2 DEF CoverInv, HeldTags, RowsOf
<1>3. ASSUME NEW x \in Exchange, NEW r \in before'[x]
      PROVE  /\ mo'[r] # None /\ r[1] \in ids'[x]
             /\ r \in held'[x] \/ r[1] \in batch'[x] \cup left'[x]
  <2>1. /\ before'[x] = before[x] /\ ids'[x] = ids[x] /\ batch'[x] = batch[x]
        /\ left'[x] = left[x] /\ held'[x] = held[x]
    BY <1>3
  <2> QED
    BY <1>1, <1>3, <2>1 DEF CoverInv
<1> QED
  BY <1>2, <1>3 DEF CoverInv

LEMMA EndCover ==
  ASSUME TypeOK, CoverInv, NEW t \in Txn, End(t),
         \A r \in Row : mo[r] # None => mo'[r] # None
  PROVE  CoverInv'
<1>1. \A u \in Txn : \/ /\ ids'[u] = ids[u] /\ batch'[u] = batch[u]
                        /\ left'[u] = left[u] /\ held'[u] = held[u]
                     \/ ids'[u] = {}
  BY DEF End, TypeOK
<1>2. \A x \in Exchange : \/ /\ before'[x] = before[x] /\ ids'[x] = ids[x]
                             /\ batch'[x] = batch[x] /\ left'[x] = left[x]
                             /\ held'[x] = held[x]
                          \/ before'[x] = {}
  BY DEF End, TypeOK, Txn
<1> QED
  BY <1>1, <1>2, CoverKept

\* Every step of a call passes over no tag of it.
LEMMA CoverStep == ASSUME TypeOK, Local, CoverInv, [Next]_vars PROVE CoverInv'
<1> USE DEF Txn, rows, txn, past
<1>0. \A r \in Row : mo[r] # None => mo'[r] # None
  BY RowsStay
<1>1. ASSUME NEW x \in Exchange, NEW o \in Order, ExchangeFind(x, o) PROVE CoverInv'
  <2>1. PICK S \in Selections(o) \ {{}} :
            /\ Begin(x, S)
            /\ before' = [before EXCEPT ![x] = UNION {RowsOf(e) : e \in S}]
            /\ UNCHANGED <<mo, held>>
    BY <1>1 DEF ExchangeFind
  <2>2. PICK b \in Batches(S) : /\ batch' = [batch EXCEPT ![x] = b]
                                /\ left' = [left EXCEPT ![x] = S \ b]
    BY <2>1 DEF Begin
  <2>3. ids' = [ids EXCEPT ![x] = S] /\ b \cup (S \ b) = S
    BY <2>1, BatchesSubset DEF Begin
  <2>4. x \notin Sync
    BY OrderAssumption DEF OrderAssumption
  <2>5. ASSUME NEW r \in before'[x]
        PROVE  mo[r] # None /\ r[1] \in S
    BY <2>1, <2>5 DEF TypeOK, RowsOf
  <2>6. \A y \in Sync : /\ ids'[y] = ids[y] /\ batch'[y] = batch[y]
                        /\ left'[y] = left[y] /\ HeldTags(y)' = HeldTags(y)
    BY <2>1, <2>2, <2>3, <2>4 DEF TypeOK, HeldTags
  <2>7. \A e : RowsOf(e)' = RowsOf(e)
    BY <2>1 DEF RowsOf
  <2>8. \A z \in Exchange \ {x} : /\ before'[z] = before[z] /\ ids'[z] = ids[z]
                                   /\ batch'[z] = batch[z] /\ left'[z] = left[z]
    BY <2>1, <2>2, <2>3 DEF TypeOK
  <2>9. batch'[x] \cup left'[x] = S /\ ids'[x] = S
    BY <2>2, <2>3 DEF TypeOK
  <2> QED
    BY <2>1, <2>5, <2>6, <2>7, <2>8, <2>9 DEF CoverInv
<1>2. ASSUME NEW x \in Exchange, ExchangeUpdate(x) PROVE CoverInv'
  <2> DEFINE W == UNION {RowsOf(e) : e \in batch[x]}
  <2>1. Lock(x, W)
    BY <1>2 DEF ExchangeUpdate
  <2>2. \A r \in before[x] : r[1] \in batch[x] => r \in W
    BY DEF CoverInv, RowsOf, TypeOK
  <2> HIDE DEF W
  <2>3. /\ batch'[x] \cup left'[x] = left[x] /\ held'[x] = held[x] \cup W
        /\ \A u \in Txn \ {x} : /\ batch'[u] = batch[u] /\ left'[u] = left[u]
                                 /\ held'[u] = held[u]
    BY <2>1, NextBatch
  <2>4. UNCHANGED <<mo, ids, before>>
    BY <2>1 DEF Lock
  <2>5. x \notin Sync
    BY OrderAssumption DEF OrderAssumption
  <2> QED
    BY <2>2, <2>3, <2>4, <2>5 DEF CoverInv, HeldTags, RowsOf
<1>3. ASSUME NEW x \in Exchange, ExchangeMongo(x) PROVE CoverInv'
  BY <1>3, <1>0, CoverKept DEF ExchangeMongo
<1>4. ASSUME NEW x \in Exchange, ExchangeCommit(x) PROVE CoverInv'
  BY <1>4, <1>0, EndCover DEF ExchangeCommit, Committed
<1>5. ASSUME NEW y \in Sync, NEW S \in (SUBSET Epc) \ {{}}, SyncBegin(y, S) PROVE CoverInv'
  <2>1. PICK b \in Batches(S) : /\ batch' = [batch EXCEPT ![y] = b]
                                /\ left' = [left EXCEPT ![y] = S \ b]
    BY <1>5 DEF SyncBegin, Begin
  <2>2. ids' = [ids EXCEPT ![y] = S] /\ b \cup (S \ b) = S /\ UNCHANGED <<mo, held, before>>
    BY <1>5, BatchesSubset DEF SyncBegin, Begin
  <2>3. y \notin Exchange
    BY OrderAssumption DEF OrderAssumption
  <2>4. \A e : RowsOf(e)' = RowsOf(e)
    BY <2>2 DEF RowsOf
  <2>5. \A u \in Txn \ {y} : /\ ids'[u] = ids[u] /\ batch'[u] = batch[u]
                              /\ left'[u] = left[u] /\ HeldTags(u)' = HeldTags(u)
    BY <2>1, <2>2 DEF TypeOK, HeldTags
  <2>6. batch'[y] \cup left'[y] = S /\ ids'[y] = S
    BY <2>1, <2>2 DEF TypeOK
  <2> QED
    BY <2>2, <2>3, <2>4, <2>5, <2>6 DEF CoverInv
<1>6. ASSUME NEW y \in Sync, SyncMatch(y) PROVE CoverInv'
  <2>1. /\ UNCHANGED <<mo, ids, left, held, before>>
        /\ batch' = [batch EXCEPT ![y] = {e \in @ : RowsOf(e) = {}}]
    BY <1>6 DEF SyncMatch
  <2>2. y \notin Exchange
    BY OrderAssumption DEF OrderAssumption
  <2>3. \A e : RowsOf(e)' = RowsOf(e)
    BY <2>1 DEF RowsOf
  <2>4. \A u \in Txn : HeldTags(u)' = HeldTags(u)
    BY <2>1 DEF HeldTags
  <2>5. \A u \in Txn \ {y} : batch'[u] = batch[u]
    BY <2>1 DEF TypeOK
  <2>6. \A e \in batch[y] : RowsOf(e) # {} \/ e \in batch'[y]
    BY <2>1 DEF TypeOK
  <2> QED
    BY <2>1, <2>2, <2>3, <2>4, <2>5, <2>6 DEF CoverInv
<1>17. ASSUME NEW y \in Sync, SyncInsert(y) PROVE CoverInv'
  <2> DEFINE W == batch[y] \X {y}
  <2>1. Lock(y, W)
    BY <1>17 DEF SyncInsert
  <2>2. \A e \in batch[y] : <<e, y>> \in W
    OBVIOUS
  <2> HIDE DEF W
  <2>3. /\ batch'[y] \cup left'[y] = left[y] /\ held'[y] = held[y] \cup W
        /\ \A u \in Txn \ {y} : /\ batch'[u] = batch[u] /\ left'[u] = left[u]
                                 /\ held'[u] = held[u]
    BY <2>1, NextBatch
  <2>4. UNCHANGED <<mo, ids, before>>
    BY <2>1 DEF Lock
  <2>5. y \notin Exchange
    BY OrderAssumption DEF OrderAssumption
  <2>6. \A e : RowsOf(e)' = RowsOf(e)
    BY <2>4 DEF RowsOf
  <2>7. ASSUME NEW e \in batch[y] PROVE e \in HeldTags(y)'
    <3>1. <<e, y>> \in held'[y] /\ <<e, y>>[1] = e
      BY <2>2, <2>3
    <3> QED
      BY <3>1 DEF HeldTags
  <2>8. HeldTags(y) \subseteq HeldTags(y)' /\ \A u \in Txn \ {y} : HeldTags(u)' = HeldTags(u)
    BY <2>3 DEF HeldTags
  <2> QED
    BY <2>3, <2>4, <2>5, <2>6, <2>7, <2>8 DEF CoverInv
<1>7. ASSUME NEW y \in Sync, SyncMongo(y) PROVE CoverInv'
  BY <1>7, <1>0, CoverKept DEF SyncMongo
<1>8. ASSUME NEW y \in Sync, SyncCommit(y) PROVE CoverInv'
  BY <1>8, <1>0, EndCover DEF SyncCommit, Committed
<1>9. ASSUME NEW s \in Scan, NEW S \in SUBSET Epc, ScanRead(s, S) PROVE CoverInv'
  BY <1>9, <1>0, CoverKept DEF ScanRead
<1>10. ASSUME NEW s \in Scan, ScanWrite(s) PROVE CoverInv'
  BY <1>10, <1>0, CoverKept DEF ScanWrite
<1>11. ASSUME NEW e \in Epc, Remove(e) PROVE CoverInv'
  BY <1>11, <1>0, CoverKept DEF Remove
<1>12. ASSUME NEW t \in Txn, StatementError(t) PROVE CoverInv'
  BY <1>12, <1>0, EndCover DEF StatementError, Rollback
<1>13. ASSUME NEW t \in Txn, MongoError(t) PROVE CoverInv'
  BY <1>13, <1>0, EndCover DEF MongoError, Rollback
<1>14. ASSUME NEW t \in Txn, CommitError(t) PROVE CoverInv'
  BY <1>14, <1>0, EndCover DEF CommitError, Rollback
<1>15. ASSUME NEW s \in Scan, ScanLost(s) PROVE CoverInv'
  BY <1>15, <1>0, CoverKept DEF ScanLost
<1>16. CASE UNCHANGED vars
  BY <1>16, <1>0, CoverKept DEF vars
<1> QED
  BY <1>1, <1>2, <1>3, <1>4, <1>5, <1>6, <1>7, <1>8, <1>9, <1>10,
     <1>11, <1>12, <1>13, <1>14, <1>15, <1>16, <1>17
  DEF Next, Work, Fault, ExchangeStep, SyncStep

-----------------------------------------------------------------------------
(* Several rows of one tag.                                                *)

\* Steps that add no row and begin no call: the past only grows.
LEMMA OverlapKept ==
  ASSUME TypeOK, OverlapInv, mo' = mo, overlap' = overlap,
         \A t \in Txn : /\ ids'[t] \subseteq ids[t]
                        /\ held'[t] \subseteq held[t],
         \A y \in Sync : pc'[y] = "insert" => pc[y] = "insert" /\ batch'[y] = batch[y]
  PROVE  OverlapInv'
<1> USE DEF Txn
<1>1. \A r : Present(r)' => Present(r)
  BY DEF Present
<1>2. \A e : RowsOf(e)' = RowsOf(e)
  BY DEF RowsOf
<1> QED
  BY <1>1, <1>2 DEF OverlapInv

\* The end of a call without a commit.
LEMMA EndOverlap ==
  ASSUME TypeOK, OverlapInv, NEW t \in Txn, End(t), mo' = mo, overlap' = overlap
  PROVE  OverlapInv'
<1>1. \A u \in Txn : /\ ids'[u] \subseteq ids[u]
                     /\ held'[u] \subseteq held[u]
  BY DEF End, TypeOK
<1>2. \A y \in Sync : pc'[y] = "insert" => pc[y] = "insert" /\ batch'[y] = batch[y]
  BY DEF End, TypeOK, Txn
<1> QED
  BY <1>1, <1>2, OverlapKept

\* Only syncs that have met on a tag give it a second row: a row that is
\* found is not inserted again, and one that is inserted after the match is
\* the work of a sync still under way.
LEMMA OverlapStep ==
  ASSUME TypeOK, Local, LocksInv, OverlapInv, [Next]_vars
  PROVE  OverlapInv'
<1> USE DEF Txn, rows, txn, past
<1>1. ASSUME NEW x \in Exchange, NEW o \in Order, ExchangeFind(x, o) PROVE OverlapInv'
  <2>1. PICK S : Begin(x, S) /\ UNCHANGED <<mo, held, overlap>>
    BY <1>1 DEF ExchangeFind
  <2>2. x \notin Sync
    BY OrderAssumption DEF OrderAssumption
  <2>3. \A y \in Sync : ids'[y] = ids[y] /\ pc'[y] = pc[y] /\ batch'[y] = batch[y]
    BY <2>1, <2>2 DEF Begin, TypeOK
  <2>4. \A r : Present(r)' <=> Present(r)
    BY <2>1 DEF Present
  <2>5. \A e : RowsOf(e)' = RowsOf(e)
    BY <2>1 DEF RowsOf
  <2> QED
    BY <2>1, <2>3, <2>4, <2>5 DEF OverlapInv
<1>2. ASSUME NEW x \in Exchange, ExchangeUpdate(x) PROVE OverlapInv'
  <2> DEFINE W == UNION {RowsOf(e) : e \in batch[x]}
  <2>1. Lock(x, W)
    BY <1>2 DEF ExchangeUpdate
  <2>2. \A r \in W : mo[r] # None
    BY DEF RowsOf
  <2>3. x \notin Sync
    BY OrderAssumption DEF OrderAssumption
  <2> HIDE DEF W
  <2>4. /\ UNCHANGED <<mo, ids, overlap>>
        /\ \A u \in Txn \ {x} : pc'[u] = pc[u] /\ batch'[u] = batch[u]
        /\ \A u \in Txn : held'[u] = IF u = x THEN held[x] \cup W ELSE held[u]
    <3>1. UNCHANGED <<mo, ids, overlap>>
      BY <2>1 DEF Lock
    <3> QED
      BY <2>1, <3>1, NextBatch
  <2>5. \A r : Present(r)' => Present(r)
    BY <2>2, <2>4 DEF Present
  <2>6. \A e : RowsOf(e)' = RowsOf(e)
    BY <2>4 DEF RowsOf
  <2> QED
    BY <2>3, <2>4, <2>5, <2>6 DEF OverlapInv
<1>3. ASSUME NEW x \in Exchange, ExchangeMongo(x) PROVE OverlapInv'
  BY <1>3, OverlapKept DEF ExchangeMongo, TypeOK
<1>4. ASSUME NEW x \in Exchange, ExchangeCommit(x) PROVE OverlapInv'
  BY <1>4, EndOverlap DEF ExchangeCommit, Committed
<1>5. ASSUME NEW y \in Sync, NEW S \in (SUBSET Epc) \ {{}}, SyncBegin(y, S) PROVE OverlapInv'
  <2>1. /\ ids' = [ids EXCEPT ![y] = S] /\ UNCHANGED <<mo, held>>
        /\ overlap' = overlap \cup (S \cap UNION {ids[z] : z \in Sync \ {y}})
        /\ pc' = [pc EXCEPT ![y] = "update"]
        /\ \A u \in Txn \ {y} : batch'[u] = batch[u]
    BY <1>5 DEF SyncBegin, Begin, TypeOK
  <2>2. \A r : Present(r)' <=> Present(r)
    BY <2>1 DEF Present
  <2>3. \A e : RowsOf(e)' = RowsOf(e)
    BY <2>1 DEF RowsOf
  <2>4. \A z \in Sync \ {y} : S \cap ids[z] \subseteq overlap'
    BY <2>1
  <2>5. \A z \in Sync : pc'[z] = "insert" => z # y /\ pc[z] = "insert" /\ batch'[z] = batch[z]
    BY <2>1 DEF TypeOK
  <2>6. \A z \in Sync : ids'[z] = IF z = y THEN S ELSE ids[z]
    BY <2>1 DEF TypeOK
  <2>7. \A a, z \in Sync : a # z => ids'[a] \cap ids'[z] \subseteq overlap'
    BY <2>1, <2>4, <2>6 DEF OverlapInv
  <2> QED
    BY <2>1, <2>2, <2>3, <2>5, <2>7 DEF OverlapInv
<1>6. ASSUME NEW y \in Sync, SyncMatch(y) PROVE OverlapInv'
  <2>1. /\ UNCHANGED <<mo, ids, held, overlap>>
        /\ \A u \in Txn \ {y} : pc'[u] = pc[u] /\ batch'[u] = batch[u]
        /\ \A e \in batch'[y] : RowsOf(e) = {}
    BY <1>6 DEF SyncMatch, TypeOK
  <2>2. \A r : Present(r)' <=> Present(r)
    BY <2>1 DEF Present
  <2>3. \A e : RowsOf(e)' = RowsOf(e)
    BY <2>1 DEF RowsOf
  <2> QED
    BY <2>1, <2>2, <2>3 DEF OverlapInv
<1>17. ASSUME NEW y \in Sync, SyncInsert(y) PROVE OverlapInv'
  <2> DEFINE W == batch[y] \X {y}
  <2>1. Lock(y, W) /\ pc[y] = "insert"
    BY <1>17 DEF SyncInsert
  <2>2. \A r \in W : r[1] \in batch[y] /\ r[1] \in ids[y] /\ r = <<r[1], y>>
    BY DEF Local
  <2> HIDE DEF W
  <2>3. /\ UNCHANGED <<mo, ids, overlap>>
        /\ \A u \in Txn \ {y} : pc'[u] = pc[u] /\ batch'[u] = batch[u]
        /\ \A u \in Txn : held'[u] = IF u = y THEN held[y] \cup W ELSE held[u]
        /\ pc'[y] # "insert"
    <3>1. UNCHANGED <<mo, ids, overlap>>
      BY <2>1 DEF Lock
    <3>2. pc'[y] # "insert"
      BY <2>1 DEF Lock, NextStatement, TypeOK
    <3> QED
      BY <2>1, <3>1, <3>2, NextBatch
  <2>4. \A e : RowsOf(e)' = RowsOf(e)
    BY <2>3 DEF RowsOf
  <2>5. \A r : Present(r)' => Present(r) \/ r \in W
    BY <2>3 DEF Present
  <2>6. ASSUME NEW r \in W, NEW q \in Row, q # r, q[1] = r[1], Present(q) PROVE r[1] \in overlap
    <3>1. CASE mo[q] # None
      <4>1. q \in RowsOf(r[1])
        BY <2>6, <3>1 DEF RowsOf
      <4> QED
        BY <2>1, <2>2, <4>1 DEF OverlapInv
    <3>2. ASSUME NEW u \in Txn, q \in held[u], mo[q] = None PROVE r[1] \in overlap
      <4>1. u \in Sync /\ q[2] = u
        BY <3>2 DEF LocksInv
      <4>2. q[1] \in ids[u]
        BY <3>2 DEF Local, HeldTags
      <4>3. u # y
        BY <2>2, <2>6, <4>1 DEF Row
      <4> QED
        BY <2>2, <2>6, <4>1, <4>2, <4>3 DEF OverlapInv
    <3> QED
      BY <2>6, <3>1, <3>2 DEF Present
  <2>7. ASSUME NEW q \in Row, NEW r \in Row, q # r, q[1] = r[1], Present(q)', Present(r)'
        PROVE  q[1] \in overlap
    <3>1. CASE Present(q) /\ Present(r)
      BY <2>7, <3>1 DEF OverlapInv
    <3>2. CASE r \in W /\ Present(q)
      BY <2>6, <2>7, <3>2
    <3>3. CASE q \in W /\ Present(r)
      BY <2>6, <2>7, <3>3
    <3>4. ~(q \in W /\ r \in W)
      BY <2>2, <2>7
    <3> QED
      BY <2>5, <2>7, <3>1, <3>2, <3>3, <3>4
  <2> QED
    BY <2>3, <2>4, <2>7 DEF OverlapInv
<1>7. ASSUME NEW y \in Sync, SyncMongo(y) PROVE OverlapInv'
  BY <1>7, OverlapKept DEF SyncMongo, TypeOK
<1>8. ASSUME NEW y \in Sync, SyncCommit(y) PROVE OverlapInv'
  <2>1. /\ \A u \in Txn \ {y} : /\ pc'[u] = pc[u] /\ batch'[u] = batch[u]
                                 /\ ids'[u] = ids[u] /\ held'[u] = held[u]
        /\ pc'[y] = "idle" /\ ids'[y] = {} /\ held'[y] = {} /\ overlap' = overlap
    BY <1>8 DEF SyncCommit, Committed, End, TypeOK
  <2>2. \A r \in Row : mo'[r] = IF r \in held[y] THEN info[y][r[1]] ELSE mo[r]
    BY <1>8 DEF SyncCommit
  <2>3. \A r \in Row : Present(r)' => Present(r)
    BY <2>1, <2>2 DEF Present
  <2>4. ASSUME NEW z \in Sync, pc'[z] = "insert", NEW e \in batch'[z], RowsOf(e)' # {}
        PROVE  e \in overlap
    <3>1. z # y /\ pc[z] = "insert" /\ e \in batch[z] /\ e \in ids[z]
      BY <2>1, <2>4 DEF Local
    <3>2. CASE RowsOf(e) # {}
      BY <3>1, <3>2 DEF OverlapInv
    <3>3. CASE RowsOf(e) = {}
      <4>1. PICK r \in Row : r[1] = e /\ mo'[r] # None
        BY <2>4 DEF RowsOf
      <4>2. r \in held[y]
        BY <2>2, <3>3, <4>1 DEF RowsOf
      <4>3. e \in ids[y]
        BY <4>1, <4>2 DEF Local, HeldTags
      <4> QED
        BY <3>1, <4>3 DEF OverlapInv
    <3> QED
      BY <3>2, <3>3
  <2>5. \A a, z \in Sync : a # z => ids'[a] \cap ids'[z] \subseteq overlap
    BY <2>1 DEF OverlapInv
  <2> QED
    BY <2>1, <2>3, <2>4, <2>5 DEF OverlapInv
<1>9. ASSUME NEW s \in Scan, NEW S \in SUBSET Epc, ScanRead(s, S) PROVE OverlapInv'
  BY <1>9, OverlapKept DEF ScanRead
<1>10. ASSUME NEW s \in Scan, ScanWrite(s) PROVE OverlapInv'
  BY <1>10, OverlapKept DEF ScanWrite
<1>11. ASSUME NEW e \in Epc, Remove(e) PROVE OverlapInv'
  BY <1>11, OverlapKept DEF Remove
<1>12. ASSUME NEW t \in Txn, StatementError(t) PROVE OverlapInv'
  BY <1>12, EndOverlap DEF StatementError, Rollback
<1>13. ASSUME NEW t \in Txn, MongoError(t) PROVE OverlapInv'
  BY <1>13, EndOverlap DEF MongoError, Rollback
<1>14. ASSUME NEW t \in Txn, CommitError(t) PROVE OverlapInv'
  BY <1>14, EndOverlap DEF CommitError, Rollback
<1>15. ASSUME NEW s \in Scan, ScanLost(s) PROVE OverlapInv'
  BY <1>15, OverlapKept DEF ScanLost
<1>16. CASE UNCHANGED vars
  BY <1>16, OverlapKept DEF vars
<1> QED
  BY <1>1, <1>2, <1>3, <1>4, <1>5, <1>6, <1>7, <1>8, <1>9, <1>10,
     <1>11, <1>12, <1>13, <1>14, <1>15, <1>16, <1>17
  DEF Next, Work, Fault, ExchangeStep, SyncStep

-----------------------------------------------------------------------------
(* What scans have read.                                                   *)

\* Steps that change no row and read nothing.
LEMMA ReadKept ==
  ASSUME ReadInv, UNCHANGED <<mo, actual>>,
         \A s \in Scan : \A e \in Scanned(s)' \ stale'[s] :
            e \in Scanned(s) \ stale[s] /\ read'[s][e] = read[s][e]
  PROVE  ReadInv'
<1>1. \A e : OrdersOf(e)' = OrdersOf(e)
  BY DEF OrdersOf, RowsOf, Effective
<1> QED
  BY <1>1 DEF ReadInv

\* A commit changes the orders of the tags it holds, which become stale.
LEMMA CommitRead ==
  ASSUME TypeOK, ReadInv, NEW t \in Txn, Committed(t),
         \A r \in Row \ held[t] : mo'[r] = mo[r] /\ actual'[r] = actual[r]
  PROVE  ReadInv'
<1>1. ASSUME NEW e, e \notin HeldTags(t) PROVE OrdersOf(e)' = OrdersOf(e)
  <2>1. \A r \in Row : r[1] = e => r \notin held[t]
    BY <1>1 DEF HeldTags
  <2>2. RowsOf(e)' = RowsOf(e)
    BY <2>1 DEF RowsOf
  <2>3. \A r \in RowsOf(e) : Effective(r)' = Effective(r)
    BY <2>1 DEF RowsOf, Effective
  <2> QED
    BY <2>2, <2>3 DEF OrdersOf
<1>2. \A s \in Scan : Scanned(s)' = Scanned(s)
  BY DEF Committed, Scanned
<1>3. /\ read' = read
      /\ \A s \in Scan : stale'[s] = stale[s] \cup (HeldTags(t) \cap Scanned(s))
  BY DEF Committed
<1> QED
  BY <1>1, <1>2, <1>3 DEF ReadInv

\* Every step keeps what scans have read true of the rows, or the scan stale.
LEMMA ReadStep == ASSUME TypeOK, ReadInv, [Next]_vars PROVE ReadInv'
<1> USE DEF Txn, rows, txn, past
<1>1. ASSUME NEW x \in Exchange, NEW o \in Order, ExchangeFind(x, o) PROVE ReadInv'
  BY <1>1, ReadKept DEF ExchangeFind, Scanned
<1>2. ASSUME NEW x \in Exchange, ExchangeUpdate(x) PROVE ReadInv'
  BY <1>2, ReadKept DEF ExchangeUpdate, Lock, Scanned
<1>3. ASSUME NEW x \in Exchange, ExchangeMongo(x) PROVE ReadInv'
  BY <1>3, ReadKept DEF ExchangeMongo, Scanned
<1>4. ASSUME NEW x \in Exchange, ExchangeCommit(x) PROVE ReadInv'
  BY <1>4, CommitRead DEF ExchangeCommit
<1>5. ASSUME NEW y \in Sync, NEW S \in SUBSET Epc, SyncBegin(y, S) PROVE ReadInv'
  BY <1>5, ReadKept DEF SyncBegin, Scanned
<1>6. ASSUME NEW y \in Sync, SyncMatch(y) PROVE ReadInv'
  BY <1>6, ReadKept DEF SyncMatch, Scanned
<1>17. ASSUME NEW y \in Sync, SyncInsert(y) PROVE ReadInv'
  BY <1>17, ReadKept DEF SyncInsert, Lock, Scanned
<1>7. ASSUME NEW y \in Sync, SyncMongo(y) PROVE ReadInv'
  BY <1>7, ReadKept DEF SyncMongo, Scanned
<1>8. ASSUME NEW y \in Sync, SyncCommit(y) PROVE ReadInv'
  BY <1>8, CommitRead DEF SyncCommit
<1>9. ASSUME NEW s \in Scan, NEW S \in SUBSET Epc, ScanRead(s, S) PROVE ReadInv'
  <2>1. PICK f \in [Epc -> MongoOrder \cup {None}] :
          /\ \A e \in Epc : IF e \in S THEN f[e] \in OrdersOf(e) ELSE f[e] = None
          /\ read' = [read EXCEPT ![s] = f]
    BY <1>9 DEF ScanRead
  <2>2. UNCHANGED <<mo, actual>> /\ stale' = [stale EXCEPT ![s] = {}]
    BY <1>9 DEF ScanRead
  <2>3. \A e : OrdersOf(e)' = OrdersOf(e)
    BY <2>2 DEF OrdersOf, RowsOf, Effective
  <2>4. \A e \in Scanned(s)' : read'[s][e] \in OrdersOf(e)
    BY <2>1 DEF Scanned, TypeOK
  <2>5. \A z \in Scan \ {s} : /\ Scanned(z)' = Scanned(z) /\ stale'[z] = stale[z]
                               /\ read'[z] = read[z]
    BY <2>1, <2>2 DEF Scanned, TypeOK
  <2> QED
    BY <2>3, <2>4, <2>5 DEF ReadInv
<1>10. ASSUME NEW s \in Scan, ScanWrite(s) PROVE ReadInv'
  BY <1>10, ReadKept DEF ScanWrite, Scanned, TypeOK
<1>11. ASSUME NEW e \in Epc, Remove(e) PROVE ReadInv'
  BY <1>11, ReadKept DEF Remove, Scanned
<1>12. ASSUME NEW t \in Txn, StatementError(t) PROVE ReadInv'
  BY <1>12, ReadKept DEF StatementError, Rollback, Scanned
<1>13. ASSUME NEW t \in Txn, MongoError(t) PROVE ReadInv'
  BY <1>13, ReadKept DEF MongoError, Rollback, Scanned
<1>14. ASSUME NEW t \in Txn, CommitError(t) PROVE ReadInv'
  BY <1>14, ReadKept DEF CommitError, Rollback, Scanned
<1>15. ASSUME NEW s \in Scan, ScanLost(s) PROVE ReadInv'
  BY <1>15, ReadKept DEF ScanLost, Scanned, TypeOK
<1>16. CASE UNCHANGED vars
  BY <1>16, ReadKept DEF vars, Scanned
<1> QED
  BY <1>1, <1>2, <1>3, <1>4, <1>5, <1>6, <1>7, <1>8, <1>9, <1>10,
     <1>11, <1>12, <1>13, <1>14, <1>15, <1>16, <1>17
  DEF Next, Work, Fault, ExchangeStep, SyncStep

-----------------------------------------------------------------------------
(* Documents, and the rows behind them.                                    *)

\* Steps that write no row, bring no transaction to its commit and write only
\* documents that drift; a transaction that gives up its commit lets its tags
\* drift.
LEMMA QuietStep ==
  ASSUME TypeOK, PendingInv, AgreeInv, UNCHANGED <<mo, actual>>,
         \A t \in Txn : pc'[t] = "commit" =>
            /\ pc[t] = "commit" /\ held'[t] = held[t]
            /\ \A e : Target(t, e)' = Target(t, e),
         \A t \in Txn : pc[t] = "commit" => pc'[t] = "commit" \/ HeldTags(t) \subseteq drift',
         \A e \in Docs' \ drift' : e \in Docs \ drift /\ epcs'[e] = epcs[e]
  PROVE  PendingInv' /\ AgreeInv'
<1>1. \A e : RowsOf(e)' = RowsOf(e) /\ \A r : Effective(r)' = Effective(r)
  BY DEF RowsOf, Effective
<1>2. ASSUME NEW t \in Txn, pc[t] = "commit", NEW r \in held[t], r[1] \notin drift'
      PROVE  pc'[t] = "commit" /\ r \in held'[t] /\ Target(t, r[1])' = Target(t, r[1])
  BY <1>2 DEF HeldTags
<1>3. PendingInv'
  <2> SUFFICES ASSUME NEW t \in Txn, pc'[t] = "commit", NEW r \in held'[t],
                      r[1] \in Docs' \ drift'
               PROVE  epcs'[r[1]] = Target(t, r[1])' \/ OtherRow(r)'
    BY DEF PendingInv
  <2>1. r \in held[t] /\ pc[t] = "commit" /\ Target(t, r[1])' = Target(t, r[1])
    OBVIOUS
  <2>2. CASE OtherRow(r)
    <3>1. PICK q \in Row \ {r} :
             /\ q[1] = r[1]
             /\ mo[q] # None \/ \E u \in Txn : pc[u] = "commit" /\ q \in held[u]
      BY <2>2 DEF OtherRow
    <3>2. mo'[q] # None \/ \E u \in Txn : pc'[u] = "commit" /\ q \in held'[u]
      BY <1>2, <3>1
    <3> QED
      BY <3>1, <3>2 DEF OtherRow
  <2> QED
    BY <2>1, <2>2 DEF PendingInv
<1>4. AgreeInv'
  <2> SUFFICES ASSUME NEW e \in Docs' \ drift', RowsOf(e)' # {} \/ Committing(e)'
               PROVE  ShowsRow(e)' \/ ShowsCommit(e)'
    BY DEF AgreeInv
  <2>1. Committing(e)' => Committing(e)
    BY DEF Committing, HeldTags
  <2>2. ShowsRow(e) \/ ShowsCommit(e)
    BY <1>1, <2>1 DEF AgreeInv
  <2>3. CASE ShowsRow(e)
    BY <1>1, <2>3 DEF ShowsRow
  <2>4. CASE ShowsCommit(e)
    <3>1. PICK t \in Txn : pc[t] = "commit" /\ e \in HeldTags(t) /\ epcs[e] = Target(t, e)
      BY <2>4 DEF ShowsCommit
    <3>2. pc'[t] = "commit" /\ e \in HeldTags(t)' /\ Target(t, e)' = Target(t, e)
      BY <3>1 DEF HeldTags
    <3> QED
      BY <3>1, <3>2 DEF ShowsCommit
  <2> QED
    BY <2>2, <2>3, <2>4
<1> QED
  BY <1>3, <1>4

\* A transaction writes its documents: afterwards the tags whose row it holds
\* show its order, the others it wrote have drifted.
LEMMA MongoStep ==
  ASSUME TypeOK, LocksInv, PendingInv, AgreeInv, NEW t \in Txn, NEW W, NEW D,
         MongoWrite(t, W, D), pc[t] = "mongo", pc' = [pc EXCEPT ![t] = "commit"],
         UNCHANGED <<mo, actual, held, to, info>>,
         \A e \in Epc \ D : /\ e \in W <=> e \in HeldTags(t)
                            /\ e \notin W => e \notin drift
  PROVE  PendingInv' /\ AgreeInv'
<1>1. \A e : RowsOf(e)' = RowsOf(e) /\ \A r : Effective(r)' = Effective(r)
  BY DEF RowsOf, Effective
<1>2. \A u \in Txn : /\ HeldTags(u)' = HeldTags(u)
                      /\ \A e : Target(u, e)' = Target(u, e)
  BY DEF HeldTags, Target
<1>3. \A u \in Txn : pc'[u] = "commit" <=> u = t \/ pc[u] = "commit"
  BY DEF TypeOK
<1>4. /\ drift' = D
      /\ \A e \in Epc : epcs'[e] = IF e \in W \cap Docs THEN Target(t, e) ELSE epcs[e]
  BY DEF MongoWrite
<1>5. \A e \in Docs' : e \in Epc /\ e \in Docs
  BY <1>4 DEF Docs
<1>6. PendingInv'
  <2> SUFFICES ASSUME NEW u \in Txn, pc'[u] = "commit", NEW r \in held[u],
                      r[1] \in Docs' \ D
               PROVE  epcs'[r[1]] = Target(u, r[1]) \/ OtherRow(r)'
    BY <1>2, <1>4 DEF PendingInv
  <2>1. CASE u = t
    BY <1>4, <1>5, <2>1 DEF HeldTags
  <2>2. CASE u # t /\ r[1] \in W
    <3>1. PICK q \in held[t] : q[1] = r[1]
      BY <1>5, <2>2 DEF HeldTags
    <3>2. q \in Row \ {r}
      BY <2>2, <3>1 DEF LocksInv, TypeOK
    <3> QED
      BY <1>3, <3>1, <3>2 DEF OtherRow
  <2>3. CASE u # t /\ r[1] \notin W
    <3>1. /\ pc[u] = "commit" /\ r[1] \in Docs \ drift
          /\ epcs'[r[1]] = epcs[r[1]]
      BY <1>3, <1>4, <1>5, <2>3
    <3>2. OtherRow(r) => OtherRow(r)'
      BY <1>3 DEF OtherRow
    <3> QED
      BY <3>1, <3>2 DEF PendingInv
  <2> QED
    BY <2>1, <2>2, <2>3
<1>7. AgreeInv'
  <2> SUFFICES ASSUME NEW e \in Docs' \ D, RowsOf(e)' # {} \/ Committing(e)'
               PROVE  ShowsRow(e)' \/ ShowsCommit(e)'
    BY <1>4 DEF AgreeInv
  <2>1. CASE e \in W
    <3>1. e \in HeldTags(t) /\ epcs'[e] = Target(t, e)
      BY <1>4, <1>5, <2>1
    <3> QED
      BY <1>2, <1>3, <3>1 DEF ShowsCommit
  <2>2. CASE e \notin W
    <3>1. e \in Docs \ drift /\ e \notin HeldTags(t) /\ epcs'[e] = epcs[e]
      BY <1>4, <1>5, <2>2
    <3>2. Committing(e)' => Committing(e)
      BY <1>2, <1>3, <3>1 DEF Committing
    <3>3. ShowsRow(e) \/ ShowsCommit(e)
      BY <1>1, <3>1, <3>2 DEF AgreeInv
    <3>4. CASE ShowsRow(e)
      <4>1. PICK r \in RowsOf(e) : /\ epcs[e] = Effective(r)
                                   /\ \A u \in Txn : pc[u] = "commit" => r \notin held[u]
        BY <3>4 DEF ShowsRow
      <4>2. r \notin held[t]
        BY <3>1 DEF HeldTags, RowsOf
      <4> QED
        BY <1>1, <1>3, <3>1, <4>1, <4>2 DEF ShowsRow
    <3>5. CASE ShowsCommit(e)
      BY <1>2, <1>3, <3>1, <3>5 DEF ShowsCommit
    <3> QED
      BY <3>3, <3>4, <3>5
  <2> QED
    BY <2>1, <2>2
<1> QED
  BY <1>6, <1>7

\* A commit: its rows take the order their documents show already, if no
\* other row of the tag does.
LEMMA CommitStep ==
  ASSUME TypeOK, LocksInv, PendingInv, AgreeInv, NEW t \in Txn, Committed(t),
         \A r \in held[t] : mo'[r] # None /\ Effective(r)' = Target(t, r[1]),
         \A r \in Row \ held[t] : mo'[r] = mo[r] /\ actual'[r] = actual[r]
  PROVE  PendingInv' /\ AgreeInv'
<1>1. /\ UNCHANGED <<epcs, drift>> /\ pc[t] = "commit" /\ pc'[t] = "idle" /\ held'[t] = {}
      /\ \A u \in Txn \ {t} : /\ pc'[u] = pc[u] /\ held'[u] = held[u]
                               /\ \A e : Target(u, e)' = Target(u, e)
  BY DEF Committed, End, TypeOK, Txn, Target
<1>2. Docs' = Docs
  BY <1>1 DEF Docs
<1>3. held[t] \subseteq Row
  BY DEF TypeOK
<1>4. PendingInv'
  <2> SUFFICES ASSUME NEW u \in Txn \ {t}, pc[u] = "commit", NEW r \in held[u],
                      r[1] \in Docs \ drift
               PROVE  epcs[r[1]] = Target(u, r[1]) \/ OtherRow(r)'
    BY <1>1, <1>2 DEF PendingInv
  <2>1. CASE OtherRow(r)
    <3>1. PICK q \in Row \ {r} :
             /\ q[1] = r[1]
             /\ mo[q] # None \/ \E v \in Txn : pc[v] = "commit" /\ q \in held[v]
      BY <2>1 DEF OtherRow
    <3>2. mo'[q] # None \/ \E v \in Txn : pc'[v] = "commit" /\ q \in held'[v]
      BY <1>1, <3>1
    <3> QED
      BY <3>1, <3>2 DEF OtherRow
  <2> QED
    BY <2>1 DEF PendingInv
<1>5. AgreeInv'
  <2> SUFFICES ASSUME NEW e \in Docs \ drift, RowsOf(e)' # {} \/ Committing(e)'
               PROVE  ShowsRow(e)' \/ ShowsCommit(e)'
    BY <1>1, <1>2 DEF AgreeInv
  <2>1. RowsOf(e) # {} \/ Committing(e)
    <3>1. CASE Committing(e)'
      BY <1>1, <3>1 DEF Committing, HeldTags
    <3>2. ASSUME NEW r \in Row, r[1] = e, mo'[r] # None PROVE RowsOf(e) # {} \/ Committing(e)
      <4>1. CASE r \in held[t]
        BY <1>1, <3>2, <4>1 DEF Committing, HeldTags
      <4>2. CASE r \notin held[t]
        BY <3>2, <4>2 DEF RowsOf
      <4> QED
        BY <4>1, <4>2
    <3> QED
      BY <3>1, <3>2 DEF RowsOf
  <2>2. CASE ShowsRow(e)
    <3>1. PICK r \in RowsOf(e) : /\ epcs[e] = Effective(r)
                                 /\ \A u \in Txn : pc[u] = "commit" => r \notin held[u]
      BY <2>2 DEF ShowsRow
    <3>2. r \in Row \ held[t] /\ r[1] = e /\ mo[r] # None
      BY <1>1, <3>1 DEF RowsOf
    <3>3. r \in RowsOf(e)' /\ Effective(r)' = Effective(r)
      BY <3>2 DEF RowsOf, Effective
    <3> QED
      BY <1>1, <3>1, <3>3 DEF ShowsRow
  <2>3. ASSUME NEW u \in Txn \ {t}, pc[u] = "commit", e \in HeldTags(u), epcs[e] = Target(u, e)
        PROVE  ShowsCommit(e)'
    BY <1>1, <2>3 DEF ShowsCommit, HeldTags
  <2>4. ASSUME e \in HeldTags(t), epcs[e] = Target(t, e) PROVE ShowsRow(e)'
    <3>1. PICK r \in held[t] : r[1] = e
      BY <2>4 DEF HeldTags
    <3>2. r \in RowsOf(e)' /\ Effective(r)' = epcs[e]
      BY <1>3, <2>4, <3>1 DEF RowsOf
    <3>3. \A u \in Txn : pc'[u] = "commit" => r \notin held'[u]
      BY <1>1, <3>1 DEF LocksInv
    <3> QED
      BY <1>1, <3>2, <3>3 DEF ShowsRow
  <2> QED
    BY <2>1, <2>2, <2>3, <2>4 DEF AgreeInv, ShowsCommit
<1> QED
  BY <1>4, <1>5

\* A scan writes its documents: a tag whose rows it read as they are now, and
\* nobody has locked, shows one of them.
LEMMA ScanStep ==
  ASSUME TypeOK, ReadInv, PendingInv, AgreeInv, NEW s \in Scan, ScanWrite(s)
  PROVE  PendingInv' /\ AgreeInv'
<1>1. /\ UNCHANGED <<mo, actual, pc, held, to, info>>
      /\ \A e \in Epc : epcs'[e] = IF e \in Scanned(s) THEN read[s][e] ELSE epcs[e]
      /\ drift' = (drift \ Scanned(s)) \cup {e \in Scanned(s) : e \in stale[s] \/ Locked(e)}
  BY DEF ScanWrite, rows, txn
<1>2. /\ \A e : RowsOf(e)' = RowsOf(e) /\ Committing(e)' = Committing(e)
      /\ \A r : Effective(r)' = Effective(r) /\ OtherRow(r)' = OtherRow(r)
      /\ \A u, e : Target(u, e)' = Target(u, e)
      /\ \A u : HeldTags(u)' = HeldTags(u)
  BY <1>1 DEF RowsOf, Committing, HeldTags, Effective, OtherRow, Target
<1>3. \A e \in Docs' \ drift' :
        /\ e \in Epc
        /\ \/ e \in Scanned(s) \ stale[s] /\ ~Locked(e)
           \/ e \in Docs \ drift /\ epcs'[e] = epcs[e]
  BY <1>1 DEF Docs
<1>4. PendingInv'
  <2> SUFFICES ASSUME NEW t \in Txn, pc[t] = "commit", NEW r \in held[t],
                      r[1] \in Docs' \ drift'
               PROVE  epcs'[r[1]] = Target(t, r[1]) \/ OtherRow(r)
    BY <1>1, <1>2 DEF PendingInv
  <2>1. Locked(r[1])
    BY DEF Locked, HeldTags
  <2> QED
    BY <1>3, <2>1 DEF PendingInv
<1>5. AgreeInv'
  <2> SUFFICES ASSUME NEW e \in Docs' \ drift', RowsOf(e) # {} \/ Committing(e)
               PROVE  ShowsRow(e)' \/ ShowsCommit(e)'
    BY <1>2 DEF AgreeInv
  <2>1. CASE e \in Scanned(s) \ stale[s] /\ ~Locked(e)
    <3>1. RowsOf(e) # {}
      BY <2>1 DEF Committing, Locked
    <3>2. PICK r \in RowsOf(e) : read[s][e] = Effective(r)
      BY <2>1, <3>1 DEF ReadInv, OrdersOf
    <3>3. \A t \in Txn : r \notin held[t]
      BY <2>1, <3>2 DEF Locked, HeldTags, RowsOf
    <3> QED
      BY <1>1, <1>2, <1>3, <2>1, <3>2, <3>3 DEF ShowsRow
  <2>2. CASE e \in Docs \ drift /\ epcs'[e] = epcs[e]
    <3>1. ShowsRow(e) \/ ShowsCommit(e)
      BY <2>2 DEF AgreeInv
    <3>2. ShowsRow(e) => ShowsRow(e)'
      BY <1>1, <1>2, <2>2 DEF ShowsRow
    <3>3. ShowsCommit(e) => ShowsCommit(e)'
      BY <1>1, <1>2, <2>2 DEF ShowsCommit
    <3> QED
      BY <3>1, <3>2, <3>3
  <2> QED
    BY <1>3, <2>1, <2>2
<1> QED
  BY <1>4, <1>5

\* A call that ends without a commit, wherever it was.
LEMMA EndQuiet ==
  ASSUME TypeOK, PendingInv, AgreeInv, NEW t \in Txn, Rollback(t),
         pc[t] = "commit" => HeldTags(t) \subseteq drift',
         \A e \in Docs' \ drift' : e \in Docs \ drift /\ epcs'[e] = epcs[e]
  PROVE  PendingInv' /\ AgreeInv'
<1>1. UNCHANGED <<mo, actual>> /\ pc'[t] = "idle"
  BY DEF Rollback, End, TypeOK, rows
<1>2. \A u \in Txn \ {t} : /\ pc'[u] = pc[u] /\ held'[u] = held[u]
                            /\ \A e : Target(u, e)' = Target(u, e)
  BY DEF Rollback, End, TypeOK, Txn, Target
<1> QED
  BY <1>1, <1>2, QuietStep

\* Every step keeps the documents of rows about to be committed, and the
\* agreement of both stores: whoever else writes such a document makes it
\* drift, and a commit gives its rows the order their documents have already.
LEMMA AgreeStep ==
  ASSUME IInv, [Next]_vars
  PROVE  PendingInv' /\ AgreeInv'
<1> DEFINE Goal == PendingInv' /\ AgreeInv'
<1> USE DEF IInv, Txn, rows, txn, past
<1>1. ASSUME NEW x \in Exchange, NEW o \in Order, ExchangeFind(x, o) PROVE Goal
  <2>1. UNCHANGED <<mo, actual, epcs, drift, info, held>>
    BY <1>1 DEF ExchangeFind
  <2>2. PICK S : Begin(x, S) /\ to' = [to EXCEPT ![x] = o]
    BY <1>1 DEF ExchangeFind
  <2>3. pc[x] # "commit" /\ pc' = [pc EXCEPT ![x] = "update"]
    BY <2>2 DEF Begin
  <2>4. \A t \in Txn \ {x} : pc'[t] = pc[t] /\ \A e : Target(t, e)' = Target(t, e)
    BY <2>1, <2>2, <2>3 DEF Target, TypeOK
  <2>5. pc'[x] = "update" /\ \A e \in Docs' : e \in Docs /\ epcs'[e] = epcs[e]
    BY <2>1, <2>3 DEF TypeOK, Docs
  <2> QED
    BY <2>1, <2>3, <2>4, <2>5, QuietStep
<1>2. ASSUME NEW x \in Exchange, ExchangeUpdate(x) PROVE Goal
  <2>1. PICK W : Lock(x, W) /\ pc[x] = "update"
    BY <1>2 DEF ExchangeUpdate
  <2>2. UNCHANGED <<mo, actual, epcs, drift, to, info>>
    BY <2>1 DEF Lock
  <2>3. /\ pc'[x] # "commit"
        /\ \A t \in Txn \ {x} : pc'[t] = pc[t] /\ held'[t] = held[t]
    BY <2>1, NextBatch
  <2> QED
    BY <2>1, <2>2, <2>3, QuietStep DEF Docs, Target
<1>3. ASSUME NEW x \in Exchange, ExchangeMongo(x) PROVE Goal
  <2> DEFINE W == ids[x]
             D == (drift \ HeldTags(x)) \cup (ids[x] \ HeldTags(x))
  <2>1. /\ MongoWrite(x, W, D) /\ pc[x] = "mongo" /\ pc' = [pc EXCEPT ![x] = "commit"]
        /\ UNCHANGED <<mo, actual, held, to, info>>
    BY <1>3 DEF ExchangeMongo
  <2>2. \A e \in Epc \ D : (e \in W <=> e \in HeldTags(x)) /\ (e \notin W => e \notin drift)
    BY DEF Local
  <2> HIDE DEF W, D
  <2> QED
    BY <2>1, <2>2, MongoStep
<1>4. ASSUME NEW x \in Exchange, ExchangeCommit(x) PROVE Goal
  <2>1. Committed(x) /\ mo' = mo /\ to[x] \in Order
    BY <1>4 DEF ExchangeCommit, Committed, Local
  <2>2. \A r \in Row : actual'[r] = IF r \in held[x] THEN to[x] ELSE actual[r]
    BY <1>4 DEF ExchangeCommit
  <2>3. \A r \in held[x] : mo'[r] # None /\ Effective(r)' = Target(x, r[1])
    BY <2>1, <2>2, OrderAssumption
    DEF LocksInv, TypeOK, Effective, Target, OrderAssumption
  <2> QED
    BY <2>1, <2>2, <2>3, CommitStep
<1>5. ASSUME NEW y \in Sync, NEW S \in SUBSET Epc, SyncBegin(y, S) PROVE Goal
  <2>1. UNCHANGED <<mo, actual, epcs, drift, to, held>>
    BY <1>5 DEF SyncBegin
  <2>2. pc[y] # "commit" /\ pc' = [pc EXCEPT ![y] = "update"]
    BY <1>5 DEF SyncBegin, Begin
  <2>3. PICK f : info' = [info EXCEPT ![y] = f]
    BY <1>5 DEF SyncBegin
  <2>4. \A t \in Txn \ {y} : pc'[t] = pc[t] /\ \A e : Target(t, e)' = Target(t, e)
    BY <2>1, <2>2, <2>3 DEF Target, TypeOK
  <2>5. pc'[y] = "update" /\ \A e \in Docs' : e \in Docs /\ epcs'[e] = epcs[e]
    BY <2>1, <2>2 DEF TypeOK, Docs
  <2> QED
    BY <2>1, <2>2, <2>4, <2>5, QuietStep
<1>6. ASSUME NEW y \in Sync, SyncMatch(y) PROVE Goal
  <2>1. UNCHANGED <<mo, actual, epcs, drift, to, info, held>>
    BY <1>6 DEF SyncMatch
  <2>2. pc[y] = "update" /\ pc'[y] = "insert" /\ \A t \in Txn \ {y} : pc'[t] = pc[t]
    BY <1>6 DEF SyncMatch, TypeOK
  <2> QED
    BY <2>1, <2>2, QuietStep DEF Docs, Target
<1>17. ASSUME NEW y \in Sync, SyncInsert(y) PROVE Goal
  <2>1. PICK W : Lock(y, W) /\ pc[y] = "insert"
    BY <1>17 DEF SyncInsert
  <2>2. UNCHANGED <<mo, actual, epcs, drift, to, info>>
    BY <2>1 DEF Lock
  <2>3. /\ pc'[y] # "commit"
        /\ \A t \in Txn \ {y} : pc'[t] = pc[t] /\ held'[t] = held[t]
    BY <2>1, NextBatch
  <2> QED
    BY <2>1, <2>2, <2>3, QuietStep DEF Docs, Target
<1>7. ASSUME NEW y \in Sync, SyncMongo(y) PROVE Goal
  <2> DEFINE W == SyncWritten(y)
             D == (drift \ (W \cap HeldTags(y))) \cup (W \ HeldTags(y)) \cup (HeldTags(y) \ W)
  <2>1. /\ MongoWrite(y, W, D) /\ pc[y] = "mongo" /\ pc' = [pc EXCEPT ![y] = "commit"]
        /\ UNCHANGED <<mo, actual, held, to, info>>
    BY <1>7 DEF SyncMongo
  <2>2. \A e \in Epc \ D : (e \in W <=> e \in HeldTags(y)) /\ (e \notin W => e \notin drift)
    OBVIOUS
  <2> HIDE DEF W, D
  <2> QED
    BY <2>1, <2>2, MongoStep
<1>8. ASSUME NEW y \in Sync, SyncCommit(y) PROVE Goal
  <2>1. Committed(y) /\ actual' = actual /\ y \notin Exchange
    BY <1>8, OrderAssumption DEF SyncCommit, OrderAssumption
  <2>2. \A r \in Row : mo'[r] = IF r \in held[y] THEN info[y][r[1]] ELSE mo[r]
    BY <1>8 DEF SyncCommit
  <2>3. \A r \in held[y] : r \in Row /\ actual[r] = None
    BY DEF LocksInv, TypeOK
  <2>4. \A r \in Row : info[y][r[1]] # None
    BY RowTag, OrderAssumption DEF TypeOK, OrderAssumption
  <2>5. \A r \in held[y] : mo'[r] # None /\ Effective(r)' = Target(y, r[1])
    BY <2>1, <2>2, <2>3, <2>4 DEF Effective, Target
  <2> QED
    BY <2>1, <2>2, <2>5, CommitStep
<1>9. ASSUME NEW s \in Scan, NEW S \in SUBSET Epc, ScanRead(s, S) PROVE Goal
  BY <1>9, QuietStep DEF ScanRead, Docs, Target
<1>10. ASSUME NEW s \in Scan, ScanWrite(s) PROVE Goal
  BY <1>10, ScanStep
<1>11. ASSUME NEW e \in Epc, Remove(e) PROVE Goal
  <2>1. \A d \in Docs' : d \in Docs /\ epcs'[d] = epcs[d]
    BY <1>11 DEF Remove, Docs, TypeOK
  <2> QED
    BY <1>11, <2>1, QuietStep DEF Remove, Target
<1>12. ASSUME NEW t \in Txn, StatementError(t) PROVE Goal
  BY <1>12, EndQuiet DEF StatementError, Docs
<1>13. ASSUME NEW t \in Txn, MongoError(t) PROVE Goal
  <2>1. PICK W \in SUBSET Written(t) : MongoWrite(t, W, drift \cup W)
    BY <1>13 DEF MongoError
  <2>2. \A e \in Docs' \ drift' : e \in Docs \ drift /\ epcs'[e] = epcs[e]
    BY <2>1 DEF MongoWrite, Docs
  <2> QED
    BY <1>13, <2>2, EndQuiet DEF MongoError
<1>14. ASSUME NEW t \in Txn, CommitError(t) PROVE Goal
  <2>1. drift' = drift \cup ids[t] /\ epcs' = epcs /\ Rollback(t)
    BY <1>14 DEF CommitError
  <2>2. HeldTags(t) \subseteq drift'
    BY <2>1 DEF Local
  <2>3. \A e \in Docs' \ drift' : e \in Docs \ drift /\ epcs'[e] = epcs[e]
    BY <2>1 DEF Docs
  <2> QED
    BY <2>1, <2>2, <2>3, EndQuiet
<1>15. ASSUME NEW s \in Scan, ScanLost(s) PROVE Goal
  BY <1>15, QuietStep DEF ScanLost, Docs, Target
<1>16. CASE UNCHANGED vars
  BY <1>16, QuietStep DEF vars, Docs, Target
<1> HIDE DEF Goal
<1> QED
  BY <1>1, <1>2, <1>3, <1>4, <1>5, <1>6, <1>7, <1>8, <1>9, <1>10,
     <1>11, <1>12, <1>13, <1>14, <1>15, <1>16, <1>17
  DEF Next, Work, Fault, ExchangeStep, SyncStep, Goal

-----------------------------------------------------------------------------
(* The theorems.                                                           *)

\* The initial states satisfy the invariant.
LEMMA InitInv == ASSUME Init PROVE IInv
<1>1. TypeOK
  BY InitType
<1>2. PICK f \in [Epc -> Order \cup {None}], S \in SUBSET Epc :
        /\ mo = [r \in Row |-> IF r[2] = None THEN f[r[1]] ELSE None]
        /\ epcs = [e \in Epc |-> IF e \notin S THEN None
                                ELSE IF f[e] = None THEN Unknown ELSE f[e]]
  BY DEF Init
<1>3. /\ actual = [r \in Row |-> None] /\ overlap = {} /\ drift = {}
      /\ \A t \in Txn : pc[t] = "idle" /\ ids[t] = {} /\ batch[t] = {} /\ left[t] = {}
                         /\ held[t] = {} /\ HeldTags(t) = {}
      /\ \A x \in Exchange : before[x] = {}
  BY DEF Init, HeldTags, Txn
<1>4. Local /\ LocksInv /\ CoverInv /\ PendingInv
  BY <1>3 DEF Local, LocksInv, CoverInv, PendingInv, Txn
<1>5. OverlapInv
  <2>1. \A r \in Row : Present(r) => r[2] = None
    BY <1>2, <1>3 DEF Present
  <2>2. \A q, r \in Row : q # r /\ q[1] = r[1] => q[2] # r[2]
    BY DEF Row
  <2> QED
    BY <1>3, <2>1, <2>2 DEF OverlapInv, Txn
<1>6. ReadInv
  BY DEF Init, ReadInv, Scanned
<1>7. AgreeInv
  <2> SUFFICES ASSUME NEW e \in Docs, RowsOf(e) # {} PROVE ShowsRow(e)
    BY <1>3 DEF AgreeInv, Committing
  <2>1. PICK r \in Row : r[1] = e /\ mo[r] # None
    BY DEF RowsOf
  <2>2. e \in Epc /\ e \in S
    BY <1>2 DEF Docs
  <2>3. mo[r] = f[e] /\ epcs[e] = f[e] /\ Effective(r) = f[e]
    BY <1>2, <1>3, <2>1, <2>2 DEF Effective
  <2> QED
    BY <1>3, <2>1, <2>3 DEF ShowsRow, RowsOf
<1> QED
  BY <1>1, <1>4, <1>5, <1>6, <1>7 DEF IInv

\* Every step, of whatever handler or fault, keeps the inductive invariant.
LEMMA NextInv == ASSUME IInv, [Next]_vars PROVE IInv'
<1>1. TypeOK' /\ Local' /\ LocksInv' /\ CoverInv' /\ OverlapInv' /\ ReadInv'
  BY NextType, LocalStep, LocksStep, CoverStep, OverlapStep, ReadStep DEF IInv
<1> QED
  BY <1>1, AgreeStep DEF IInv

\* The inductive invariant: row locks exclude, calls pass over no tag, a tag
\* gets a second row from overlapping syncs only, a scan that is not stale has
\* read what is committed, documents show what is committed or about to be.
THEOREM Inductive == Spec => []IInv
<1>1. Init => IInv
  BY InitInv
<1>2. IInv /\ [Next]_vars => IInv'
  BY NextInv
<1> QED
  BY <1>1, <1>2, PTL DEF Spec

\* The type invariant of both stores, the transactions and the scans.
THEOREM TypeCorrect == Spec => []TypeOK
<1>1. IInv => TypeOK
  BY DEF IInv
<1> QED
  BY <1>1, Inductive, PTL

\* MongoDB gives a tag the order of one of its SQL rows unless the tag has
\* drifted: concurrent exchanges, syncs and scans drift apart in no other way,
\* for any number of each, with the MERGE in two steps.
THEOREM AgreeUnlessDriftAlways == Spec => []AgreeUnlessDrift
<1>1. ASSUME IInv PROVE AgreeUnlessDrift
  <2> SUFFICES ASSUME NEW e \in Docs \ drift, RowsOf(e) # {}, ~Locked(e)
               PROVE  epcs[e] \in OrdersOf(e)
    BY DEF AgreeUnlessDrift
  <2>1. ShowsRow(e)
    BY <1>1 DEF IInv, AgreeInv, ShowsCommit, Locked
  <2> QED
    BY <2>1 DEF ShowsRow, OrdersOf
<1> QED
  BY <1>1, Inductive, PTL

\* What a transaction is about to commit is in MongoDB already, and its rows
\* are its own; only a second row of the tag can come between.
THEOREM PendingVisibleAlways == Spec => []PendingVisible
<1>1. IInv => PendingVisible
  BY DEF IInv, LocksInv, PendingInv, PendingVisible
<1> QED
  BY <1>1, Inductive, PTL

\* A tag is registered twice only if two syncs that name it were under way at
\* a time, however many syncs, batches, exchanges and failures there are.
THEOREM RegisteredTwiceNeedsOverlapAlways == Spec => []RegisteredTwiceNeedsOverlap
<1>1. IInv => RegisteredTwiceNeedsOverlap
  BY DEF IInv, OverlapInv, Present, RegisteredTwiceNeedsOverlap
<1> QED
  BY <1>1, Inductive, PTL

\* Locks never stop everything, however many transactions and tags there are:
\* if no running transaction could go on, each would wait for another, which
\* runs because it holds a row: all of them together would be a circle.
THEOREM SomeoneMovesAlways == Spec => []SomeoneMoves
<1>1. ASSUME IInv PROVE SomeoneMoves
  <2> DEFINE C == {t \in Txn : Running(t)}
  <2>1. SUFFICES ASSUME NEW t \in C, \A u \in C : ~GoesOn(u)
                 PROVE  Deadlocked(t)
    BY DEF SomeoneMoves
  <2>2. ASSUME NEW u \in C PROVE \E w \in C : WaitsFor(u, w)
    <3>1. pc[u] = "update" /\ ~MayRun(u)
      BY <1>1, <2>1 DEF IInv, TypeOK, Running, GoesOn
    <3>2. PICK w \in Txn \ {u} : batch[u] \cap HeldTags(w) # {}
      BY <3>1 DEF MayRun, Free
    <3>3. Running(w)
      BY <1>1, <3>2 DEF IInv, Local, Running
    <3> QED
      BY <3>1, <3>2, <3>3 DEF WaitsFor
  <2> QED
    BY <2>2 DEF Deadlocked
<1> QED
  BY <1>1, Inductive, PTL

-----------------------------------------------------------------------------
(* The table of record.                                                    *)

LEMMA RecordInit == ASSUME Init PROVE Record!Init
<1>1. PICK f \in [Epc -> Order \cup {None}] :
        mo = [r \in Row |-> IF r[2] = None THEN f[r[1]] ELSE None]
  BY DEF Init
<1>2. mo \in [Row -> Order \cup {None}]
  BY <1>1, RowTag
<1> QED
  BY <1>2 DEF Init, Record!Init, Record!Row, Row, Record!Caller, Txn, NoInfo

\* A call is over: its locals are the ones of the record.
LEMMA RecordOver == ASSUME NEW t \in Txn, End(t) PROVE Record!Over(t)
  BY DEF End, Record!Over, NoInfo

\* A call that has not committed is over: it fails.
LEMMA RecordFail ==
  ASSUME Local, NEW t \in Txn, Rollback(t), pc[t] # "idle"
  PROVE  Record!Next
<1>1. Record!Fail(t)
  BY RecordOver DEF Rollback, Record!Fail, Local, rows
<1> QED
  BY <1>1 DEF Record!Next, Record!Caller, Txn

\* Commits are where calls take effect; calls are asked for when they begin.
LEMMA RecordStep == ASSUME IInv, [Next]_vars PROVE [Record!Next]_(Record!vars)
<1> USE DEF IInv, Txn
<1>1. ASSUME NEW x \in Exchange, NEW o \in Order, ExchangeFind(x, o) PROVE Record!Next
  <2>1. PICK S \in Selections(o) \ {{}} :
            /\ Begin(x, S)
            /\ to' = [to EXCEPT ![x] = o]
            /\ before' = [before EXCEPT ![x] = UNION {RowsOf(e) : e \in S}]
            /\ UNCHANGED <<mo, actual, info>>
    BY <1>1 DEF ExchangeFind, rows
  <2>2. S \in SUBSET Epc
    BY SelectionsSubset
  <2>3. UNION {RowsOf(e) : e \in S} = Record!RowsOf(S)
    BY <2>2 DEF RowsOf, Record!RowsOf, Row, Record!Row
  <2>4. Record!AskExchange(x, S, o)
    BY <2>1, <2>3 DEF Begin, Local, Record!AskExchange, Record!Ask
  <2> QED
    BY <2>2, <2>4 DEF Record!Next
<1>2. ASSUME NEW y \in Sync, NEW S \in (SUBSET Epc) \ {{}}, SyncBegin(y, S) PROVE Record!Next
  <2>1. PICK f \in [S -> Order \cup {Undefined}] :
          info' = [info EXCEPT ![y] = [e \in Epc |-> IF e \in S THEN f[e] ELSE Undefined]]
    BY <1>2 DEF SyncBegin
  <2> DEFINE g == [e \in Epc |-> IF e \in S THEN f[e] ELSE Undefined]
  <2>2. g \in [Epc -> Order \cup {Undefined}]
    OBVIOUS
  <2>3. info' = [info EXCEPT ![y] = g]
    BY <2>1
  <2> HIDE DEF g
  <2>4. Record!AskSync(y, S, g)
    BY <1>2, <2>3 DEF SyncBegin, Begin, Local, Record!AskSync, Record!Ask, rows
  <2> QED
    BY <2>2, <2>4 DEF Record!Next
<1>3. ASSUME NEW x \in Exchange, ExchangeCommit(x) PROVE Record!Next
  <2>1. pc[x] = "commit" /\ End(x) /\ batch[x] = {} /\ left[x] = {} /\ ids[x] # {}
    BY <1>3 DEF ExchangeCommit, Committed, Local
  <2>2. before[x] \subseteq held[x]
    BY <2>1 DEF CoverInv
  <2>3. held[x] \in SUBSET Row /\ held[x] \subseteq Record!RowsOf(ids[x])
    BY DEF TypeOK, LocksInv, Local, HeldTags, Record!RowsOf, Row, Record!Row
  <2>4. /\ mo' = mo
        /\ actual' = [r \in Record!Row |-> IF r \in held[x] THEN to[x] ELSE actual[r]]
    BY <1>3 DEF ExchangeCommit, Row, Record!Row
  <2>5. Record!Assign(x, held[x])
    BY <2>1, <2>2, <2>3, <2>4, RecordOver DEF Record!Assign
  <2> QED
    BY <2>3, <2>5 DEF Record!Next, Row, Record!Row
<1>4. ASSUME NEW y \in Sync, SyncCommit(y) PROVE Record!Next
  <2> DEFINE S == HeldTags(y)
  <2>1. pc[y] = "commit" /\ End(y) /\ batch[y] = {} /\ left[y] = {} /\ ids[y] # {}
    BY <1>4 DEF SyncCommit, Committed, Local
  <2>2. S \subseteq ids[y] /\ S \in SUBSET Epc
    BY HeldType DEF Local
  <2>3. \A r \in held[y] : r = <<r[1], y>>
    BY DEF LocksInv, TypeOK, Row
  <2>4. S \X {y} = held[y]
    BY <2>3 DEF HeldTags
  <2>5. \A e \in S : mo[<<e, y>>] = None
    BY <2>4 DEF LocksInv
  <2>6. \A e \in ids[y] \ S : Record!RowsOf({e}) # {}
    BY <2>1 DEF CoverInv, RowsOf, Record!RowsOf, Row, Record!Row
  <2>7. /\ actual' = actual
        /\ mo' = [r \in Record!Row |-> IF r \in S \X {y} THEN info[y][r[1]] ELSE mo[r]]
    BY <1>4, <2>4 DEF SyncCommit, Row, Record!Row
  <2> HIDE DEF S
  <2>8. Record!Register(y, S)
    BY <2>1, <2>2, <2>5, <2>6, <2>7, RecordOver DEF Record!Register
  <2> QED
    BY <2>2, <2>8 DEF Record!Next
<1>5. ASSUME NEW t \in Txn, Fault(t) PROVE Record!Next
  <2>1. Rollback(t) /\ pc[t] # "idle"
    BY <1>5 DEF Fault, StatementError, MongoError, CommitError
  <2> QED
    BY <2>1, RecordFail
<1>6. ASSUME UNCHANGED <<mo, actual, ids, to, info, before>> PROVE UNCHANGED Record!vars
  BY <1>6 DEF Record!vars
<1>7. \/ \E x \in Exchange : (\E o \in Order : ExchangeFind(x, o)) \/ ExchangeCommit(x)
      \/ \E y \in Sync : (\E S \in (SUBSET Epc) \ {{}} : SyncBegin(y, S)) \/ SyncCommit(y)
      \/ \E t \in Txn : Fault(t)
      \/ UNCHANGED <<mo, actual, ids, to, info, before>>
  BY DEF Next, Work, ExchangeStep, SyncStep, vars, rows, txn, ExchangeUpdate,
    ExchangeMongo, SyncMatch, SyncInsert, SyncMongo, Lock, ScanRead, ScanWrite, ScanLost,
    Remove
<1> QED
  BY <1>1, <1>2, <1>3, <1>4, <1>5, <1>6, <1>7

\* The table of record changes by whole exchanges and syncs only, for any
\* number of tags, transactions and batches, and whatever fails: an exchange
\* misses no row its tags had when it was asked, a sync leaves none of its tags
\* without a row.
THEOREM RecordImplemented == Spec => ImplementsRecord
<1>1. Init => Record!Init
  BY RecordInit
<1>2. IInv /\ [Next]_vars => [Record!Next]_(Record!vars)
  BY RecordStep
<1> QED
  BY <1>1, <1>2, Inductive, PTL DEF Spec, ImplementsRecord, Record!Spec
=============================================================================
