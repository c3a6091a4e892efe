------------------------------ MODULE EpcOrder ------------------------------
(***************************************************************************)
(* Which manufacturing order a tag belongs to.  The answer is kept twice:  *)
(* in the SQL Server table dv_rfidmatchmst_cust (mo_no, and mo_no_actual   *)
(* after an exchange) and in the tag's document in MongoDB ("epcs".mo_no). *)
(*                                                                         *)
(*  - exchangeEpc (RFIDService) moves tags to another order in both;       *)
(*  - upsertBulk (FPIRespository) adds the rows the customer's API and the *)
(*    ERP know of, and writes the order into the documents; its MERGE      *)
(*    matches and inserts without a lock in between, and nothing makes     *)
(*    EPC_Code unique, so that a tag may get several rows;                 *)
(*  - the consumer of the readers' queue reads the order of the scanned    *)
(*    tags from SQL and upserts their documents;                           *)
(*  - stocking and deleting remove documents.                              *)
(*                                                                         *)
(* Exchanges and syncs run in an SQL transaction whose row locks are held  *)
(* to its end; MongoDB is written outside any transaction, before the SQL  *)
(* commit.  Several of each run at once, in two pm2 instances.             *)
(***************************************************************************)
EXTENDS Naturals, FiniteSets

CONSTANTS
  Epc,        \* the tags
  Order,      \* manufacturing orders
  None,       \* no row, no mo_no_actual, no document
  Unknown,    \* FALLBACK_VALUE: the order of a tag without a row
  Undefined,  \* the text 'undefined' a sync writes for an order the ERP lacks
  Exchange,   \* handlers of PATCH exchange-epc: one call after another each
  Sync,       \* workers of the sync queue, calling upsertBulk
  Scan,       \* jobs of the readers' queue the workers have in hand at once
  BatchSize,  \* tags per UPDATE or MERGE statement (2000 in the code)
  Versions    \* READ_COMMITTED_SNAPSHOT of the database: off, on, or either

ASSUME OrderAssumption ==
  /\ None \notin Order /\ Unknown \notin Order /\ Undefined \notin Order
  /\ None # Unknown /\ None # Undefined /\ Unknown # Undefined
  /\ Exchange \cap Sync = {}
  /\ BatchSize \in Nat \ {0}
  /\ Versions \subseteq BOOLEAN

Txn == Exchange \cup Sync

\* A row: its tag, and the sync that inserted it or None if it was there
\* before.  A sync inserts a tag once: its next MERGE finds the row, and its
\* payload has a tag once.
Row == Epc \X (Sync \cup {None})

VARIABLES
  mo,      \* committed rows: mo_no, None where there is no such row
  actual,  \* committed rows: mo_no_actual
  epcs,    \* collection "epcs": mo_no of a tag's document, None without one
  pc,      \* where each exchange and sync is
  ids,     \* the tags it works on, {} when idle
  left,    \* tags of ids in no statement yet
  batch,   \* tags of the statement it has sent
  held,    \* rows it has updated or inserted, and keeps locked
  to,      \* mo_no_actual of an exchange
  info,    \* mo_no a sync has found for each of its tags
  read,    \* what a scan has read for each of its tags, None for the others
  versioned \* whether a MERGE reads committed versions and waits for no lock

\* History: read by the properties, never by a guard.
VARIABLES
  drift,   \* tags whose document was last written without SQL behind it
  stale,   \* tags of a scan with a row committed after the scan read it
  overlap, \* tags that two syncs have worked on at a time
  before   \* rows the tags of an exchange had when it began

rows   == <<mo, actual>>
txn    == <<pc, ids, left, batch, held, to, info>>
past   == <<drift, stale, overlap>>
vars   == <<rows, epcs, txn, before, read, versioned, past>>

MongoOrder == Order \cup {Unknown, Undefined}

\* Mutant: COALESCE the other way round.
EffectiveFirst(r) == mo[r]

\* COALESCE(mo_no_actual, mo_no)
Effective(r) == IF actual[r] # None THEN actual[r] ELSE mo[r]

RowsOf(e) == {r \in Row : r[1] = e /\ mo[r] # None}

\* What the LEFT JOIN has for a tag: 'Unknown', or a line for each order.
OrdersOf(e) == IF RowsOf(e) = {} THEN {Unknown} ELSE {Effective(r) : r \in RowsOf(e)}

Docs        == {e \in Epc : epcs[e] # None}
OfOrder(o)  == {e \in Epc : epcs[e] = o}
NoInfo      == [e \in Epc |-> Undefined]
Scanned(s)  == {e \in Epc : read[s][e] # None}
HeldTags(t) == {r[1] : r \in held[t]}
Locked(e)   == \E t \in Txn : e \in HeldTags(t)
Running(t)  == pc[t] # "idle"

\* What a transaction makes the order of a tag.
Target(t, e) == IF t \in Exchange THEN to[t] ELSE info[t][e]

\* chunk(ids, 2000): the next chunk is full, or all that is left.
Batches(S) == {b \in SUBSET S : \/ Cardinality(b) = BatchSize
                                \/ b = S /\ Cardinality(b) < BatchSize}

TypeOK ==
  /\ mo \in [Row -> Order \cup {Undefined, None}]
  /\ actual \in [Row -> Order \cup {None}]
  /\ epcs \in [Epc -> MongoOrder \cup {None}]
  /\ pc \in [Txn -> {"idle", "update", "insert", "mongo", "commit"}]
  /\ ids \in [Txn -> SUBSET Epc]
  /\ left \in [Txn -> SUBSET Epc]
  /\ batch \in [Txn -> SUBSET Epc]
  /\ held \in [Txn -> SUBSET Row]
  /\ to \in [Exchange -> Order \cup {None}]
  /\ info \in [Sync -> [Epc -> Order \cup {Undefined}]]
  /\ read \in [Scan -> [Epc -> MongoOrder \cup {None}]]
  /\ versioned \in BOOLEAN
  /\ drift \subseteq Epc
  /\ stale \in [Scan -> SUBSET Epc]
  /\ overlap \subseteq Epc
  /\ before \in [Exchange -> SUBSET Row]

\* Some tags have a row, some of the tags have been scanned.
Init ==
  /\ \E f \in [Epc -> Order \cup {None}], S \in SUBSET Epc :
       /\ mo = [r \in Row |-> IF r[2] = None THEN f[r[1]] ELSE None]
       /\ epcs = [e \in Epc |-> IF e \notin S THEN None
                               ELSE IF f[e] = None THEN Unknown ELSE f[e]]
  /\ actual = [r \in Row |-> None]
  /\ pc = [t \in Txn |-> "idle"]
  /\ ids = [t \in Txn |-> {}]
  /\ left = [t \in Txn |-> {}]
  /\ batch = [t \in Txn |-> {}]
  /\ held = [t \in Txn |-> {}]
  /\ to = [x \in Exchange |-> None]
  /\ info = [y \in Sync |-> NoInfo]
  /\ read = [s \in Scan |-> [e \in Epc |-> None]]
  /\ versioned \in Versions
  /\ drift = {}
  /\ stale = [s \in Scan |-> {}]
  /\ overlap = {}
  /\ before = [x \in Exchange |-> {}]

-----------------------------------------------------------------------------
(* What exchanges and syncs share: statements under row locks, the commit, *)
(* the rollback.                                                           *)

\* A transaction on S sends its first statement.
Begin(t, S) ==
  /\ pc[t] = "idle"
  /\ pc' = [pc EXCEPT ![t] = "update"]
  /\ \E b \in Batches(S) :
       /\ batch' = [batch EXCEPT ![t] = b]
       /\ left' = [left EXCEPT ![t] = S \ b]
  /\ ids' = [ids EXCEPT ![t] = S]

\* No row of these tags is locked by another transaction.
Free(t, b) == \A u \in Txn \ {t} : b \cap HeldTags(u) = {}

\* The next statement is sent, or the loop over the batches is over.
NextStatement(t) ==
  IF left[t] = {}
  THEN /\ pc' = [pc EXCEPT ![t] = "mongo"]
       /\ batch' = [batch EXCEPT ![t] = {}]
       /\ UNCHANGED left
  ELSE /\ \E b \in Batches(left[t]) :
            /\ batch' = [batch EXCEPT ![t] = b]
            /\ left' = [left EXCEPT ![t] = @ \ b]
       /\ pc' = [pc EXCEPT ![t] = "update"]

\* Mutant: the transaction is of the last statement only.
LockLast(t, W) ==
  /\ held' = [held EXCEPT ![t] = W]
  /\ NextStatement(t)
  /\ UNCHANGED <<rows, epcs, ids, to, info, before, read, versioned, past>>

\* A statement of t has written the rows W, which t keeps locked.
Lock(t, W) ==
  /\ held' = [held EXCEPT ![t] = @ \cup W]
  /\ NextStatement(t)
  /\ UNCHANGED <<rows, epcs, ids, to, info, before, read, versioned, past>>

\* Mutant: the update of the documents is not awaited, and lost.
MongoWriteLost(t, W, D) == drift' = D /\ UNCHANGED epcs

\* MongoDB writes the documents of W; D is what has no SQL behind it now.
MongoWrite(t, W, D) ==
  /\ epcs' = [e \in Epc |-> IF e \in W \cap Docs THEN Target(t, e) ELSE epcs[e]]
  /\ drift' = D

\* The call is over: its locks are released, its local variables are gone.
End(t) ==
  /\ pc' = [pc EXCEPT ![t] = "idle"]
  /\ ids' = [ids EXCEPT ![t] = {}]
  /\ left' = [left EXCEPT ![t] = {}]
  /\ batch' = [batch EXCEPT ![t] = {}]
  /\ held' = [held EXCEPT ![t] = {}]
  /\ to' = [x \in Exchange |-> IF x = t THEN None ELSE to[x]]
  /\ info' = [y \in Sync |-> IF y = t THEN NoInfo ELSE info[y]]
  /\ before' = [x \in Exchange |-> IF x = t THEN {} ELSE before[x]]

\* The commit makes the rows visible; a scan that has read them before is
\* stale.
Committed(t) ==
  /\ pc[t] = "commit"
  /\ End(t)
  /\ stale' = [s \in Scan |-> stale[s] \cup (HeldTags(t) \cap Scanned(s))]
  /\ UNCHANGED <<epcs, read, drift, versioned, overlap>>

\* Mutant: catch without rollback.
RollbackForgotten(t) ==
  /\ pc' = [pc EXCEPT ![t] = "idle"]
  /\ ids' = [ids EXCEPT ![t] = {}]
  /\ left' = [left EXCEPT ![t] = {}]
  /\ batch' = [batch EXCEPT ![t] = {}]
  /\ before' = [x \in Exchange |-> IF x = t THEN {} ELSE before[x]]
  /\ UNCHANGED <<rows, held, to, info, read, versioned, stale, overlap>>

\* catch: rollbackTransaction undoes the rows; abortTransaction nothing.
Rollback(t) == End(t) /\ UNCHANGED <<rows, read, versioned, stale, overlap>>

\* Mutant: the batch is sent again in the same transaction.
StatementErrorRetried(t) == pc[t] \in {"update", "insert"} /\ UNCHANGED vars

\* A statement fails (timeout, lost connection), or the process restarts.
StatementError(t) ==
  /\ pc[t] \in {"update", "insert"}
  /\ Rollback(t)
  /\ UNCHANGED <<epcs, drift>>

\* A set of transactions wait for one another: SQL Server fails one of them.
MayRun(t)      == Free(t, batch[t]) \/ (t \in Sync /\ versioned)
WaitsFor(t, u) == /\ t # u /\ pc[t] = "update"
                  /\ ~MayRun(t) /\ batch[t] \cap HeldTags(u) # {}
Deadlocked(t)  == \E C \in SUBSET Txn : /\ t \in C
                                        /\ \A u \in C : \E w \in C : WaitsFor(u, w)
Victim(t) == Deadlocked(t) /\ StatementError(t)

-----------------------------------------------------------------------------
(* exchangeEpc                                                             *)

\* The aggregate.  With "multi": every document of some orders but the new
\* one.
SelectMulti(o) == {UNION {OfOrder(f) : f \in F \ {o}} : F \in SUBSET MongoOrder}

\* Without: some documents of one order, up to a quantity.
SelectOne == UNION {SUBSET OfOrder(f) : f \in MongoOrder}

Selections(o) == SelectMulti(o) \cup SelectOne

\* None found: 404, nothing done.
ExchangeFind(x, o) ==
  \E S \in Selections(o) \ {{}} :
    /\ Begin(x, S)
    /\ to' = [to EXCEPT ![x] = o]
    /\ before' = [before EXCEPT ![x] = UNION {RowsOf(e) : e \in S}]
    /\ UNCHANGED <<rows, epcs, held, info, read, versioned, past>>

\* Mutant: the statement goes through dataSource.query, outside the
\* transaction, and waits for no lock.
ExchangeUpdateUnlocked(x) ==
  /\ pc[x] = "update"
  /\ Lock(x, UNION {RowsOf(e) : e \in batch[x]})

\* UPDATE ... SET mo_no_actual WHERE EPC_Code IN (batch): a tag without a
\* row has nothing to update, and no error.
ExchangeUpdate(x) ==
  /\ pc[x] = "update"
  /\ MayRun(x)
  /\ Lock(x, UNION {RowsOf(e) : e \in batch[x]})

\* updateMany, by tag, without the session.
ExchangeMongo(x) ==
  /\ pc[x] = "mongo"
  /\ MongoWrite(x, ids[x], (drift \ HeldTags(x)) \cup (ids[x] \ HeldTags(x)))
  /\ pc' = [pc EXCEPT ![x] = "commit"]
  /\ UNCHANGED <<rows, ids, left, batch, held, to, info, before, read, versioned, stale, overlap>>

ExchangeCommit(x) ==
  /\ Committed(x)
  /\ actual' = [r \in Row |-> IF r \in held[x] THEN to[x] ELSE actual[r]]
  /\ UNCHANGED mo

-----------------------------------------------------------------------------
(* upsertBulk                                                              *)

\* The payload: tags of some commands, each with the order the ERP gives it,
\* if the ERP knows one by now.  The customer lists a tag once, under one
\* command.
SyncBegin(y, S) ==
  /\ Begin(y, S)
  /\ \E f \in [S -> Order \cup {Undefined}] :
       info' = [info EXCEPT ![y] = [e \in Epc |-> IF e \in S THEN f[e] ELSE Undefined]]
  /\ overlap' = overlap \cup (S \cap UNION {ids[z] : z \in Sync \ {y}})
  /\ UNCHANGED <<rows, epcs, held, to, before, read, versioned, drift, stale>>

\* Mutant: the MERGE has no ON clause that matches.
SyncMatchNothing(y) ==
  /\ pc[y] = "update"
  /\ MayRun(y)
  /\ pc' = [pc EXCEPT ![y] = "insert"]
  /\ UNCHANGED <<rows, epcs, ids, left, batch, held, to, info, before, read, versioned, past>>

\* MERGE, the match: the tags of the batch that have no row.  A row another
\* transaction has locked is waited for, or, with row versions, seen as
\* committed.
SyncMatch(y) ==
  /\ pc[y] = "update"
  /\ MayRun(y)
  /\ pc' = [pc EXCEPT ![y] = "insert"]
  /\ batch' = [batch EXCEPT ![y] = {e \in @ : RowsOf(e) = {}}]
  /\ UNCHANGED <<rows, epcs, ids, left, held, to, info, before, read, versioned, past>>

\* WHEN NOT MATCHED THEN INSERT, with no HOLDLOCK since the match and no
\* unique index: nothing to wait for.
SyncInsert(y) == pc[y] = "insert" /\ Lock(y, batch[y] \X {y})

\* bulkWrite sets what the ERP gave, in the documents of all tags of the
\* payload: those whose row was there already as well.
SyncWritten(y) == {e \in ids[y] : info[y][e] # Undefined}
SyncMongo(y) ==
  /\ pc[y] = "mongo"
  /\ MongoWrite(y, SyncWritten(y),
                (drift \ (SyncWritten(y) \cap HeldTags(y)))
                  \cup (SyncWritten(y) \ HeldTags(y)) \cup (HeldTags(y) \ SyncWritten(y)))
  /\ pc' = [pc EXCEPT ![y] = "commit"]
  /\ UNCHANGED <<rows, ids, left, batch, held, to, info, before, read, versioned, stale, overlap>>

SyncCommit(y) ==
  /\ Committed(y)
  /\ mo' = [r \in Row |-> IF r \in held[y] THEN info[y][r[1]] ELSE mo[r]]
  /\ UNCHANGED actual

-----------------------------------------------------------------------------
(* Failures after the statements.                                          *)

Written(t) == IF t \in Exchange THEN ids[t] ELSE SyncWritten(t)

\* The MongoDB call fails, or the process restarts during it: some of its
\* documents are written.
MongoError(t) ==
  /\ pc[t] = "mongo"
  /\ \E W \in SUBSET Written(t) : MongoWrite(t, W, drift \cup W)
  /\ Rollback(t)

\* The commit fails, or the process restarts before it.
CommitError(t) ==
  /\ pc[t] = "commit"
  /\ drift' = drift \cup ids[t]
  /\ Rollback(t)
  /\ UNCHANGED epcs

-----------------------------------------------------------------------------
(* The consumer of the readers' queue, and the other writers.              *)

\* The LEFT JOIN of the scanned tags with the committed rows.  A tag whose
\* rows give several orders is written once for each; the last one stays.
ScanRead(s, S) ==
  /\ Scanned(s) = {}
  /\ \E f \in [Epc -> MongoOrder \cup {None}] :
       /\ \A e \in Epc : IF e \in S THEN f[e] \in OrdersOf(e) ELSE f[e] = None
       /\ read' = [read EXCEPT ![s] = f]
  /\ stale' = [stale EXCEPT ![s] = {}]
  /\ UNCHANGED <<rows, epcs, txn, before, versioned, drift, overlap>>

\* bulkWrite, upserting the documents.
ScanWrite(s) ==
  /\ Scanned(s) # {}
  /\ epcs' = [e \in Epc |-> IF e \in Scanned(s) THEN read[s][e] ELSE epcs[e]]
  /\ drift' = (drift \ Scanned(s)) \cup {e \in Scanned(s) : e \in stale[s] \/ Locked(e)}
  /\ read' = [read EXCEPT ![s] = [e \in Epc |-> None]]
  /\ stale' = [stale EXCEPT ![s] = {}]
  /\ UNCHANGED <<rows, txn, before, versioned, overlap>>

\* The job fails: the error is logged, the scan is gone.
ScanLost(s) ==
  /\ Scanned(s) # {}
  /\ read' = [read EXCEPT ![s] = [e \in Epc |-> None]]
  /\ stale' = [stale EXCEPT ![s] = {}]
  /\ UNCHANGED <<rows, epcs, txn, before, versioned, drift, overlap>>

\* upsertFPStock and deleteScannedEpcs delete documents.
Remove(e) ==
  /\ e \in Docs
  /\ epcs' = [epcs EXCEPT ![e] = None]
  /\ UNCHANGED <<rows, txn, before, read, versioned, past>>

-----------------------------------------------------------------------------
ExchangeStep(x) == ExchangeUpdate(x) \/ ExchangeMongo(x) \/ ExchangeCommit(x)
SyncStep(y)     == SyncMatch(y) \/ SyncInsert(y) \/ SyncMongo(y) \/ SyncCommit(y)
Fault(t)        == StatementError(t) \/ MongoError(t) \/ CommitError(t)

\* What happens when nothing fails.
Work ==
  \/ \E x \in Exchange : (\E o \in Order : ExchangeFind(x, o)) \/ ExchangeStep(x)
  \/ \E y \in Sync : (\E S \in (SUBSET Epc) \ {{}} : SyncBegin(y, S)) \/ SyncStep(y)
  \/ \E s \in Scan : (\E S \in SUBSET Epc : ScanRead(s, S)) \/ ScanWrite(s)
  \/ \E e \in Epc : Remove(e)

Next ==
  \/ Work
  \/ \E t \in Txn : Fault(t)
  \/ \E s \in Scan : ScanLost(s)

Spec == Init /\ [][Next]_vars

\* Both servers answer; SQL Server grants a lock in the order of the requests
\* for it, and its deadlock monitor runs.
FairSpec ==
  /\ Spec
  /\ \A x \in Exchange : SF_vars(ExchangeStep(x))
  /\ \A y \in Sync : SF_vars(SyncStep(y))
  /\ \A t \in Txn : WF_vars(Victim(t))
-----------------------------------------------------------------------------
(* What holds.                                                             *)

\* The order in a tag's document is the order of a row the tag has, and of
\* its only row if it has one, unless the tag has drifted: its document was
\* last written by a scan that had read an older row, by a sync that found a
\* row already there or no order in the ERP, by an exchange that found no
\* row, or by a transaction that failed after writing MongoDB.  In particular
\* concurrent exchanges that succeed always leave both stores with the same
\* winner, through lock waits and deadlocks, also of tags registered twice,
\* and the next clean scan ends every drift.
AgreeUnlessDrift ==
  \A e \in Docs \ drift :
    RowsOf(e) # {} /\ ~Locked(e) => epcs[e] \in OrdersOf(e)

\* A row of the tag other than r, committed or about to be.
OtherRow(r) ==
  \E q \in Row \ {r} :
    /\ q[1] = r[1]
    /\ mo[q] # None \/ \E u \in Txn : pc[u] = "commit" /\ q \in held[u]

\* While a transaction waits to commit, no other one holds its rows, and
\* their documents already show what it will commit.  Only a second row of
\* the tag, whose transaction has its own order for it, can come between.
PendingVisible ==
  \A t \in Txn : pc[t] = "commit" =>
    \A r \in held[t] :
      /\ \A u \in Txn \ {t} : r \notin held[u]
      /\ r[1] \in Docs \ drift => epcs[r[1]] = Target(t, r[1]) \/ OtherRow(r)

\* MERGE looks before it inserts, but locks nothing in between: a tag has two
\* rows, committed or not, only if two syncs that name it have been under way
\* at a time, as when a job that seemed stalled is run again.  One after the
\* other, through rollbacks, exchanges and restarts, they never make two, as
\* long as the customer lists a tag under one command only.
RegisteredTwiceNeedsOverlap ==
  \A q, r \in Row :
    /\ q # r /\ q[1] = r[1]
    /\ \A p \in {q, r} : mo[p] # None \/ \E t \in Txn : p \in held[t]
    => q[1] \in overlap

\* Locks never stop everything: while exchanges or syncs run, one of them has
\* its next statement, update or commit free to run, or is in a circle of lock
\* waits, which SQL Server's deadlock monitor breaks.  No statement waits for
\* a row only an ended call still locks.
GoesOn(t) == \/ pc[t] = "update" /\ MayRun(t)
             \/ pc[t] \in {"insert", "mongo", "commit"}
SomeoneMoves ==
  (\E t \in Txn : Running(t)) => \E t \in Txn : Running(t) /\ (GoesOn(t) \/ Deadlocked(t))

\* Whatever batches, lock waits, deadlocks, failures and restarts there are,
\* the calls and the table go on as OrderRecord says: an exchange takes effect
\* at one point for all rows its tags had when it began, a sync at one point
\* so that every tag of its payload has a row, and a call that fails changes
\* nothing.
Record == INSTANCE OrderRecord
ImplementsRecord == Record!Spec

\* Every exchange and sync that has started ends and releases its rows: a
\* circle of lock waits is broken, and a failure does not keep locks.
TransactionsEnd == \A t \in Txn : Running(t) ~> ~Running(t)
=============================================================================
