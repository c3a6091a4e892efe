------------------------------ MODULE EpcStock ------------------------------
(***************************************************************************)
(* Stocking an order: RFIDService.upsertFPStock moves the documents of one *)
(* manufacturing order out of the MongoDB collection "epcs" into the SQL   *)
(* Server table dv_InvRFIDrecorddet and the MongoDB collection             *)
(* "epcs_backup".                                                          *)
(*                                                                         *)
(* Several requests run at once (two pm2 instances, many handlers each),   *)
(* while scans keep writing documents, exchanges keep moving documents     *)
(* between orders and users delete scanned documents.  A request opens an  *)
(* SQL transaction and a MongoDB transaction and uses neither: the MERGE   *)
(* goes through dataSource.query and the collections are written without   *)
(* the session, so that every statement below takes effect at once and no  *)
(* rollback undoes it.                                                     *)
(*                                                                         *)
(* The unit of interleaving is one round trip to a store.  A MERGE without *)
(* HOLDLOCK is two steps, its match and its insert; insertMany is one step *)
(* per document; deleteMany and the writes of the other actors are one.    *)
(***************************************************************************)
EXTENDS Naturals, FiniteSets

CONSTANTS
  Epc,        \* the tags
  Order,      \* manufacturing orders (mo_no)
  NoOrder,    \* "no document of this tag in epcs"
  Request,    \* calls of PUT update-stock; a retry is another request
  ChunkSize   \* tags per MERGE statement (100 in the code)

ASSUME StockAssumption ==
  /\ NoOrder \notin Order
  /\ ChunkSize \in Nat \ {0}

VARIABLES
  epcs,       \* collection "epcs": the order of each tag's document
  backup,     \* collection "epcs_backup": tags, unique by its index
  inv,        \* table dv_InvRFIDrecorddet: rows <<tag, request that wrote it>>
  archive,    \* rows a daily job has moved out of inv
  pc,         \* where each request is
  order,      \* its orderCode
  payload,    \* the tags its find returned
  todo,       \* tags of payload not yet in a MERGE statement
  unmatched,  \* tags of the running MERGE that found no row to match
  saving,     \* its insertMany
  unsaved,    \* tags insertMany has not inserted yet
  removing    \* its deleteMany

\* History: read by the properties, never by a guard.
VARIABLES
  due,        \* tags scanned, not deleted by a user: they must be stocked
  late,       \* tags that joined a request's order after its find
  overlapped  \* requests that were in progress together with a request

stores  == <<epcs, backup, inv, archive>>
request == <<pc, order, payload, todo, unmatched, saving, unsaved, removing>>
history == <<due, late, overlapped>>
vars    == <<stores, request, history>>

Active(r)   == pc[r] \in {"merge", "insert", "move"}
Deleting(r) == pc[r] \in {"merge", "insert"} \/ removing[r] = "running"

Live        == {e \in Epc : epcs[e] # NoOrder}
OfOrder(o)  == {e \in Epc : epcs[e] = o}
InTable     == {e \in Epc : \E r \in Request : <<e, r>> \in inv}
Archived    == {e \in Epc : \E r \in Request : <<e, r>> \in archive}
Recorded    == InTable \cup Archived

\* Mutant: a last chunk that is not full is never cut.
FullChunksOnly(S) == {c \in SUBSET S : Cardinality(c) = ChunkSize}

\* chunk(payload, 100): the next chunk is full, or all that is left.
Chunks(S) == {c \in SUBSET S : \/ Cardinality(c) = ChunkSize
                               \/ c = S /\ Cardinality(c) < ChunkSize}

TypeOK ==
  /\ epcs \in [Epc -> Order \cup {NoOrder}]
  /\ backup \subseteq Epc
  /\ inv \subseteq Epc \X Request
  /\ archive \subseteq Epc \X Request
  /\ pc \in [Request -> {"idle", "merge", "insert", "move", "ok", "failed", "crashed"}]
  /\ order \in [Request -> Order \cup {NoOrder}]
  /\ payload \in [Request -> SUBSET Epc]
  /\ todo \in [Request -> SUBSET Epc]
  /\ unmatched \in [Request -> SUBSET Epc]
  /\ saving \in [Request -> {"none", "running", "failed"}]
  /\ unsaved \in [Request -> SUBSET Epc]
  /\ removing \in [Request -> {"none", "running", "done", "failed"}]
  /\ due \subseteq Epc
  /\ late \in [Request -> SUBSET Epc]
  /\ overlapped \in [Request -> SUBSET Request]

Init ==
  /\ epcs = [e \in Epc |-> NoOrder]
  /\ backup = {} /\ inv = {} /\ archive = {}
  /\ pc = [r \in Request |-> "idle"]
  /\ order = [r \in Request |-> NoOrder]
  /\ payload = [r \in Request |-> {}]
  /\ todo = [r \in Request |-> {}]
  /\ unmatched = [r \in Request |-> {}]
  /\ saving = [r \in Request |-> "none"]
  /\ unsaved = [r \in Request |-> {}]
  /\ removing = [r \in Request |-> "none"]
  /\ due = {}
  /\ late = [r \in Request |-> {}]
  /\ overlapped = [r \in Request |-> {}]

-----------------------------------------------------------------------------
(* The request.                                                            *)

\* find({mo_no}), then both startTransaction calls, which nothing uses.
Find(r, o) ==
  /\ pc[r] = "idle"
  /\ pc' = [pc EXCEPT ![r] = "merge"]
  /\ order' = [order EXCEPT ![r] = o]
  /\ payload' = [payload EXCEPT ![r] = OfOrder(o)]
  /\ todo' = [todo EXCEPT ![r] = OfOrder(o)]
  /\ unsaved' = [unsaved EXCEPT ![r] = OfOrder(o)]
  /\ overlapped' = [q \in Request |->
                      IF q = r THEN {p \in Request : Active(p)}
                      ELSE IF Active(q) THEN overlapped[q] \cup {r} ELSE overlapped[q]]
  /\ UNCHANGED <<stores, unmatched, saving, removing, due, late>>

\* Mutant: INSERT instead of MERGE.
InsertWithoutMatch(r) ==
  /\ pc[r] = "merge"
  /\ todo[r] # {}
  /\ \E c \in Chunks(todo[r]) :
       /\ unmatched' = [unmatched EXCEPT ![r] = c]
       /\ todo' = [todo EXCEPT ![r] = @ \ c]
  /\ pc' = [pc EXCEPT ![r] = "insert"]
  /\ UNCHANGED <<stores, order, payload, saving, unsaved, removing, history>>

\* MERGE ... ON target.EPC_Code = source.EPC_Code: the match.
MergeMatch(r) ==
  /\ pc[r] = "merge"
  /\ todo[r] # {}
  /\ \E c \in Chunks(todo[r]) :
       /\ unmatched' = [unmatched EXCEPT ![r] = c \ InTable]
       /\ todo' = [todo EXCEPT ![r] = @ \ c]
  /\ pc' = [pc EXCEPT ![r] = "insert"]
  /\ UNCHANGED <<stores, order, payload, saving, unsaved, removing, history>>

\* WHEN NOT MATCHED THEN INSERT: no HOLDLOCK and no unique index make the
\* match still hold here.
MergeInsert(r) ==
  /\ pc[r] = "insert"
  /\ inv' = inv \cup (unmatched[r] \X {r})
  /\ unmatched' = [unmatched EXCEPT ![r] = {}]
  /\ pc' = [pc EXCEPT ![r] = "merge"]
  /\ UNCHANGED <<epcs, backup, archive, order, payload, todo, saving, unsaved,
                 removing, history>>

\* The handler ends: its local variables are gone.
Forget(r) ==
  /\ todo' = [todo EXCEPT ![r] = {}]
  /\ unmatched' = [unmatched EXCEPT ![r] = {}]
  /\ unsaved' = [unsaved EXCEPT ![r] = {}]

\* Mutant: the error of one chunk is logged and the loop goes on.
SwallowMergeError(r) ==
  /\ pc[r] \in {"merge", "insert"}
  /\ pc' = [pc EXCEPT ![r] = "merge"]
  /\ unmatched' = [unmatched EXCEPT ![r] = {}]
  /\ UNCHANGED <<stores, order, payload, todo, saving, unsaved, removing, history>>

\* A MERGE rejects, or its answer is lost: catch, rollback of nothing, 500.
MergeError(r) ==
  /\ pc[r] \in {"merge", "insert"}
  /\ pc' = [pc EXCEPT ![r] = "failed"]
  /\ Forget(r)
  /\ UNCHANGED <<stores, order, payload, saving, removing, history>>

\* Mutant: the MERGE statements are not awaited before the move.
MoveWithoutAwait(r) ==
  /\ pc[r] = "merge"
  /\ pc' = [pc EXCEPT ![r] = "move"]
  /\ saving' = [saving EXCEPT ![r] = "running"]
  /\ removing' = [removing EXCEPT ![r] = "running"]
  /\ UNCHANGED <<stores, order, payload, todo, unmatched, unsaved, history>>

\* Promise.all([insertMany(payload), deleteMany({mo_no})]): both are sent.
StartMove(r) ==
  /\ pc[r] = "merge"
  /\ todo[r] = {}
  /\ pc' = [pc EXCEPT ![r] = "move"]
  /\ saving' = [saving EXCEPT ![r] = "running"]
  /\ removing' = [removing EXCEPT ![r] = "running"]
  /\ UNCHANGED <<stores, order, payload, todo, unmatched, unsaved, history>>

\* Mutant: no unique index on epcs_backup.
SaveAgain(r) ==
  /\ saving[r] = "running"
  /\ \E e \in unsaved[r] :
       /\ backup' = backup \cup {e}
       /\ unsaved' = [unsaved EXCEPT ![r] = @ \ {e}]
  /\ UNCHANGED <<epcs, inv, archive, pc, order, payload, todo, unmatched, saving, removing,
                 history>>

\* insertMany inserts the next document.
SaveOne(r) ==
  /\ saving[r] = "running"
  /\ \E e \in unsaved[r] \ backup :
       /\ backup' = backup \cup {e}
       /\ unsaved' = [unsaved EXCEPT ![r] = @ \ {e}]
  /\ UNCHANGED <<epcs, inv, archive, pc, order, payload, todo, unmatched, saving,
                 removing, history>>

\* The rejection of one of the two calls answers 500; the other call, if it
\* is still running, is not stopped by it.
Reject(r) == IF pc[r] = "move" THEN [pc EXCEPT ![r] = "failed"] ELSE pc

\* The next document is in epcs_backup already: duplicate key, and the
\* ordered insertMany stops there.
SaveDuplicate(r) ==
  /\ saving[r] = "running"
  /\ unsaved[r] \cap backup # {}
  /\ saving' = [saving EXCEPT ![r] = "failed"]
  /\ unsaved' = [unsaved EXCEPT ![r] = {}]
  /\ pc' = Reject(r)
  /\ UNCHANGED <<stores, order, payload, todo, unmatched, removing, history>>

\* insertMany fails for another reason, with the documents left not inserted.
SaveError(r) ==
  /\ saving[r] = "running"
  /\ unsaved[r] # {}
  /\ saving' = [saving EXCEPT ![r] = "failed"]
  /\ unsaved' = [unsaved EXCEPT ![r] = {}]
  /\ pc' = Reject(r)
  /\ UNCHANGED <<stores, order, payload, todo, unmatched, removing, history>>

\* deleteMany({mo_no: orderCode}): by the order, not by the tags it has read.
RemoveAll(r) ==
  /\ removing[r] = "running"
  /\ epcs' = [e \in Epc |-> IF epcs[e] = order[r] THEN NoOrder ELSE epcs[e]]
  /\ removing' = [removing EXCEPT ![r] = "done"]
  /\ UNCHANGED <<backup, inv, archive, pc, order, payload, todo, unmatched, saving,
                 unsaved, history>>

\* deleteMany fails without effect.
RemoveError(r) ==
  /\ removing[r] = "running"
  /\ removing' = [removing EXCEPT ![r] = "failed"]
  /\ pc' = Reject(r)
  /\ UNCHANGED <<stores, order, payload, todo, unmatched, saving, unsaved, history>>

\* The answer of a call is lost, or a commit rejects: 500.
MoveError(r) ==
  /\ pc[r] = "move"
  /\ pc' = [pc EXCEPT ![r] = "failed"]
  /\ UNCHANGED <<stores, order, payload, todo, unmatched, saving, unsaved, removing,
                 history>>

\* Mutant: only deleteMany is awaited.
AcknowledgeEarly(r) ==
  /\ pc[r] = "move"
  /\ removing[r] = "done"
  /\ pc' = [pc EXCEPT ![r] = "ok"]
  /\ UNCHANGED <<stores, order, payload, todo, unmatched, saving, unsaved, removing, history>>

\* Both calls have returned and both (empty) transactions commit: 201.
Acknowledge(r) ==
  /\ pc[r] = "move"
  /\ unsaved[r] = {}
  /\ removing[r] = "done"
  /\ pc' = [pc EXCEPT ![r] = "ok"]
  /\ UNCHANGED <<stores, order, payload, todo, unmatched, saving, unsaved, removing,
                 history>>

\* Mutant: a restart leaves its calls in a state nothing handles.
Abandon(status) == "abandoned"

Stop(status) == IF status = "running" THEN "failed" ELSE status

\* pm2 restarts the instance.  A call already sent may still take effect:
\* that is the step before this one.
Crash(r) ==
  /\ Active(r)
  /\ pc' = [pc EXCEPT ![r] = "crashed"]
  /\ saving' = [saving EXCEPT ![r] = Stop(@)]
  /\ removing' = [removing EXCEPT ![r] = Stop(@)]
  /\ Forget(r)
  /\ UNCHANGED <<stores, order, payload, history>>

-----------------------------------------------------------------------------
(* The other writers of the stores.                                        *)

\* Tag e now has a document of order o: requests that have read o miss it.
Joins(e, o) ==
  /\ epcs' = [epcs EXCEPT ![e] = o]
  /\ late' = [r \in Request |->
                IF order[r] = o /\ Deleting(r) /\ e \notin payload[r]
                THEN late[r] \cup {e} ELSE late[r]]

\* The reader's consumer upserts the document of a scanned tag.
ScanWrite(e, o) ==
  /\ Joins(e, o)
  /\ due' = due \cup {e}
  /\ UNCHANGED <<backup, inv, archive, request, overlapped>>

\* exchangeEpc's updateMany gives an existing document another order.
Reassign(e, o) ==
  /\ e \in Live
  /\ Joins(e, o)
  /\ UNCHANGED <<backup, inv, archive, request, due, overlapped>>

\* deleteScannedEpcs deletes the document of a tag it has selected before,
\* whatever has happened to it since: for a stocking request, any document
\* may go at any time.
Discard(e) ==
  /\ e \in Live
  /\ epcs' = [epcs EXCEPT ![e] = NoOrder]
  /\ due' = due \ {e}
  /\ UNCHANGED <<backup, inv, archive, request, late, overlapped>>

\* The daily job outside this program moves the rows of a tag to
\* dv_InvRFIDrecorddet_backup_Daily, which the reports read as well.
Archive(e) ==
  /\ e \in InTable
  /\ archive' = archive \cup {row \in inv : row[1] = e}
  /\ inv' = inv \ ({e} \X Request)
  /\ UNCHANGED <<epcs, backup, request, history>>

-----------------------------------------------------------------------------
Step(r) ==
  \/ MergeMatch(r)
  \/ MergeInsert(r)
  \/ StartMove(r)
  \/ SaveOne(r)
  \/ SaveDuplicate(r)
  \/ RemoveAll(r)
  \/ Acknowledge(r)

Fault(r) ==
  \/ MergeError(r)
  \/ SaveError(r)
  \/ RemoveError(r)
  \/ MoveError(r)
  \/ Crash(r)

Environment ==
  \/ \E e \in Epc, o \in Order : ScanWrite(e, o) \/ Reassign(e, o)
  \/ \E e \in Epc : Discard(e) \/ Archive(e)

Next ==
  \/ \E r \in Request :
       \/ \E o \in Order : Find(r, o)
       \/ Step(r)
       \/ Fault(r)
  \/ Environment

Spec == Init /\ [][Next]_vars

\* The event loop and both servers answer: a request that can take its next
\* step does so.  Nothing makes a client send a request, or a tag be scanned.
FairSpec == Spec /\ \A r \in Request : WF_vars(Step(r))
-----------------------------------------------------------------------------
(* What holds.                                                             *)

\* A tag reaches epcs_backup only after a row of it is in the inventory (or
\* was, and is archived): whatever fails, restarts or interleaves, the copy
\* kept in MongoDB never runs ahead of the book of record.
BackupRecorded == backup \subseteq Recorded

\* A request answered 201 has every tag it read in the inventory and in the
\* backup: no failure between its chunks or its two parallel calls is
\* reported as a success.
AcknowledgedStocked ==
  \A r \in Request : pc[r] = "ok" => payload[r] \subseteq backup \cap Recorded

\* No tag is counted by two requests answered 201, however they overlap, are
\* retried after a 500 or after a restart: the unique index of epcs_backup
\* refuses the second.
AcknowledgedOnce ==
  \A r, q \in Request :
    r # q /\ pc[r] = "ok" /\ pc[q] = "ok" => payload[r] \cap payload[q] = {}

\* Two rows of one tag are in the inventory table together only if the two
\* requests that wrote them were in progress together: a retry sent after
\* the answer, or after a crash, never counts a tag twice.
DuplicateRowsNeedOverlap ==
  \A e \in Epc : \A r, q \in Request :
    r # q /\ <<e, r>> \in inv /\ <<e, q>> \in inv => q \in overlapped[r]

\* A scanned tag no user deleted is in epcs, or is recorded, or joined the
\* order of a request after its find and before its deleteMany: that window
\* is the only way a tag is lost, through every failure, crash and retry.
LostOnlyIfLate ==
  \A e \in due :
    \/ e \in Live
    \/ e \in Recorded
    \/ \E r \in Request : removing[r] = "done" /\ e \in late[r]

\* The handlers, with their tables, collections, faults and restarts, do no
\* more than the ledger of StockLedger: record, save once what is recorded,
\* answer with what is recorded, saved and in no other answer.
Answered(r) == IF pc[r] = "ok" THEN payload[r] ELSE {}
Ledger == INSTANCE StockLedger WITH
            Tag <- Epc, Client <- Request, recorded <- Recorded, saved <- backup,
            counted <- [r \in Request |-> Answered(r)]
ImplementsLedger == Ledger!Spec

\* Every request that has started is answered, or its process restarts.
RequestsEnd == \A r \in Request : Active(r) ~> ~Active(r)

-----------------------------------------------------------------------------
(* What the documentation promises and the code does not do.               *)

\* "Inventory Management: Track stock levels": a tag that was scanned and not
\* deleted by a user is waiting in epcs or recorded.
NothingLost == due \subseteq Live \cup Recorded
=============================================================================
