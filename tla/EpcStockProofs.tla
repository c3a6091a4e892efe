--------------------------- MODULE EpcStockProofs ---------------------------
(* The safety properties of EpcStock, for any number of tags, orders and   *)
(* overlapping requests, any chunk size and every fault, and of the        *)
(* reports that read its tables.                                           *)
EXTENDS StockReports, FiniteSetTheorems, TLAPS

-----------------------------------------------------------------------------
(* The inductive invariant, part by part.                                  *)

\* Where a request is decides what its local variables can hold.
Bookkeeping ==
  \A r \in Request :
    /\ pc[r] # "idle" => order[r] \in Order
    /\ unsaved[r] \subseteq payload[r]
    /\ pc[r] # "insert" => unmatched[r] = {}
    /\ pc[r] \in {"idle", "merge", "insert"} => saving[r] = "none" /\ removing[r] = "none"
    /\ pc[r] \in {"merge", "insert"} => unsaved[r] = payload[r]
    /\ pc[r] \in {"move", "ok"} => saving[r] = "running"
    /\ pc[r] = "ok" => unsaved[r] = {}

\* The loop over the chunks has recorded what is no longer in todo.
LoopInv ==
  \A r \in Request : pc[r] \in {"merge", "insert"} =>
    payload[r] \subseteq Recorded \cup todo[r] \cup unmatched[r]

\* Both calls of the move are sent after the whole payload is recorded.
MoveInv ==
  \A r \in Request :
    saving[r] = "running" \/ removing[r] \in {"running", "done"} =>
      payload[r] \subseteq Recorded

\* What an insertMany has inserted is in the backup, and nobody else did it.
Saved(r) == payload[r] \ unsaved[r]
SavedInv ==
  /\ \A r \in Request : saving[r] = "running" => Saved(r) \subseteq backup
  /\ \A r, q \in Request :
       r # q /\ saving[r] = "running" /\ saving[q] = "running" => Saved(r) \cap Saved(q) = {}

\* A row that appeared after a request's match was written by a request in
\* progress together with it.
OverlapInv ==
  /\ \A r, q \in Request : r # q /\ Active(r) /\ Active(q) => q \in overlapped[r]
  /\ \A r \in Request : pc[r] = "idle" => \A e \in Epc : <<e, r>> \notin inv
  /\ \A r, q \in Request : \A e \in unmatched[r] :
       r # q /\ <<e, q>> \in inv => q \in overlapped[r] /\ r \in overlapped[q]

\* A deleteMany still to come removes what was read or what came late.
WindowInv ==
  \A r \in Request : Deleting(r) =>
    \A e \in Epc : epcs[e] = order[r] => e \in payload[r] \cup late[r]

IInv ==
  /\ TypeOK
  /\ Bookkeeping
  /\ LoopInv
  /\ MoveInv
  /\ SavedInv
  /\ BackupRecorded
  /\ OverlapInv
  /\ DuplicateRowsNeedOverlap
  /\ WindowInv
  /\ LostOnlyIfLate

-----------------------------------------------------------------------------
(* Type correctness.                                                       *)

LEMMA InitType == ASSUME Init PROVE TypeOK
  BY DEF Init, TypeOK

LEMMA NextType == ASSUME TypeOK, [Next]_vars PROVE TypeOK'
<1> USE StockAssumption DEF StockAssumption, TypeOK
<1>1. ASSUME NEW r \in Request, NEW o \in Order, Find(r, o) PROVE TypeOK'
  BY <1>1 DEF Find, stores, OfOrder
<1>2. ASSUME NEW r \in Request, MergeMatch(r) PROVE TypeOK'
  BY <1>2 DEF MergeMatch, stores, history, Chunks
<1>3. ASSUME NEW r \in Request, MergeInsert(r) PROVE TypeOK'
  BY <1>3 DEF MergeInsert, history
<1>4. ASSUME NEW r \in Request, MergeError(r) PROVE TypeOK'
  BY <1>4 DEF MergeError, Forget, stores, history
<1>5. ASSUME NEW r \in Request, StartMove(r) PROVE TypeOK'
  BY <1>5 DEF StartMove, stores, history
<1>6. ASSUME NEW r \in Request, SaveOne(r) PROVE TypeOK'
  BY <1>6 DEF SaveOne, history
<1>7. ASSUME NEW r \in Request, SaveDuplicate(r) \/ SaveError(r) PROVE TypeOK'
  BY <1>7 DEF SaveDuplicate, SaveError, Reject, stores, history
<1>8. ASSUME NEW r \in Request, RemoveAll(r) PROVE TypeOK'
  BY <1>8 DEF RemoveAll, history
<1>9. ASSUME NEW r \in Request, RemoveError(r) PROVE TypeOK'
  BY <1>9 DEF RemoveError, Reject, stores, history
<1>10. ASSUME NEW r \in Request, MoveError(r) \/ Acknowledge(r) PROVE TypeOK'
  BY <1>10 DEF MoveError, Acknowledge, stores, history
<1>11. ASSUME NEW r \in Request, Crash(r) PROVE TypeOK'
  BY <1>11 DEF Crash, Stop, Forget, stores, history
<1>12. ASSUME NEW e \in Epc, NEW o \in Order, ScanWrite(e, o) \/ Reassign(e, o) PROVE TypeOK'
  BY <1>12 DEF ScanWrite, Reassign, Joins, request
<1>13. ASSUME NEW e \in Epc, Discard(e) PROVE TypeOK'
  BY <1>13 DEF Discard, request
<1>14. ASSUME NEW e \in Epc, Archive(e) PROVE TypeOK'
  <2>1. inv' \subseteq inv /\ archive' \subseteq archive \cup inv
    BY <1>14 DEF Archive
  <2> QED
    BY <1>14, <2>1 DEF Archive, request, history
<1>15. CASE UNCHANGED vars
  BY <1>15 DEF vars, stores, request, history
<1> QED
  BY <1>1, <1>2, <1>3, <1>4, <1>5, <1>6, <1>7, <1>8, <1>9, <1>10, <1>11, <1>12, <1>13,
     <1>14, <1>15
  DEF Next, Step, Fault, Environment

\* The stores and the requests stay well-formed, whatever their number.
THEOREM TypeCorrect == Spec => []TypeOK
<1>1. Init => TypeOK
  BY InitType
<1>2. TypeOK /\ [Next]_vars => TypeOK'
  BY NextType
<1> QED
  BY <1>1, <1>2, PTL DEF Spec

-----------------------------------------------------------------------------
(* What each step does to each part of the invariant.  One step per action *)
(* of EpcStock; each lemma assumes only the parts it needs.               *)

\* Nothing recorded is forgotten: archiving a row keeps its tag.
LEMMA RecordedGrows == ASSUME TypeOK, [Next]_vars PROVE Recorded \subseteq Recorded'
<1> USE DEF TypeOK, Recorded, InTable, Archived, stores, request, history
<1>1. ASSUME NEW r \in Request, NEW o \in Order, Find(r, o) PROVE Recorded \subseteq Recorded'
  BY <1>1 DEF Find
<1>2. ASSUME NEW r \in Request, MergeMatch(r) PROVE Recorded \subseteq Recorded'
  BY <1>2 DEF MergeMatch
<1>3. ASSUME NEW r \in Request, MergeInsert(r) PROVE Recorded \subseteq Recorded'
  BY <1>3 DEF MergeInsert
<1>4. ASSUME NEW r \in Request, MergeError(r) PROVE Recorded \subseteq Recorded'
  BY <1>4 DEF MergeError, Forget
<1>5. ASSUME NEW r \in Request, StartMove(r) PROVE Recorded \subseteq Recorded'
  BY <1>5 DEF StartMove
<1>6. ASSUME NEW r \in Request, SaveOne(r) PROVE Recorded \subseteq Recorded'
  BY <1>6 DEF SaveOne
<1>7. ASSUME NEW r \in Request, SaveDuplicate(r) \/ SaveError(r) PROVE Recorded \subseteq Recorded'
  BY <1>7 DEF SaveDuplicate, SaveError, Reject
<1>8. ASSUME NEW r \in Request, RemoveAll(r) PROVE Recorded \subseteq Recorded'
  BY <1>8 DEF RemoveAll
<1>9. ASSUME NEW r \in Request, RemoveError(r) PROVE Recorded \subseteq Recorded'
  BY <1>9 DEF RemoveError, Reject
<1>10. ASSUME NEW r \in Request, MoveError(r) \/ Acknowledge(r) PROVE Recorded \subseteq Recorded'
  BY <1>10 DEF MoveError, Acknowledge
<1>11. ASSUME NEW r \in Request, Crash(r) PROVE Recorded \subseteq Recorded'
  BY <1>11 DEF Crash, Forget, Stop, Active
<1>12. ASSUME NEW e \in Epc, NEW o \in Order, ScanWrite(e, o) \/ Reassign(e, o) PROVE Recorded \subseteq Recorded'
  BY <1>12 DEF ScanWrite, Reassign, Joins, Live
<1>13. ASSUME NEW e \in Epc, Discard(e) PROVE Recorded \subseteq Recorded'
  BY <1>13 DEF Discard
<1>14. ASSUME NEW e \in Epc, Archive(e) PROVE Recorded \subseteq Recorded'
  <2>1. ASSUME NEW x \in Recorded PROVE x \in Recorded'
    <3>1. CASE x \in Archived
      BY <1>14, <3>1 DEF Archive
    <3>2. CASE x \notin Archived /\ x # e
      BY <1>14, <2>1, <3>2 DEF Archive
    <3>3. CASE x \notin Archived /\ x = e
      <4>1. PICK q \in Request : <<e, q>> \in inv
        BY <2>1, <3>3
      <4>2. <<e, q>> \in archive'
        BY <1>14, <4>1 DEF Archive
      <4> QED
        BY <3>3, <4>1, <4>2
    <3> QED
      BY <3>1, <3>2, <3>3
  <2> QED
    BY <2>1
<1>15. CASE UNCHANGED vars
  BY <1>15 DEF vars
<1> QED
  BY <1>1, <1>2, <1>3, <1>4, <1>5, <1>6, <1>7, <1>8, <1>9, <1>10, <1>11, <1>12, <1>13, <1>14, <1>15
  DEF Next, Step, Fault, Environment

\* A request's local variables follow its program counter.
LEMMA BookkeepingStep == ASSUME TypeOK, Bookkeeping, [Next]_vars PROVE Bookkeeping'
<1> USE DEF TypeOK, Bookkeeping, stores, request, history
<1>1. ASSUME NEW r \in Request, NEW o \in Order, Find(r, o) PROVE Bookkeeping'
  BY <1>1 DEF Find
<1>2. ASSUME NEW r \in Request, MergeMatch(r) PROVE Bookkeeping'
  BY <1>2 DEF MergeMatch
<1>3. ASSUME NEW r \in Request, MergeInsert(r) PROVE Bookkeeping'
  BY <1>3 DEF MergeInsert
<1>4. ASSUME NEW r \in Request, MergeError(r) PROVE Bookkeeping'
  BY <1>4 DEF MergeError, Forget
<1>5. ASSUME NEW r \in Request, StartMove(r) PROVE Bookkeeping'
  BY <1>5 DEF StartMove
<1>6. ASSUME NEW r \in Request, SaveOne(r) PROVE Bookkeeping'
  BY <1>6 DEF SaveOne
<1>7. ASSUME NEW r \in Request, SaveDuplicate(r) \/ SaveError(r) PROVE Bookkeeping'
  BY <1>7 DEF SaveDuplicate, SaveError, Reject
<1>8. ASSUME NEW r \in Request, RemoveAll(r) PROVE Bookkeeping'
  BY <1>8 DEF RemoveAll
<1>9. ASSUME NEW r \in Request, RemoveError(r) PROVE Bookkeeping'
  BY <1>9 DEF RemoveError, Reject
<1>10. ASSUME NEW r \in Request, MoveError(r) \/ Acknowledge(r) PROVE Bookkeeping'
  BY <1>10 DEF MoveError, Acknowledge
<1>11. ASSUME NEW r \in Request, Crash(r) PROVE Bookkeeping'
  BY <1>11 DEF Crash, Forget, Stop, Active
<1>12. ASSUME NEW e \in Epc, NEW o \in Order, ScanWrite(e, o) \/ Reassign(e, o) PROVE Bookkeeping'
  BY <1>12 DEF ScanWrite, Reassign, Joins, Live
<1>13. ASSUME NEW e \in Epc, Discard(e) PROVE Bookkeeping'
  BY <1>13 DEF Discard
<1>14. ASSUME NEW e \in Epc, Archive(e) PROVE Bookkeeping'
  BY <1>14 DEF Archive
<1>15. CASE UNCHANGED vars
  BY <1>15 DEF vars
<1> QED
  BY <1>1, <1>2, <1>3, <1>4, <1>5, <1>6, <1>7, <1>8, <1>9, <1>10, <1>11, <1>12, <1>13, <1>14, <1>15
  DEF Next, Step, Fault, Environment

\* A MERGE leaves every tag of its chunk recorded.
LEMMA LoopStep == ASSUME TypeOK, Bookkeeping, LoopInv, Recorded \subseteq Recorded', [Next]_vars PROVE LoopInv'
<1> USE DEF TypeOK, Bookkeeping, LoopInv, stores, request, history
<1>1. ASSUME NEW r \in Request, NEW o \in Order, Find(r, o) PROVE LoopInv'
  BY <1>1 DEF Find
<1>2. ASSUME NEW r \in Request, MergeMatch(r) PROVE LoopInv'
  <2>1. PICK c \in Chunks(todo[r]) :
          /\ unmatched' = [unmatched EXCEPT ![r] = c \ InTable]
          /\ todo' = [todo EXCEPT ![r] = @ \ c]
    BY <1>2 DEF MergeMatch
  <2>2. c \cap InTable \subseteq Recorded'
    BY DEF Recorded
  <2>3. payload[r] \subseteq Recorded' \cup (todo[r] \ c) \cup (c \ InTable)
    BY <1>2, <2>2 DEF MergeMatch
  <2>4. payload' = payload /\ pc' = [pc EXCEPT ![r] = "insert"]
    BY <1>2 DEF MergeMatch
  <2> QED
    BY <2>1, <2>3, <2>4
<1>3. ASSUME NEW r \in Request, MergeInsert(r) PROVE LoopInv'
  <2>1. unmatched[r] \subseteq Recorded'
    BY <1>3 DEF MergeInsert, Recorded, InTable
  <2>2. /\ payload' = payload /\ todo' = todo
        /\ pc' = [pc EXCEPT ![r] = "merge"]
        /\ unmatched' = [unmatched EXCEPT ![r] = {}]
    BY <1>3 DEF MergeInsert
  <2>3. payload[r] \subseteq Recorded' \cup todo[r]
    BY <1>3, <2>1 DEF MergeInsert
  <2> QED
    BY <2>2, <2>3
<1>4. ASSUME NEW r \in Request, MergeError(r) PROVE LoopInv'
  BY <1>4 DEF MergeError, Forget
<1>5. ASSUME NEW r \in Request, StartMove(r) PROVE LoopInv'
  BY <1>5 DEF StartMove
<1>6. ASSUME NEW r \in Request, SaveOne(r) PROVE LoopInv'
  BY <1>6 DEF SaveOne
<1>7. ASSUME NEW r \in Request, SaveDuplicate(r) \/ SaveError(r) PROVE LoopInv'
  BY <1>7 DEF SaveDuplicate, SaveError, Reject
<1>8. ASSUME NEW r \in Request, RemoveAll(r) PROVE LoopInv'
  BY <1>8 DEF RemoveAll
<1>9. ASSUME NEW r \in Request, RemoveError(r) PROVE LoopInv'
  BY <1>9 DEF RemoveError, Reject
<1>10. ASSUME NEW r \in Request, MoveError(r) \/ Acknowledge(r) PROVE LoopInv'
  BY <1>10 DEF MoveError, Acknowledge
<1>11. ASSUME NEW r \in Request, Crash(r) PROVE LoopInv'
  BY <1>11 DEF Crash, Forget, Stop, Active
<1>12. ASSUME NEW e \in Epc, NEW o \in Order, ScanWrite(e, o) \/ Reassign(e, o) PROVE LoopInv'
  BY <1>12 DEF ScanWrite, Reassign, Joins, Live
<1>13. ASSUME NEW e \in Epc, Discard(e) PROVE LoopInv'
  BY <1>13 DEF Discard
<1>14. ASSUME NEW e \in Epc, Archive(e) PROVE LoopInv'
  BY <1>14 DEF Archive
<1>15. CASE UNCHANGED vars
  BY <1>15 DEF vars
<1> QED
  BY <1>1, <1>2, <1>3, <1>4, <1>5, <1>6, <1>7, <1>8, <1>9, <1>10, <1>11, <1>12, <1>13, <1>14, <1>15
  DEF Next, Step, Fault, Environment

\* The move starts when nothing is left to merge.
LEMMA MoveStep == ASSUME TypeOK, Bookkeeping, LoopInv, MoveInv, Recorded \subseteq Recorded', [Next]_vars PROVE MoveInv'
<1> USE DEF TypeOK, Bookkeeping, LoopInv, MoveInv, stores, request, history
<1>1. ASSUME NEW r \in Request, NEW o \in Order, Find(r, o) PROVE MoveInv'
  BY <1>1 DEF Find
<1>2. ASSUME NEW r \in Request, MergeMatch(r) PROVE MoveInv'
  BY <1>2 DEF MergeMatch
<1>3. ASSUME NEW r \in Request, MergeInsert(r) PROVE MoveInv'
  BY <1>3 DEF MergeInsert
<1>4. ASSUME NEW r \in Request, MergeError(r) PROVE MoveInv'
  BY <1>4 DEF MergeError, Forget
<1>5. ASSUME NEW r \in Request, StartMove(r) PROVE MoveInv'
  BY <1>5 DEF StartMove
<1>6. ASSUME NEW r \in Request, SaveOne(r) PROVE MoveInv'
  BY <1>6 DEF SaveOne
<1>7. ASSUME NEW r \in Request, SaveDuplicate(r) \/ SaveError(r) PROVE MoveInv'
  BY <1>7 DEF SaveDuplicate, SaveError, Reject
<1>8. ASSUME NEW r \in Request, RemoveAll(r) PROVE MoveInv'
  BY <1>8 DEF RemoveAll
<1>9. ASSUME NEW r \in Request, RemoveError(r) PROVE MoveInv'
  BY <1>9 DEF RemoveError, Reject
<1>10. ASSUME NEW r \in Request, MoveError(r) \/ Acknowledge(r) PROVE MoveInv'
  BY <1>10 DEF MoveError, Acknowledge
<1>11. ASSUME NEW r \in Request, Crash(r) PROVE MoveInv'
  BY <1>11 DEF Crash, Forget, Stop, Active
<1>12. ASSUME NEW e \in Epc, NEW o \in Order, ScanWrite(e, o) \/ Reassign(e, o) PROVE MoveInv'
  BY <1>12 DEF ScanWrite, Reassign, Joins, Live
<1>13. ASSUME NEW e \in Epc, Discard(e) PROVE MoveInv'
  BY <1>13 DEF Discard
<1>14. ASSUME NEW e \in Epc, Archive(e) PROVE MoveInv'
  BY <1>14 DEF Archive
<1>15. CASE UNCHANGED vars
  BY <1>15 DEF vars
<1> QED
  BY <1>1, <1>2, <1>3, <1>4, <1>5, <1>6, <1>7, <1>8, <1>9, <1>10, <1>11, <1>12, <1>13, <1>14, <1>15
  DEF Next, Step, Fault, Environment

\* The unique index lets one request insert a tag into the backup.
LEMMA SavedStep == ASSUME TypeOK, Bookkeeping, SavedInv, [Next]_vars PROVE SavedInv'
<1> USE DEF TypeOK, Bookkeeping, SavedInv, Saved, stores, request, history
<1>1. ASSUME NEW r \in Request, NEW o \in Order, Find(r, o) PROVE SavedInv'
  BY <1>1 DEF Find
<1>2. ASSUME NEW r \in Request, MergeMatch(r) PROVE SavedInv'
  BY <1>2 DEF MergeMatch
<1>3. ASSUME NEW r \in Request, MergeInsert(r) PROVE SavedInv'
  BY <1>3 DEF MergeInsert
<1>4. ASSUME NEW r \in Request, MergeError(r) PROVE SavedInv'
  BY <1>4 DEF MergeError, Forget
<1>5. ASSUME NEW r \in Request, StartMove(r) PROVE SavedInv'
  BY <1>5 DEF StartMove
<1>6. ASSUME NEW r \in Request, SaveOne(r) PROVE SavedInv'
  BY <1>6 DEF SaveOne
<1>7. ASSUME NEW r \in Request, SaveDuplicate(r) \/ SaveError(r) PROVE SavedInv'
  BY <1>7 DEF SaveDuplicate, SaveError, Reject
<1>8. ASSUME NEW r \in Request, RemoveAll(r) PROVE SavedInv'
  BY <1>8 DEF RemoveAll
<1>9. ASSUME NEW r \in Request, RemoveError(r) PROVE SavedInv'
  BY <1>9 DEF RemoveError, Reject
<1>10. ASSUME NEW r \in Request, MoveError(r) \/ Acknowledge(r) PROVE SavedInv'
  BY <1>10 DEF MoveError, Acknowledge
<1>11. ASSUME NEW r \in Request, Crash(r) PROVE SavedInv'
  BY <1>11 DEF Crash, Forget, Stop, Active
<1>12. ASSUME NEW e \in Epc, NEW o \in Order, ScanWrite(e, o) \/ Reassign(e, o) PROVE SavedInv'
  BY <1>12 DEF ScanWrite, Reassign, Joins, Live
<1>13. ASSUME NEW e \in Epc, Discard(e) PROVE SavedInv'
  BY <1>13 DEF Discard
<1>14. ASSUME NEW e \in Epc, Archive(e) PROVE SavedInv'
  BY <1>14 DEF Archive
<1>15. CASE UNCHANGED vars
  BY <1>15 DEF vars
<1> QED
  BY <1>1, <1>2, <1>3, <1>4, <1>5, <1>6, <1>7, <1>8, <1>9, <1>10, <1>11, <1>12, <1>13, <1>14, <1>15
  DEF Next, Step, Fault, Environment

\* insertMany only inserts what the request has recorded.
LEMMA BackupStep == ASSUME TypeOK, Bookkeeping, MoveInv, BackupRecorded, Recorded \subseteq Recorded', [Next]_vars PROVE BackupRecorded'
<1> USE DEF TypeOK, Bookkeeping, MoveInv, BackupRecorded, stores, request, history
<1>1. ASSUME NEW r \in Request, NEW o \in Order, Find(r, o) PROVE BackupRecorded'
  BY <1>1 DEF Find
<1>2. ASSUME NEW r \in Request, MergeMatch(r) PROVE BackupRecorded'
  BY <1>2 DEF MergeMatch
<1>3. ASSUME NEW r \in Request, MergeInsert(r) PROVE BackupRecorded'
  BY <1>3 DEF MergeInsert
<1>4. ASSUME NEW r \in Request, MergeError(r) PROVE BackupRecorded'
  BY <1>4 DEF MergeError, Forget
<1>5. ASSUME NEW r \in Request, StartMove(r) PROVE BackupRecorded'
  BY <1>5 DEF StartMove
<1>6. ASSUME NEW r \in Request, SaveOne(r) PROVE BackupRecorded'
  BY <1>6 DEF SaveOne
<1>7. ASSUME NEW r \in Request, SaveDuplicate(r) \/ SaveError(r) PROVE BackupRecorded'
  BY <1>7 DEF SaveDuplicate, SaveError, Reject
<1>8. ASSUME NEW r \in Request, RemoveAll(r) PROVE BackupRecorded'
  BY <1>8 DEF RemoveAll
<1>9. ASSUME NEW r \in Request, RemoveError(r) PROVE BackupRecorded'
  BY <1>9 DEF RemoveError, Reject
<1>10. ASSUME NEW r \in Request, MoveError(r) \/ Acknowledge(r) PROVE BackupRecorded'
  BY <1>10 DEF MoveError, Acknowledge
<1>11. ASSUME NEW r \in Request, Crash(r) PROVE BackupRecorded'
  BY <1>11 DEF Crash, Forget, Stop, Active
<1>12. ASSUME NEW e \in Epc, NEW o \in Order, ScanWrite(e, o) \/ Reassign(e, o) PROVE BackupRecorded'
  BY <1>12 DEF ScanWrite, Reassign, Joins, Live
<1>13. ASSUME NEW e \in Epc, Discard(e) PROVE BackupRecorded'
  BY <1>13 DEF Discard
<1>14. ASSUME NEW e \in Epc, Archive(e) PROVE BackupRecorded'
  BY <1>14 DEF Archive
<1>15. CASE UNCHANGED vars
  BY <1>15 DEF vars
<1> QED
  BY <1>1, <1>2, <1>3, <1>4, <1>5, <1>6, <1>7, <1>8, <1>9, <1>10, <1>11, <1>12, <1>13, <1>14, <1>15
  DEF Next, Step, Fault, Environment

\* Between a match and its insert only overlapping requests write rows.
LEMMA OverlapStep == ASSUME TypeOK, Bookkeeping, OverlapInv, [Next]_vars PROVE OverlapInv'
<1> USE DEF TypeOK, Bookkeeping, OverlapInv, Active, InTable, stores, request, history
<1>1. ASSUME NEW r \in Request, NEW o \in Order, Find(r, o) PROVE OverlapInv'
  BY <1>1 DEF Find
<1>2. ASSUME NEW r \in Request, MergeMatch(r) PROVE OverlapInv'
  <2>1. PICK c \in SUBSET Epc : unmatched' = [unmatched EXCEPT ![r] = c \ InTable]
    BY <1>2 DEF MergeMatch, Chunks
  <2>2. \A x \in unmatched'[r] : \A q \in Request : <<x, q>> \notin inv
    BY <2>1
  <2>3. /\ inv' = inv /\ overlapped' = overlapped
        /\ \A q \in Request : pc'[q] = IF q = r THEN "insert" ELSE pc[q]
        /\ pc[r] = "merge"
        /\ \A q \in Request : q # r => unmatched'[q] = unmatched[q]
    BY <1>2, <2>1 DEF MergeMatch
  <2> QED
    BY <2>2, <2>3
<1>3. ASSUME NEW r \in Request, MergeInsert(r) PROVE OverlapInv'
  BY <1>3 DEF MergeInsert
<1>4. ASSUME NEW r \in Request, MergeError(r) PROVE OverlapInv'
  BY <1>4 DEF MergeError, Forget
<1>5. ASSUME NEW r \in Request, StartMove(r) PROVE OverlapInv'
  BY <1>5 DEF StartMove
<1>6. ASSUME NEW r \in Request, SaveOne(r) PROVE OverlapInv'
  BY <1>6 DEF SaveOne
<1>7. ASSUME NEW r \in Request, SaveDuplicate(r) \/ SaveError(r) PROVE OverlapInv'
  BY <1>7 DEF SaveDuplicate, SaveError, Reject
<1>8. ASSUME NEW r \in Request, RemoveAll(r) PROVE OverlapInv'
  BY <1>8 DEF RemoveAll
<1>9. ASSUME NEW r \in Request, RemoveError(r) PROVE OverlapInv'
  BY <1>9 DEF RemoveError, Reject
<1>10. ASSUME NEW r \in Request, MoveError(r) \/ Acknowledge(r) PROVE OverlapInv'
  BY <1>10 DEF MoveError, Acknowledge
<1>11. ASSUME NEW r \in Request, Crash(r) PROVE OverlapInv'
  BY <1>11 DEF Crash, Forget, Stop, Active
<1>12. ASSUME NEW e \in Epc, NEW o \in Order, ScanWrite(e, o) \/ Reassign(e, o) PROVE OverlapInv'
  BY <1>12 DEF ScanWrite, Reassign, Joins, Live
<1>13. ASSUME NEW e \in Epc, Discard(e) PROVE OverlapInv'
  BY <1>13 DEF Discard
<1>14. ASSUME NEW e \in Epc, Archive(e) PROVE OverlapInv'
  BY <1>14 DEF Archive
<1>15. CASE UNCHANGED vars
  BY <1>15 DEF vars
<1> QED
  BY <1>1, <1>2, <1>3, <1>4, <1>5, <1>6, <1>7, <1>8, <1>9, <1>10, <1>11, <1>12, <1>13, <1>14, <1>15
  DEF Next, Step, Fault, Environment

\* A row is inserted next to another only by an overlapping request.
LEMMA DuplicateStep == ASSUME TypeOK, Bookkeeping, OverlapInv, DuplicateRowsNeedOverlap, [Next]_vars PROVE DuplicateRowsNeedOverlap'
<1> USE DEF TypeOK, Bookkeeping, OverlapInv, DuplicateRowsNeedOverlap, Active, InTable, stores, request, history
<1>1. ASSUME NEW r \in Request, NEW o \in Order, Find(r, o) PROVE DuplicateRowsNeedOverlap'
  BY <1>1 DEF Find
<1>2. ASSUME NEW r \in Request, MergeMatch(r) PROVE DuplicateRowsNeedOverlap'
  BY <1>2 DEF MergeMatch
<1>3. ASSUME NEW r \in Request, MergeInsert(r) PROVE DuplicateRowsNeedOverlap'
  BY <1>3 DEF MergeInsert
<1>4. ASSUME NEW r \in Request, MergeError(r) PROVE DuplicateRowsNeedOverlap'
  BY <1>4 DEF MergeError, Forget
<1>5. ASSUME NEW r \in Request, StartMove(r) PROVE DuplicateRowsNeedOverlap'
  BY <1>5 DEF StartMove
<1>6. ASSUME NEW r \in Request, SaveOne(r) PROVE DuplicateRowsNeedOverlap'
  BY <1>6 DEF SaveOne
<1>7. ASSUME NEW r \in Request, SaveDuplicate(r) \/ SaveError(r) PROVE DuplicateRowsNeedOverlap'
  BY <1>7 DEF SaveDuplicate, SaveError, Reject
<1>8. ASSUME NEW r \in Request, RemoveAll(r) PROVE DuplicateRowsNeedOverlap'
  BY <1>8 DEF RemoveAll
<1>9. ASSUME NEW r \in Request, RemoveError(r) PROVE DuplicateRowsNeedOverlap'
  BY <1>9 DEF RemoveError, Reject
<1>10. ASSUME NEW r \in Request, MoveError(r) \/ Acknowledge(r) PROVE DuplicateRowsNeedOverlap'
  BY <1>10 DEF MoveError, Acknowledge
<1>11. ASSUME NEW r \in Request, Crash(r) PROVE DuplicateRowsNeedOverlap'
  BY <1>11 DEF Crash, Forget, Stop, Active
<1>12. ASSUME NEW e \in Epc, NEW o \in Order, ScanWrite(e, o) \/ Reassign(e, o) PROVE DuplicateRowsNeedOverlap'
  BY <1>12 DEF ScanWrite, Reassign, Joins, Live
<1>13. ASSUME NEW e \in Epc, Discard(e) PROVE DuplicateRowsNeedOverlap'
  BY <1>13 DEF Discard
<1>14. ASSUME NEW e \in Epc, Archive(e) PROVE DuplicateRowsNeedOverlap'
  BY <1>14 DEF Archive
<1>15. CASE UNCHANGED vars
  BY <1>15 DEF vars
<1> QED
  BY <1>1, <1>2, <1>3, <1>4, <1>5, <1>6, <1>7, <1>8, <1>9, <1>10, <1>11, <1>12, <1>13, <1>14, <1>15
  DEF Next, Step, Fault, Environment

\* A document that joins an order in the window of a request comes late.
LEMMA WindowStep == ASSUME TypeOK, Bookkeeping, WindowInv, [Next]_vars PROVE WindowInv'
<1> USE DEF TypeOK, Bookkeeping, WindowInv, Deleting, OfOrder, StockAssumption, stores, request, history
<1>1. ASSUME NEW r \in Request, NEW o \in Order, Find(r, o) PROVE WindowInv'
  BY StockAssumption, <1>1 DEF Find
<1>2. ASSUME NEW r \in Request, MergeMatch(r) PROVE WindowInv'
  BY StockAssumption, <1>2 DEF MergeMatch
<1>3. ASSUME NEW r \in Request, MergeInsert(r) PROVE WindowInv'
  BY StockAssumption, <1>3 DEF MergeInsert
<1>4. ASSUME NEW r \in Request, MergeError(r) PROVE WindowInv'
  BY StockAssumption, <1>4 DEF MergeError, Forget
<1>5. ASSUME NEW r \in Request, StartMove(r) PROVE WindowInv'
  BY StockAssumption, <1>5 DEF StartMove
<1>6. ASSUME NEW r \in Request, SaveOne(r) PROVE WindowInv'
  BY StockAssumption, <1>6 DEF SaveOne
<1>7. ASSUME NEW r \in Request, SaveDuplicate(r) \/ SaveError(r) PROVE WindowInv'
  BY StockAssumption, <1>7 DEF SaveDuplicate, SaveError, Reject
<1>8. ASSUME NEW r \in Request, RemoveAll(r) PROVE WindowInv'
  BY StockAssumption, <1>8 DEF RemoveAll
<1>9. ASSUME NEW r \in Request, RemoveError(r) PROVE WindowInv'
  BY StockAssumption, <1>9 DEF RemoveError, Reject
<1>10. ASSUME NEW r \in Request, MoveError(r) \/ Acknowledge(r) PROVE WindowInv'
  BY StockAssumption, <1>10 DEF MoveError, Acknowledge
<1>11. ASSUME NEW r \in Request, Crash(r) PROVE WindowInv'
  BY StockAssumption, <1>11 DEF Crash, Forget, Stop, Active
<1>12. ASSUME NEW e \in Epc, NEW o \in Order, ScanWrite(e, o) \/ Reassign(e, o) PROVE WindowInv'
  BY StockAssumption, <1>12 DEF ScanWrite, Reassign, Joins, Live
<1>13. ASSUME NEW e \in Epc, Discard(e) PROVE WindowInv'
  BY StockAssumption, <1>13 DEF Discard
<1>14. ASSUME NEW e \in Epc, Archive(e) PROVE WindowInv'
  BY StockAssumption, <1>14 DEF Archive
<1>15. CASE UNCHANGED vars
  BY StockAssumption, <1>15 DEF vars
<1> QED
  BY <1>1, <1>2, <1>3, <1>4, <1>5, <1>6, <1>7, <1>8, <1>9, <1>10, <1>11, <1>12, <1>13, <1>14, <1>15
  DEF Next, Step, Fault, Environment

\* deleteMany removes what is recorded and what came late.
LEMMA LostStep == ASSUME TypeOK, Bookkeeping, MoveInv, WindowInv, LostOnlyIfLate, Recorded \subseteq Recorded', [Next]_vars PROVE LostOnlyIfLate'
<1> USE DEF TypeOK, Bookkeeping, MoveInv, WindowInv, LostOnlyIfLate, Live, Deleting, stores, request, history
<1>1. ASSUME NEW r \in Request, NEW o \in Order, Find(r, o) PROVE LostOnlyIfLate'
  BY <1>1 DEF Find
<1>2. ASSUME NEW r \in Request, MergeMatch(r) PROVE LostOnlyIfLate'
  BY <1>2 DEF MergeMatch
<1>3. ASSUME NEW r \in Request, MergeInsert(r) PROVE LostOnlyIfLate'
  BY <1>3 DEF MergeInsert
<1>4. ASSUME NEW r \in Request, MergeError(r) PROVE LostOnlyIfLate'
  BY <1>4 DEF MergeError, Forget
<1>5. ASSUME NEW r \in Request, StartMove(r) PROVE LostOnlyIfLate'
  BY <1>5 DEF StartMove
<1>6. ASSUME NEW r \in Request, SaveOne(r) PROVE LostOnlyIfLate'
  BY <1>6 DEF SaveOne
<1>7. ASSUME NEW r \in Request, SaveDuplicate(r) \/ SaveError(r) PROVE LostOnlyIfLate'
  BY <1>7 DEF SaveDuplicate, SaveError, Reject
<1>8. ASSUME NEW r \in Request, RemoveAll(r) PROVE LostOnlyIfLate'
  BY <1>8 DEF RemoveAll
<1>9. ASSUME NEW r \in Request, RemoveError(r) PROVE LostOnlyIfLate'
  BY <1>9 DEF RemoveError, Reject
<1>10. ASSUME NEW r \in Request, MoveError(r) \/ Acknowledge(r) PROVE LostOnlyIfLate'
  BY <1>10 DEF MoveError, Acknowledge
<1>11. ASSUME NEW r \in Request, Crash(r) PROVE LostOnlyIfLate'
  BY <1>11 DEF Crash, Forget, Stop, Active
<1>12. ASSUME NEW e \in Epc, NEW o \in Order, ScanWrite(e, o) \/ Reassign(e, o) PROVE LostOnlyIfLate'
  <2>1. \A x \in Epc : x \in Live \/ x = e => epcs'[x] # NoOrder
    BY <1>12, StockAssumption DEF ScanWrite, Reassign, Joins, Live, StockAssumption
  <2>2. \A x \in due' : x \in due \/ x = e
    BY <1>12 DEF ScanWrite, Reassign, Joins
  <2>3. removing' = removing /\ \A q \in Request : late[q] \subseteq late'[q]
    BY <1>12 DEF ScanWrite, Reassign, Joins
  <2> QED
    BY <2>1, <2>2, <2>3
<1>13. ASSUME NEW e \in Epc, Discard(e) PROVE LostOnlyIfLate'
  BY <1>13 DEF Discard
<1>14. ASSUME NEW e \in Epc, Archive(e) PROVE LostOnlyIfLate'
  BY <1>14 DEF Archive
<1>15. CASE UNCHANGED vars
  BY <1>15 DEF vars
<1> QED
  BY <1>1, <1>2, <1>3, <1>4, <1>5, <1>6, <1>7, <1>8, <1>9, <1>10, <1>11, <1>12, <1>13, <1>14, <1>15
  DEF Next, Step, Fault, Environment

-----------------------------------------------------------------------------
(* The inductive invariant and what follows from it.                       *)

LEMMA InitIInv == ASSUME Init PROVE IInv
<1> USE DEF Init
<1>1. TypeOK
  BY InitType
<1>2. Bookkeeping /\ LoopInv /\ MoveInv /\ SavedInv
  BY DEF Bookkeeping, LoopInv, MoveInv, SavedInv, Saved
<1>3. BackupRecorded /\ DuplicateRowsNeedOverlap /\ LostOnlyIfLate
  BY DEF BackupRecorded, DuplicateRowsNeedOverlap, LostOnlyIfLate
<1>4. OverlapInv /\ WindowInv
  BY DEF OverlapInv, Active, WindowInv, Deleting
<1> QED
  BY <1>1, <1>2, <1>3, <1>4 DEF IInv

LEMMA NextIInv == ASSUME IInv, [Next]_vars PROVE IInv'
<1> USE DEF IInv
<1>1. TypeOK' /\ Recorded \subseteq Recorded'
  BY NextType, RecordedGrows
<1>2. Bookkeeping' /\ LoopInv' /\ MoveInv'
  BY <1>1, BookkeepingStep, LoopStep, MoveStep
<1>3. SavedInv' /\ BackupRecorded'
  BY <1>1, SavedStep, BackupStep
<1>4. OverlapInv' /\ DuplicateRowsNeedOverlap'
  BY OverlapStep, DuplicateStep
<1>5. WindowInv' /\ LostOnlyIfLate'
  BY <1>1, WindowStep, LostStep
<1> QED
  BY <1>1, <1>2, <1>3, <1>4, <1>5

\* The parts above hold together in every reachable state.
THEOREM Inductive == Spec => []IInv
<1>1. Init => IInv
  BY InitIInv
<1>2. IInv /\ [Next]_vars => IInv'
  BY NextIInv
<1> QED
  BY <1>1, <1>2, PTL DEF Spec

LEMMA IInvAcknowledged == IInv => AcknowledgedStocked /\ AcknowledgedOnce
<1>1. IInv => AcknowledgedStocked
  BY DEF IInv, TypeOK, Bookkeeping, MoveInv, SavedInv, Saved, AcknowledgedStocked
<1>2. IInv => AcknowledgedOnce
  BY DEF IInv, TypeOK, Bookkeeping, SavedInv, Saved, AcknowledgedOnce
<1> QED
  BY <1>1, <1>2

\* epcs_backup never holds a tag the inventory has no record of.
THEOREM BackupRecordedAlways == Spec => []BackupRecorded
<1>1. IInv => BackupRecorded
  BY DEF IInv
<1> QED
  BY <1>1, Inductive, PTL

\* A 201 means that every tag the request read is recorded and backed up.
THEOREM AcknowledgedStockedAlways == Spec => []AcknowledgedStocked
<1>1. IInv => AcknowledgedStocked
  BY IInvAcknowledged
<1> QED
  BY <1>1, Inductive, PTL

\* However many requests overlap or are retried, no tag is acknowledged twice.
THEOREM AcknowledgedOnceAlways == Spec => []AcknowledgedOnce
<1>1. IInv => AcknowledgedOnce
  BY IInvAcknowledged
<1> QED
  BY <1>1, Inductive, PTL

\* A tag has two rows in the table only by requests that overlapped.
THEOREM DuplicateRowsAlways == Spec => []DuplicateRowsNeedOverlap
<1>1. IInv => DuplicateRowsNeedOverlap
  BY DEF IInv
<1> QED
  BY <1>1, Inductive, PTL

\* No fault loses a scanned tag: only joining an order in a window does.
THEOREM LostOnlyIfLateAlways == Spec => []LostOnlyIfLate
<1>1. IInv => LostOnlyIfLate
  BY DEF IInv
<1> QED
  BY <1>1, Inductive, PTL

-----------------------------------------------------------------------------
(* Stocking implements the ledger.                                         *)

\* A step that changes nothing the ledger knows of.
Same == UNCHANGED <<backup, Recorded>> /\ \A r \in Request : Answered(r)' = Answered(r)

LEMMA SameStutters == ASSUME Same PROVE UNCHANGED Ledger!vars
  BY DEF Same, Ledger!vars

LEMMA LedgerInit == ASSUME Init PROVE Ledger!Init
  BY DEF Init, Ledger!Init, Answered, Recorded, InTable, Archived

LEMMA LedgerStep == ASSUME IInv, [Next]_vars, IInv' PROVE [Ledger!Next]_(Ledger!vars)
<1> USE DEF TypeOK, Same, Answered, stores, history
<1>0. TypeOK /\ TypeOK'
  BY DEF IInv
<1>1. ASSUME NEW r \in Request, NEW o \in Order, Find(r, o) PROVE Same
  BY <1>0, <1>1 DEF Find, Recorded, InTable, Archived
<1>2. ASSUME NEW r \in Request, MergeMatch(r) PROVE Same
  BY <1>0, <1>2 DEF MergeMatch, Recorded, InTable, Archived
<1>3. ASSUME NEW r \in Request, MergeInsert(r) PROVE Same \/ Ledger!Next
  <2>1. Recorded' = Recorded \cup unmatched[r]
    BY <1>0, <1>3 DEF MergeInsert, Recorded, InTable, Archived
  <2>2. backup' = backup /\ \A q \in Request : Answered(q)' = Answered(q)
    BY <1>0, <1>3 DEF MergeInsert
  <2>3. unmatched[r] \subseteq Epc
    BY <1>0
  <2> HIDE DEF Answered, Recorded, TypeOK
  <2> QED
    BY <2>1, <2>2, <2>3 DEF Ledger!Record, Ledger!Next
<1>4. ASSUME NEW r \in Request, MergeError(r) PROVE Same
  BY <1>0, <1>4 DEF MergeError, Forget, Recorded, InTable, Archived
<1>5. ASSUME NEW r \in Request, StartMove(r) PROVE Same
  BY <1>0, <1>5 DEF StartMove, Recorded, InTable, Archived
<1>6. ASSUME NEW r \in Request, SaveOne(r) PROVE Ledger!Next
  <2>1. PICK e \in unsaved[r] \ backup : backup' = backup \cup {e}
    BY <1>6 DEF SaveOne
  <2>2. e \in Epc /\ e \in Recorded \ backup
    BY <1>0, <1>6, <2>1 DEF SaveOne, IInv, Bookkeeping, MoveInv
  <2>3. Recorded' = Recorded /\ \A q \in Request : Answered(q)' = Answered(q)
    BY <1>0, <1>6 DEF SaveOne, Recorded, InTable, Archived
  <2> HIDE DEF Answered, TypeOK
  <2> QED
    BY <2>1, <2>2, <2>3 DEF Ledger!Save, Ledger!Next
<1>7. ASSUME NEW r \in Request, SaveDuplicate(r) \/ SaveError(r) PROVE Same
  <2>1. CASE SaveDuplicate(r)
    BY <1>0, <2>1 DEF SaveDuplicate, Reject, Recorded, InTable, Archived
  <2>2. CASE SaveError(r)
    BY <1>0, <2>2 DEF SaveError, Reject, Recorded, InTable, Archived
  <2> QED
    BY <1>7, <2>1, <2>2
<1>8. ASSUME NEW r \in Request, RemoveAll(r) PROVE Same
  BY <1>0, <1>8 DEF RemoveAll, Recorded, InTable, Archived
<1>9. ASSUME NEW r \in Request, RemoveError(r) PROVE Same
  BY <1>0, <1>9 DEF RemoveError, Reject, Recorded, InTable, Archived
<1>10. ASSUME NEW r \in Request, MoveError(r) PROVE Same
  BY <1>0, <1>10 DEF MoveError, Recorded, InTable, Archived
<1>11. ASSUME NEW r \in Request, Acknowledge(r) PROVE Ledger!Next
  <2>1. backup' = backup /\ Recorded' = Recorded /\ payload' = payload
    BY <1>11 DEF Acknowledge, Recorded, InTable, Archived
  <2>2. pc[r] = "move" /\ pc' = [pc EXCEPT ![r] = "ok"]
    BY <1>11 DEF Acknowledge
  <2>3. Answered(r) = {} /\ Answered(r)' = payload[r]
    BY <1>0, <2>1, <2>2
  <2>4. \A q \in Request \ {r} : Answered(q)' = Answered(q)
    BY <1>0, <2>1, <2>2
  <2>5. AcknowledgedStocked' /\ AcknowledgedOnce'
    BY IInvAcknowledged, PTL
  <2>6. payload[r] \subseteq Recorded \cap backup
    BY <1>0, <2>1, <2>2, <2>5 DEF AcknowledgedStocked
  <2>7. \A q \in Request \ {r} : payload[r] \cap Answered(q) = {}
    BY <1>0, <2>1, <2>2, <2>5 DEF AcknowledgedOnce
  <2>10. payload[r] \in SUBSET Epc
    BY <1>0
  <2> HIDE DEF Answered, TypeOK
  <2>8. [q \in Request |-> Answered(q)]' = [[q \in Request |-> Answered(q)] EXCEPT ![r] = payload[r]]
    BY <2>3, <2>4
  <2>9. Ledger!Answer(r, payload[r]) /\ payload[r] \in SUBSET Epc
    BY <2>1, <2>3, <2>6, <2>7, <2>8, <2>10 DEF Ledger!Answer
  <2> QED
    BY <2>9 DEF Ledger!Next
<1>12. ASSUME NEW r \in Request, Crash(r) PROVE Same
  BY <1>0, <1>12 DEF Crash, Active, Forget, Recorded, InTable, Archived
<1>13. ASSUME NEW e \in Epc, NEW o \in Order, ScanWrite(e, o) \/ Reassign(e, o) PROVE Same
  BY <1>13 DEF ScanWrite, Reassign, Joins, request, Recorded, InTable, Archived
<1>14. ASSUME NEW e \in Epc, Discard(e) PROVE Same
  BY <1>14 DEF Discard, request, Recorded, InTable, Archived
<1>15. ASSUME NEW e \in Epc, Archive(e) PROVE Same
  <2>1. Recorded \subseteq Recorded'
    BY <1>0, <1>15, RecordedGrows DEF Next, Environment
  <2>2. InTable' \subseteq InTable
    BY <1>15 DEF Archive, InTable
  <2>3. ASSUME NEW x \in Archived' PROVE x \in Archived \cup InTable
    <3>1. PICK q \in Request : <<x, q>> \in archive'
      BY DEF Archived
    <3>2. CASE <<x, q>> \in archive
      BY <3>2 DEF Archived
    <3>3. CASE <<x, q>> \notin archive
      BY <1>15, <3>1, <3>3 DEF Archive
    <3> QED
      BY <3>2, <3>3
  <2>4. Recorded' = Recorded
    BY <2>1, <2>2, <2>3 DEF Recorded
  <2> QED
    BY <1>15, <2>4 DEF Archive, request
<1>16. ASSUME UNCHANGED vars PROVE Same
  <2>1. backup' = backup /\ inv' = inv /\ archive' = archive /\ pc' = pc /\ payload' = payload
    BY <1>16 DEF vars, request
  <2> QED
    BY <1>0, <2>1 DEF Recorded, InTable, Archived
<1> HIDE DEF TypeOK, Same, Answered, stores, history
<1>17. Same \/ Ledger!Next
  BY <1>1, <1>2, <1>3, <1>4, <1>5, <1>6, <1>7, <1>8, <1>9, <1>10, <1>11, <1>12, <1>13, <1>14,
     <1>15, <1>16
  DEF Next, Step, Fault, Environment
<1> QED
  BY <1>17, SameStutters

\* The handlers of stocking, with every fault and interleaving, implement the
\* abstract ledger: StockLedger's promises are theirs.
THEOREM LedgerImplemented == Spec => ImplementsLedger
<1>1. Init => Ledger!Init
  BY LedgerInit
<1>2. IInv /\ [Next]_vars /\ IInv' => [Ledger!Next]_(Ledger!vars)
  BY LedgerStep
<1> QED
  BY <1>1, <1>2, Inductive, PTL DEF Spec, ImplementsLedger, Ledger!Spec
-----------------------------------------------------------------------------
(* The reports.                                                            *)

\* A row is of a request that has started, and of a tag it has read.
RowsInv ==
  /\ \A r \in Request : todo[r] \subseteq payload[r] /\ unmatched[r] \subseteq payload[r]
  /\ \A e \in Epc, r \in Request : <<e, r>> \in Datalist => pc[r] # "idle" /\ e \in payload[r]

\* A step keeps the rows, and the order of a request that has some.
RowsKept ==
  \A e \in Epc, r \in Request : <<e, r>> \in Datalist => <<e, r>> \in Datalist' /\ order'[r] = order[r]

LEMMA RowsStep == ASSUME TypeOK, Bookkeeping, RowsInv, [Next]_vars PROVE RowsInv' /\ RowsKept
<1> USE DEF TypeOK, RowsInv, RowsKept, Datalist, stores, request, history
<1>1. ASSUME NEW r \in Request, NEW o \in Order, Find(r, o) PROVE RowsInv' /\ RowsKept
  BY <1>1 DEF Find, OfOrder, Bookkeeping
<1>2. ASSUME NEW r \in Request, MergeMatch(r) PROVE RowsInv' /\ RowsKept
  <2>1. PICK c \in SUBSET todo[r] :
          /\ unmatched' = [unmatched EXCEPT ![r] = c \ InTable]
          /\ todo' = [todo EXCEPT ![r] = @ \ c]
    BY <1>2 DEF MergeMatch, Chunks
  <2> QED
    BY <1>2, <2>1 DEF MergeMatch
<1>3. ASSUME NEW r \in Request, MergeInsert(r) PROVE RowsInv' /\ RowsKept
  BY <1>3 DEF MergeInsert
<1>4. ASSUME NEW r \in Request, MergeError(r) PROVE RowsInv' /\ RowsKept
  BY <1>4 DEF MergeError, Forget
<1>5. ASSUME NEW r \in Request, StartMove(r) PROVE RowsInv' /\ RowsKept
  BY <1>5 DEF StartMove
<1>6. ASSUME NEW r \in Request, SaveOne(r) PROVE RowsInv' /\ RowsKept
  BY <1>6 DEF SaveOne
<1>7. ASSUME NEW r \in Request, SaveDuplicate(r) \/ SaveError(r) PROVE RowsInv' /\ RowsKept
  BY <1>7 DEF SaveDuplicate, SaveError, Reject
<1>8. ASSUME NEW r \in Request, RemoveAll(r) PROVE RowsInv' /\ RowsKept
  BY <1>8 DEF RemoveAll
<1>9. ASSUME NEW r \in Request, RemoveError(r) PROVE RowsInv' /\ RowsKept
  BY <1>9 DEF RemoveError, Reject
<1>10. ASSUME NEW r \in Request, MoveError(r) \/ Acknowledge(r) PROVE RowsInv' /\ RowsKept
  BY <1>10 DEF MoveError, Acknowledge
<1>11. ASSUME NEW r \in Request, Crash(r) PROVE RowsInv' /\ RowsKept
  BY <1>11 DEF Crash, Forget, Stop, Active
<1>12. ASSUME NEW e \in Epc, NEW o \in Order, ScanWrite(e, o) \/ Reassign(e, o) PROVE RowsInv' /\ RowsKept
  BY <1>12 DEF ScanWrite, Reassign, Joins, Live
<1>13. ASSUME NEW e \in Epc, Discard(e) PROVE RowsInv' /\ RowsKept
  BY <1>13 DEF Discard
<1>14. ASSUME NEW e \in Epc, Archive(e) PROVE RowsInv' /\ RowsKept
  <2>1. \A f \in Epc, r \in Request : <<f, r>> \in Datalist' <=> <<f, r>> \in Datalist
    <3> TAKE f \in Epc, r \in Request
    <3>1. CASE f = e
      BY <1>14, <3>1 DEF Archive
    <3>2. CASE f # e
      BY <1>14, <3>2 DEF Archive
    <3> QED
      BY <3>1, <3>2
  <2> QED
    BY <1>14, <2>1 DEF Archive
<1>15. CASE UNCHANGED vars
  BY <1>15 DEF vars
<1> QED
  BY <1>1, <1>2, <1>3, <1>4, <1>5, <1>6, <1>7, <1>8, <1>9, <1>10, <1>11, <1>12, <1>13, <1>14, <1>15
  DEF Next, Step, Fault, Environment

LEMMA RowsAlways == Spec => [](IInv /\ RowsInv)
<1>1. Init => IInv /\ RowsInv
  <2> SUFFICES ASSUME Init PROVE IInv /\ RowsInv
    OBVIOUS
  <2> QED
    BY InitIInv DEF Init, RowsInv, Datalist
<1>2. IInv /\ RowsInv /\ [Next]_vars => (IInv /\ RowsInv)'
  BY NextIInv, RowsStep DEF IInv
<1> QED
  BY <1>1, <1>2, PTL DEF Spec

\* A tag a report counts, as its rows say it.
LEMMA CountedIs ==
  ASSUME TypeOK, NEW c, NEW o, NEW s, NEW l, NEW e
  PROVE  e \in Counted(c, o, s, l) <=>
           e \in Epc /\ \E r \in Request :
             <<e, r>> \in Datalist /\ order[r] = o /\ c.status[r] = s /\ l \in c.lines[<<e, r>>]
<1>1. \A row \in Datalist : \E f \in Epc, r \in Request : row = <<f, r>>
  BY DEF TypeOK, Datalist
<1>2. e \in Counted(c, o, s, l) <=>
        \E row \in Datalist : row[1] = e /\ order[row[2]] = o /\ c.status[row[2]] = s /\ l \in c.lines[row]
  BY DEF Counted, Tags, OrderOf
<1>3. ASSUME NEW row \in Datalist, row[1] = e, order[row[2]] = o, c.status[row[2]] = s, l \in c.lines[row]
      PROVE  e \in Epc /\ \E r \in Request :
               <<e, r>> \in Datalist /\ order[r] = o /\ c.status[r] = s /\ l \in c.lines[<<e, r>>]
  BY <1>1, <1>3
<1>4. ASSUME NEW r \in Request, <<e, r>> \in Datalist, order[r] = o, c.status[r] = s, l \in c.lines[<<e, r>>]
      PROVE  \E row \in Datalist : row[1] = e /\ order[row[2]] = o /\ c.status[row[2]] = s /\ l \in c.lines[row]
  BY <1>4
<1> QED
  BY <1>2, <1>3, <1>4

\* Two rows of a tag: of overlapping requests, unless one was archived.
LEMMA RowsTogether ==
  ASSUME IInv, NEW e \in Epc, NEW r \in Request, NEW q \in Request,
         <<e, r>> \in Datalist, <<e, q>> \in Datalist
  PROVE  r = q \/ Together(e, r, q)
BY DEF IInv, DuplicateRowsNeedOverlap, Datalist, Together

\* A report goes on counting on a line what it has counted there.
THEOREM ReportsNeverShrinkAlways == Spec => ReportsNeverShrink
<1>1. IInv /\ RowsInv /\ IInv' /\ [Next]_vars =>
        [\A c \in Columns, o \in Order, s \in Statuses, l \in Line :
           Counted(c, o, s, l) \subseteq Counted(c, o, s, l)']_vars
  <2> SUFFICES ASSUME IInv, RowsInv, IInv', [Next]_vars, NEW c \in Columns, NEW o \in Order,
                      NEW s \in Statuses, NEW l \in Line, NEW e \in Counted(c, o, s, l)
               PROVE  e \in Counted(c, o, s, l)'
    OBVIOUS
  <2>1. TypeOK /\ RowsKept
    BY RowsStep DEF IInv
  <2>2. PICK r \in Request :
          e \in Epc /\ <<e, r>> \in Datalist /\ order[r] = o /\ c.status[r] = s /\ l \in c.lines[<<e, r>>]
    <3>1. e \in Epc /\ \E r \in Request :
            <<e, r>> \in Datalist /\ order[r] = o /\ c.status[r] = s /\ l \in c.lines[<<e, r>>]
      BY <2>1, CountedIs
    <3> QED
      BY <3>1
  <2>3. <<e, r>> \in Datalist' /\ order'[r] = o
    BY <2>1, <2>2 DEF RowsKept
  <2> QED
    BY <2>2, <2>3 DEF Counted, Tags, OrderOf
<1> QED
  BY <1>1, RowsAlways, PTL DEF Spec, ReportsNeverShrink

\* What a line counts is between what was acknowledged for it and what was
\* read for it.
LEMMA LineBetween ==
  ASSUME IInv, RowsInv, NEW c \in Columns, NEW o \in Order, NEW s \in Statuses, NEW l \in Line
  PROVE  Between(Cardinality(Counted(c, o, s, l)), c, o, s, l)
<1> DEFINE Lower == {e \in Read(c, Acked, o, s, l) : ~Foreign(e)}
           Upper == Read(c, Started, o, s, l)
<1>1. TypeOK /\ AcknowledgedStocked /\ AcknowledgedOnce
  BY IInvAcknowledged DEF IInv
<1>2. Lower \subseteq Counted(c, o, s, l)
  <2> SUFFICES ASSUME NEW e \in Lower PROVE e \in Counted(c, o, s, l)
    OBVIOUS
  <2>1. PICK r \in Acked : order[r] = o /\ c.status[r] = s /\ e \in payload[r] /\ l \in c.lines[<<e, r>>]
    BY DEF Read
  <2>2. r \in Request /\ pc[r] = "ok" /\ e \in Epc
    BY <1>1, <2>1 DEF Acked, TypeOK
  <2>3. e \in Recorded
    BY <1>1, <2>1, <2>2 DEF AcknowledgedStocked
  <2>4. PICK q \in Request : <<e, q>> \in Datalist
    BY <2>3 DEF Recorded, InTable, Archived, Datalist
  <2>5. q \in Acked /\ e \in payload[q]
    BY <2>2, <2>4 DEF Foreign, RowsInv
  <2>6. q = r
    BY <1>1, <2>1, <2>2, <2>5 DEF AcknowledgedOnce, Acked
  <2> QED
    BY <1>1, <2>1, <2>2, <2>4, <2>6, CountedIs
<1>3. Counted(c, o, s, l) \subseteq Upper
  <2> SUFFICES ASSUME NEW e \in Counted(c, o, s, l) PROVE e \in Upper
    OBVIOUS
  <2>1. e \in Epc /\ \E r \in Request :
          <<e, r>> \in Datalist /\ order[r] = o /\ c.status[r] = s /\ l \in c.lines[<<e, r>>]
    BY <1>1, CountedIs
  <2>2. PICK r \in Request : <<e, r>> \in Datalist /\ order[r] = o /\ c.status[r] = s /\ l \in c.lines[<<e, r>>]
    BY <2>1
  <2>3. r \in Started /\ e \in payload[r]
    BY <2>1, <2>2 DEF Started, RowsInv
  <2> QED
    BY <2>1, <2>2, <2>3 DEF Read
<1>4. Upper \subseteq Epc
  BY DEF Read
<1> HIDE DEF Lower, Upper
<1>5. IsFiniteSet(Upper) /\ IsFiniteSet(Counted(c, o, s, l))
  BY <1>3, <1>4, FS_Subset, ReportsAssumption
<1>6. Cardinality(Lower) <= Cardinality(Counted(c, o, s, l)) /\ Cardinality(Counted(c, o, s, l)) <= Cardinality(Upper)
  BY <1>2, <1>3, <1>5, FS_Subset
<1>7. Cardinality(Lower) \in Nat /\ Cardinality(Counted(c, o, s, l)) \in Nat /\ Cardinality(Upper) \in Nat
  BY <1>2, <1>5, FS_Subset, FS_CardinalityType
<1> QED
  BY <1>6, <1>7 DEF Between, Lower, Upper

\* A line's quantity is between what was acknowledged and what was read, and
\* two lines share a tag only for the two causes the property names.
THEOREM ReportedQuantityAlways == Spec => []ReportedQuantity
<1>1. IInv /\ RowsInv => ReportedQuantity
  <2> SUFFICES ASSUME IInv, RowsInv, NEW c \in Columns, NEW o \in Order, NEW l \in Line
               PROVE  /\ Between(InboundQty(c, o, l), c, o, "A", l)
                      /\ Between(OutboundQty(c, o, l), c, o, "B", l)
                      /\ \A s \in Statuses, k \in Line :
                           \A e \in CountedTwice(c, o, s, l, k) : Explained(c, e, l, k)
    BY DEF ReportedQuantity
  <2>1. Between(InboundQty(c, o, l), c, o, "A", l) /\ Between(OutboundQty(c, o, l), c, o, "B", l)
    BY LineBetween DEF InboundQty, OutboundQty, Statuses
  <2>2. ASSUME NEW s \in Statuses, NEW k \in Line, NEW e \in CountedTwice(c, o, s, l, k)
        PROVE  Explained(c, e, l, k)
    <3>1. e \in Counted(c, o, s, l) /\ e \in Counted(c, o, s, k)
      BY <2>2 DEF CountedTwice
    <3>2. e \in Epc /\ \E r \in Request : <<e, r>> \in Datalist /\ l \in c.lines[<<e, r>>]
      BY <3>1, CountedIs DEF IInv
    <3>3. \E q \in Request : <<e, q>> \in Datalist /\ k \in c.lines[<<e, q>>]
      BY <3>1, CountedIs DEF IInv
    <3> QED
      BY <3>2, <3>3, RowsTogether DEF Explained
  <2> QED
    BY <2>1, <2>2
<1> QED
  BY <1>1, RowsAlways, PTL
=============================================================================
