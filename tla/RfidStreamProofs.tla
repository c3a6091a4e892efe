-------------------------- MODULE RfidStreamProofs --------------------------
(***************************************************************************)
(* Theorems about RfidStream, for any number of changes.  Only the sources *)
(* of staleness that StaleNeedsCause names exist, since each pair of       *)
(* queries reads at least the change that started it (Fresh) and every     *)
(* pair is running or not newer than the last frame (Answered).            *)
(***************************************************************************)
EXTENDS RfidStream, TLAPS

\* The first frame comes before the change stream, and alone.
Phases ==
  /\ step = "idle" => queries = {} /\ started = 0
  /\ step = "first" => started = 1 /\ \A p, q \in queries : p = q
  /\ step = "watch" => queries = {} /\ started = 1
  /\ step = "failed" => "failure" \in causes

\* Nothing is read before it is written, no pair is newer than the last.
Past ==
  /\ frame.list <= version /\ frame.orders <= version /\ frame.n <= started
  /\ \A q \in queries : q.list <= version /\ q.orders <= version /\ q.n <= started

\* The change that started pair n is n + told - started, the first frame
\* taking the place of the changes before the change stream.
Covers(v, n) == v >= n + told - started

Fresh ==
  step = "live" /\ causes = {} =>
    /\ \A q \in queries : /\ q.list = None \/ Covers(q.list, q.n)
                          /\ q.orders = None \/ Covers(q.orders, q.n)
    /\ client => Covers(frame.list, frame.n) /\ Covers(frame.orders, frame.n)

Answered ==
  client /\ causes = {} =>
    \A n \in 1..started : n <= frame.n \/ \E q \in queries : q.n = n

IInv == TypeOK /\ Phases /\ Past /\ Fresh /\ Answered

-----------------------------------------------------------------------------
LEMMA InitIInv == Init => IInv
BY StreamAssumption DEF Init, IInv, TypeOK, Phases, Past, Fresh, Answered, Blank, Frames, Pairs

\* A pair's members are what TypeOK says.
LEMMA PairType == ASSUME TypeOK, NEW q \in queries
                  PROVE  q.n \in Nat /\ q.list \in Nat \cup {None} /\ q.orders \in Nat \cup {None}
BY DEF TypeOK, Pairs

LEMMA StepType == TypeOK /\ [Next]_vars => TypeOK'
<1> SUFFICES ASSUME TypeOK, [Next]_vars PROVE TypeOK'
  OBVIOUS
<1>1. CASE Open
  BY <1>1 DEF Open, Fetch, Pair, TypeOK, Pairs, None
<1>2. CASE Watch
  BY <1>2 DEF Watch, TypeOK
<1>3. CASE Change
  BY <1>3 DEF Change, Fetch, Pair, TypeOK, Pairs, None
<1>4. CASE Close
  BY <1>4 DEF Close, TypeOK
<1>5. CASE Write
  BY <1>5, StreamAssumption DEF Write, TypeOK
<1>6. CASE Replicate
  BY <1>6 DEF Replicate, TypeOK
<1>7. ASSUME NEW q \in queries, ReadList(q) PROVE TypeOK'
  BY <1>7 DEF ReadList, Seen, TypeOK, Pairs
<1>8. ASSUME NEW q \in queries, ReadOrders(q) PROVE TypeOK'
  BY <1>8 DEF ReadOrders, Seen, TypeOK, Pairs
<1>9. ASSUME NEW q \in queries, Post(q) PROVE TypeOK'
  BY <1>9, PairType DEF Post, TypeOK, Frames
<1>10. ASSUME NEW q \in queries, QueryFails(q) PROVE TypeOK'
  BY <1>10 DEF QueryFails, TypeOK
<1>11. CASE UNCHANGED vars
  BY <1>11 DEF vars, TypeOK
<1> QED
  BY <1>1, <1>2, <1>3, <1>4, <1>5, <1>6, <1>7, <1>8, <1>9, <1>10, <1>11 DEF Next

LEMMA StepPhases == TypeOK /\ Phases /\ [Next]_vars => Phases'
<1> SUFFICES ASSUME TypeOK /\ Phases, [Next]_vars PROVE Phases'
  OBVIOUS
<1> USE DEF Phases
<1>1. CASE Open
  BY <1>1 DEF Open, Fetch, Pair, TypeOK, Pairs, Frames, None
<1>2. CASE Watch
  BY <1>2 DEF Watch, TypeOK, Pairs, Frames, None
<1>3. CASE Change
  BY <1>3 DEF Change, Fetch, Pair, TypeOK, Pairs, Frames, None
<1>4. CASE Close
  BY <1>4 DEF Close, TypeOK, Pairs, Frames, None
<1>5. CASE Write
  BY <1>5 DEF Write, TypeOK, Pairs, Frames, None
<1>6. CASE Replicate
  BY <1>6 DEF Replicate, TypeOK, Pairs, Frames, None
<1>7. ASSUME NEW q \in queries, ReadList(q) PROVE Phases'
  BY <1>7, PairType DEF ReadList, Seen, TypeOK, Pairs, Frames, None
<1>8. ASSUME NEW q \in queries, ReadOrders(q) PROVE Phases'
  BY <1>8, PairType DEF ReadOrders, Seen, TypeOK, Pairs, Frames, None
<1>9. ASSUME NEW q \in queries, Post(q) PROVE Phases'
  BY <1>9, PairType DEF Post, TypeOK, Pairs, Frames, None
<1>10. ASSUME NEW q \in queries, QueryFails(q) PROVE Phases'
  BY <1>10, PairType DEF QueryFails, TypeOK, Pairs, Frames, None
<1>11. CASE UNCHANGED vars
  BY <1>11 DEF vars
<1> QED
  BY <1>1, <1>2, <1>3, <1>4, <1>5, <1>6, <1>7, <1>8, <1>9, <1>10, <1>11 DEF Next

LEMMA StepPast == TypeOK /\ Past /\ [Next]_vars => Past'
<1> SUFFICES ASSUME TypeOK /\ Past, [Next]_vars PROVE Past'
  OBVIOUS
<1> USE DEF Past
<1>1. CASE Open
  BY <1>1 DEF Open, Fetch, Pair, TypeOK, Pairs, Frames, None
<1>2. CASE Watch
  BY <1>2 DEF Watch, TypeOK, Pairs, Frames, None
<1>3. CASE Change
  BY <1>3 DEF Change, Fetch, Pair, TypeOK, Pairs, Frames, None
<1>4. CASE Close
  BY <1>4 DEF Close, TypeOK, Pairs, Frames, None
<1>5. CASE Write
  BY <1>5 DEF Write, TypeOK, Pairs, Frames, None
<1>6. CASE Replicate
  BY <1>6 DEF Replicate, TypeOK, Pairs, Frames, None
<1>7. ASSUME NEW q \in queries, ReadList(q) PROVE Past'
  BY <1>7, PairType DEF ReadList, Seen, TypeOK, Pairs, Frames, None
<1>8. ASSUME NEW q \in queries, ReadOrders(q) PROVE Past'
  BY <1>8, PairType DEF ReadOrders, Seen, TypeOK, Pairs, Frames, None
<1>9. ASSUME NEW q \in queries, Post(q) PROVE Past'
  BY <1>9, PairType DEF Post, TypeOK, Pairs, Frames, None
<1>10. ASSUME NEW q \in queries, QueryFails(q) PROVE Past'
  BY <1>10, PairType DEF QueryFails, TypeOK, Pairs, Frames, None
<1>11. CASE UNCHANGED vars
  BY <1>11 DEF vars
<1> QED
  BY <1>1, <1>2, <1>3, <1>4, <1>5, <1>6, <1>7, <1>8, <1>9, <1>10, <1>11 DEF Next

LEMMA StepFresh == TypeOK /\ Phases /\ Past /\ Fresh /\ Answered /\ [Next]_vars => Fresh'
<1> SUFFICES ASSUME TypeOK /\ Phases /\ Past /\ Fresh /\ Answered, [Next]_vars PROVE Fresh'
  OBVIOUS
<1> USE DEF Fresh, Covers
<1>1. CASE Open
  BY <1>1 DEF Open, Fetch, Pair, TypeOK, Pairs, Frames, None
<1>2. CASE Watch
  BY <1>2 DEF Watch, Phases, Past, Answered, TypeOK, Pairs, Frames, None
<1>3. CASE Change
  BY <1>3 DEF Change, Fetch, Pair, TypeOK, Pairs, Frames, None
<1>4. CASE Close
  BY <1>4 DEF Close, TypeOK, Pairs, Frames, None
<1>5. CASE Write
  BY <1>5 DEF Write, TypeOK, Pairs, Frames, None
<1>6. CASE Replicate
  BY <1>6 DEF Replicate, TypeOK, Pairs, Frames, None
<1>7. ASSUME NEW q \in queries, ReadList(q) PROVE Fresh'
  BY <1>7, PairType DEF ReadList, Seen, Past, TypeOK, Pairs, Frames, None
<1>8. ASSUME NEW q \in queries, ReadOrders(q) PROVE Fresh'
  BY <1>8, PairType DEF ReadOrders, Seen, Past, TypeOK, Pairs, Frames, None
<1>9. ASSUME NEW q \in queries, Post(q) PROVE Fresh'
  BY <1>9, PairType DEF Post, TypeOK, Pairs, Frames, None
<1>10. ASSUME NEW q \in queries, QueryFails(q) PROVE Fresh'
  BY <1>10, PairType DEF QueryFails, TypeOK, Pairs, Frames, None
<1>11. CASE UNCHANGED vars
  BY <1>11 DEF vars
<1> QED
  BY <1>1, <1>2, <1>3, <1>4, <1>5, <1>6, <1>7, <1>8, <1>9, <1>10, <1>11 DEF Next

LEMMA StepAnswered == TypeOK /\ Phases /\ Past /\ Answered /\ [Next]_vars => Answered'
<1> SUFFICES ASSUME TypeOK /\ Phases /\ Past /\ Answered, [Next]_vars PROVE Answered'
  OBVIOUS
<1> USE DEF Answered
<1>1. CASE Open
  <2>1. started' = started + 1 /\ queries' = queries \cup {Pair(started + 1)} /\ UNCHANGED <<client, frame, causes>>
    BY <1>1 DEF Open, Fetch
  <2>2. Pair(started + 1) \in queries' /\ Pair(started + 1).n = started + 1
    BY <2>1 DEF Pair
  <2>3. \A n \in 1..started' : n \in 1..started \/ n = started + 1
    BY <2>1 DEF TypeOK
  <2> QED
    BY <2>1, <2>2, <2>3
<1>2. CASE Watch
  BY <1>2 DEF Watch, TypeOK, Pairs, Frames, None
<1>3. CASE Change
  <2>1. started' = started + 1 /\ queries' = queries \cup {Pair(started + 1)} /\ UNCHANGED <<client, frame, causes>>
    BY <1>3 DEF Change, Fetch
  <2>2. Pair(started + 1) \in queries' /\ Pair(started + 1).n = started + 1
    BY <2>1 DEF Pair
  <2>3. \A n \in 1..started' : n \in 1..started \/ n = started + 1
    BY <2>1 DEF TypeOK
  <2> QED
    BY <2>1, <2>2, <2>3
<1>4. CASE Close
  BY <1>4 DEF Close, TypeOK, Pairs, Frames, None
<1>5. CASE Write
  BY <1>5 DEF Write, TypeOK, Pairs, Frames, None
<1>6. CASE Replicate
  BY <1>6 DEF Replicate, TypeOK, Pairs, Frames, None
<1>7. ASSUME NEW q \in queries, ReadList(q) PROVE Answered'
  <2>1. PICK v \in {version, replica} : Seen(v) /\ queries' = (queries \ {q}) \cup {[q EXCEPT !.list = v]}
    BY <1>7 DEF ReadList
  <2>2. [q EXCEPT !.list = v].n = q.n
    BY PairType DEF TypeOK, Pairs
  <2>3. \A p \in queries : \E p2 \in queries' : p2.n = p.n
    BY <2>1, <2>2
  <2> QED
    BY <1>7, <2>1, <2>3 DEF ReadList, Seen, TypeOK
<1>8. ASSUME NEW q \in queries, ReadOrders(q) PROVE Answered'
  <2>1. PICK v \in {version, replica} : Seen(v) /\ queries' = (queries \ {q}) \cup {[q EXCEPT !.orders = v]}
    BY <1>8 DEF ReadOrders
  <2>2. [q EXCEPT !.orders = v].n = q.n
    BY PairType DEF TypeOK, Pairs
  <2>3. \A p \in queries : \E p2 \in queries' : p2.n = p.n
    BY <2>1, <2>2
  <2> QED
    BY <1>8, <2>1, <2>3 DEF ReadOrders, Seen, TypeOK
<1>9. ASSUME NEW q \in queries, Post(q) PROVE Answered'
  BY <1>9, PairType DEF Post, TypeOK, Pairs, Frames, None
<1>10. ASSUME NEW q \in queries, QueryFails(q) PROVE Answered'
  BY <1>10, PairType DEF QueryFails, TypeOK, Pairs, Frames, None
<1>11. CASE UNCHANGED vars
  BY <1>11 DEF vars
<1> QED
  BY <1>1, <1>2, <1>3, <1>4, <1>5, <1>6, <1>7, <1>8, <1>9, <1>10, <1>11 DEF Next

-----------------------------------------------------------------------------
LEMMA StepIInv == IInv /\ [Next]_vars => IInv'
BY StepType, StepPhases, StepPast, StepFresh, StepAnswered DEF IInv

\* The inductive invariant holds in every reachable state.
THEOREM Inductive == Spec => []IInv
BY InitIInv, StepIInv, PTL DEF Spec

\* Every reachable state of the stream is well typed.
THEOREM TypeCorrect == Spec => []TypeOK
<1>1. IInv => TypeOK
  BY DEF IInv
<1> QED
  BY <1>1, Inductive, PTL

LEMMA InvStale == IInv => StaleNeedsCause
<1> SUFFICES ASSUME IInv, step = "live", client, told = version, queries = {}, causes = {}
             PROVE  frame.list = version /\ frame.orders = version
  BY DEF StaleNeedsCause
<1>1. started <= frame.n
  BY DEF IInv, TypeOK, Answered, Past, Frames
<1>2. Covers(frame.list, frame.n) /\ Covers(frame.orders, frame.n)
  BY DEF IInv, Fresh
<1> QED
  BY <1>1, <1>2 DEF IInv, TypeOK, Past, Frames, Covers

\* A quiet stream shows the collection as it is unless it was changed before
\* the change stream was opened, or a query lagged, failed or was overtaken,
\* however many changes there are.
THEOREM StaleNeedsCauseAlways == Spec => []StaleNeedsCause
BY Inductive, InvStale, PTL
=============================================================================
