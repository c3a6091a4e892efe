----------------------------- MODULE RfidStream -----------------------------
(***************************************************************************)
(* The event stream of scanned tags, GET rfid/sse: a first frame, then one *)
(* for each change of the collection "epcs".  A frame is the answer of two *)
(* queries that run in parallel, the list of tags and the orders they      *)
(* belong to; each reads a member of the replica set of its own ("nearest" *)
(* may be one that lags).                                                  *)
(*                                                                         *)
(* The change stream is opened after the first frame and tells only what   *)
(* happens from then on.  The queries a change starts are not waited for,  *)
(* so those of several changes run at once and their frames leave in the   *)
(* order they end.  Nothing closes the change stream.                      *)
(*                                                                         *)
(* Streams share nothing, so one is modelled.  A number stands for the     *)
(* state of the collection: how many changes it has had.                   *)
(***************************************************************************)
EXTENDS Naturals

CONSTANT ChangeLimit  \* changes of the collection in a behaviour

ASSUME StreamAssumption == ChangeLimit \in Nat

VARIABLES
  version,  \* the changes of the collection
  replica,  \* those the slowest member of the replica set has
  step,     \* of streamRFIDData
  client,   \* the browser reads the response
  told,     \* the last change the change stream has told
  queries,  \* pairs of queries that run
  started,  \* pairs started so far
  frame     \* the last frame sent

\* History: read by the properties, never by a guard.
VARIABLE causes   \* why a frame may be out of date

vars == <<version, replica, step, client, told, queries, started, frame, causes>>

\* What a query has not read yet.
None == 0 - 1

Pairs  == [n: Nat, list: Nat \cup {None}, orders: Nat \cup {None}]
Frames == [n: Nat, list: Nat, orders: Nat]

\* What the browser shows before the first frame.
Blank == [n |-> 0, list |-> 0, orders |-> 0]

TypeOK ==
  /\ version \in Nat /\ replica \in 0..version
  /\ step \in {"idle", "first", "watch", "live", "failed"}
  /\ client \in BOOLEAN
  /\ told \in 0..version
  /\ queries \subseteq Pairs
  /\ started \in Nat
  /\ frame \in Frames
  /\ causes \subseteq {"gap", "lag", "overtaken", "failure"}

Init ==
  /\ version = 0 /\ replica = 0
  /\ step = "idle" /\ client = TRUE
  /\ told = 0
  /\ queries = {} /\ started = 0
  /\ frame = Blank
  /\ causes = {}

Pair(n) == [n |-> n, list |-> None, orders |-> None]

\* fetchLatestData
Fetch ==
  /\ queries' = queries \cup {Pair(started + 1)}
  /\ started' = started + 1

Open ==
  /\ step = "idle" /\ step' = "first"
  /\ Fetch
  /\ UNCHANGED <<version, replica, client, told, frame, causes>>

\* A query on the primary, or on a member that lags.
Seen(v) ==
  causes' = IF v < version THEN causes \cup {"lag"} ELSE causes

\* getIncomingEpcs
ReadList(q) ==
  /\ q.list = None
  /\ \E v \in {version, replica} :
       Seen(v) /\ queries' = (queries \ {q}) \cup {[q EXCEPT !.list = v]}
  /\ UNCHANGED <<version, replica, step, client, told, started, frame>>

\* getOrderDetails
ReadOrders(q) ==
  /\ q.orders = None
  /\ \E v \in {version, replica} :
       Seen(v) /\ queries' = (queries \ {q}) \cup {[q EXCEPT !.orders = v]}
  /\ UNCHANGED <<version, replica, step, client, told, started, frame>>

\* postMessage, when both have ended.
Post(q) ==
  /\ q.list # None /\ q.orders # None
  /\ queries' = queries \ {q}
  /\ IF client THEN frame' = [n |-> q.n, list |-> q.list, orders |-> q.orders] ELSE UNCHANGED frame
  /\ causes' = IF q.n < frame.n THEN causes \cup {"overtaken"} ELSE causes
  /\ step' = IF step = "first" THEN "watch" ELSE step
  /\ UNCHANGED <<version, replica, client, told, started>>

\* Nothing catches the error of a query: its frame is never sent, and if it
\* was the first, nothing else is.
QueryFails(q) ==
  /\ queries' = queries \ {q}
  /\ causes' = causes \cup {"failure"}
  /\ step' = IF step = "first" THEN "failed" ELSE step
  /\ UNCHANGED <<version, replica, client, told, started, frame>>

\* captureDataChange: the server opens the change stream.
Watch ==
  /\ step = "watch" /\ step' = "live"
  /\ told' = version
  /\ causes' = IF frame.list < version \/ frame.orders < version THEN causes \cup {"gap"} ELSE causes
  /\ UNCHANGED <<version, replica, client, queries, started, frame>>

\* Mutant: a change that comes while queries run starts none.
ChangeIfQuiet ==
  /\ step = "live" /\ told < version
  /\ told' = told + 1
  /\ IF queries = {} THEN Fetch ELSE UNCHANGED <<queries, started>>
  /\ UNCHANGED <<version, replica, step, client, frame, causes>>

\* The change stream tells the next change.
Change ==
  /\ step = "live" /\ told < version
  /\ told' = told + 1
  /\ Fetch
  /\ UNCHANGED <<version, replica, step, client, frame, causes>>

\* The browser goes; what the closing does to the queue is in PostDataQueue.
Close ==
  /\ client /\ client' = FALSE
  /\ UNCHANGED <<version, replica, step, told, queries, started, frame, causes>>

-----------------------------------------------------------------------------
(* A scan, an exchange, a deletion, the stocking of an order.              *)

Write ==
  /\ version < ChangeLimit /\ version' = version + 1
  /\ UNCHANGED <<replica, step, client, told, queries, started, frame, causes>>

Replicate ==
  /\ replica < version /\ replica' = replica + 1
  /\ UNCHANGED <<version, step, client, told, queries, started, frame, causes>>

Work(n) == \E q \in queries : q.n = n /\ (ReadList(q) \/ ReadOrders(q) \/ Post(q))

Next ==
  \/ Open \/ Watch \/ Change \/ Close \/ Write \/ Replicate
  \/ \E q \in queries : ReadList(q) \/ ReadOrders(q) \/ Post(q) \/ QueryFails(q)

Spec == Init /\ [][Next]_vars

\* The server and MongoDB answer, and the change stream goes on telling.
FairSpec ==
  /\ Spec
  /\ WF_vars(Watch) /\ WF_vars(Change)
  /\ \A n \in 1..(ChangeLimit + 1) : WF_vars(Work(n))

-----------------------------------------------------------------------------
(* What holds.                                                             *)

\* When every change has been told and every query has ended, the browser
\* shows the collection as it is, tags and orders alike, unless the
\* collection changed between the first frame and the opening of the change
\* stream, a query read a member that lagged, a query failed, or a frame
\* was overtaken by that of a later change.
StaleNeedsCause ==
  step = "live" /\ client /\ told = version /\ queries = {} /\ causes = {} =>
    frame.list = version /\ frame.orders = version

\* A change of the collection while the stream is open is shown in the end,
\* with what came after it, unless the browser goes, a query fails, or one
\* reads a member that lags.
ChangeShown ==
  \A v \in 1..ChangeLimit :
    step = "live" /\ told < v /\ version >= v
      ~> \/ frame.list >= v /\ frame.orders >= v
         \/ ~client \/ causes \cap {"lag", "failure"} # {}
=============================================================================
