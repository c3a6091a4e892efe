----------------------------- MODULE DeckerSync -----------------------------
(***************************************************************************)
(* How a tag without order gets one.  A scanned tag without a row in       *)
(* dv_rfidmatchmst_cust is written to "epcs" with the order 'Unknown', and *)
(* a job for its factory is queued: ThirdPartyApiConsumer asks the         *)
(* customer's API for the command numbers of the tags, for all tags of     *)
(* these commands, asks the ERP for their orders, and upserts the rows and *)
(* the documents (upsertBulk, whose steps are in EpcOrder, is one step     *)
(* here).  A user may queue the same job for all unknown documents.        *)
(*                                                                         *)
(* The factory's own tags, which start with E28, are written as unknown    *)
(* too, but a scan never asks for them.                                    *)
(*                                                                         *)
(* The job id is the factory: while its job waits, runs or has failed,     *)
(* another request for the factory is a duplicate and is dropped.  Every   *)
(* error of a run is caught and logged, so that the run counts as a        *)
(* success.                                                                *)
(***************************************************************************)
EXTENDS BullQueue, FiniteSets

CONSTANTS
  Epc,        \* the tags
  Command,    \* the customer's command numbers
  CommandOf,  \* the command of each tag
  PrefixOf,   \* the first 22 characters of each tag
  Internal,   \* the tags that start with E28
  Scanner,    \* runs of RFIDConsumer.process at once
  FaultLimit  \* failing calls, lost locks and restarts in a behaviour

Factory == Job

ASSUME SyncAssumption ==
  /\ CommandOf \in [Epc -> Command]
  /\ DOMAIN PrefixOf = Epc
  /\ Internal \subseteq Epc
  /\ \A d \in Internal, e \in Epc \ Internal : PrefixOf[d] # PrefixOf[e]
  /\ FaultLimit \in Nat

VARIABLES
  row,      \* the order SQL Server has for a tag: "none", "undefined", "known"
  doc,      \* the order in its document: these, or "unknown"
  api, erp, \* tags the customer, and commands the ERP, know by now
  data,     \* the tags of a factory's job
  stage,    \* where a worker's run is
  found,    \* tags of its job, then commands and tags a worker has fetched
  ordered,  \* tags of found with an order
  step,     \* where a scan is: "idle", "write"
  seen,     \* what it has read for its tags
  sent,     \* its request to queue a job, None when it has arrived
  button,   \* documents a user's request has found unknown, None without one
  faults

stores  == <<row, doc>>
outside == <<api, erp>>
sync    == <<stage, found, ordered>>
scan    == <<step, seen, sent>>
vars    == <<queue, stores, outside, data, sync, scan, button, faults>>

Orders == {"none", "undefined", "known"}

TypeOK ==
  /\ QueueTypeOK
  /\ row \in [Epc -> Orders]
  /\ doc \in [Epc -> Orders \cup {"unknown"}]
  /\ api \subseteq Epc /\ erp \subseteq Command
  /\ data \in [Factory -> SUBSET Epc]
  /\ stage \in [Worker -> {"idle", "ask", "fetch", "erp", "upsert", "end"}]
  /\ found \in [Worker -> (SUBSET Command) \cup (SUBSET Epc)]
  /\ ordered \in [Worker -> SUBSET Epc]
  /\ step \in [Scanner -> {"idle", "write"}]
  /\ seen \in [Scanner -> [Epc -> Orders \cup {"unknown"}]]
  /\ \A s \in Scanner : sent[s] = None \/ sent[s] \in Factory \X SUBSET Epc
  /\ \A f \in Factory : button[f] = None \/ button[f] \subseteq Epc
  /\ faults \in 0..FaultLimit

NoTags == [e \in Epc |-> "none"]

Init ==
  /\ QueueInit
  /\ row = NoTags /\ doc = NoTags
  /\ api \in SUBSET (Epc \ Internal) /\ erp \in SUBSET Command
  /\ data = [f \in Factory |-> {}]
  /\ stage = [w \in Worker |-> "idle"]
  /\ found = [w \in Worker |-> {}]
  /\ ordered = [w \in Worker |-> {}]
  /\ step = [s \in Scanner |-> "idle"]
  /\ seen = [s \in Scanner |-> NoTags]
  /\ sent = [s \in Scanner |-> None]
  /\ button = [f \in Factory |-> None]
  /\ faults = 0

Fail == faults < FaultLimit /\ faults' = faults + 1

\* uniqBy prefix: one tag stands for all that share its prefix.
Representatives(S) ==
  {T \in SUBSET S : \A e \in S : Cardinality({t \in T : PrefixOf[t] = PrefixOf[e]}) = 1}

\* thirdPartyApiSyncQueue.add with jobId f.
Request(f, S) ==
  /\ Add(f)
  /\ data' = IF InUse(f) THEN data ELSE [data EXCEPT ![f] = S]

-----------------------------------------------------------------------------
(* RFIDConsumer.process                                                    *)

Scanned(s) == {e \in Epc : seen[s][e] # "none"}

\* The LEFT JOIN of the scanned tags with the rows.
Joined(S) == [e \in Epc |-> IF e \notin S THEN "none"
                            ELSE IF row[e] = "none" THEN "unknown" ELSE row[e]]

\* validUnknownEpcs: what a scan of S asks for.
UnknownTags(S) == {e \in S \ Internal : row[e] = "none"}

Forget(s) ==
  /\ step' = [step EXCEPT ![s] = "idle"]
  /\ seen' = [seen EXCEPT ![s] = NoTags]

\* The tags' orders are read, and the request for the unknown ones is sent
\* and not awaited: it may arrive after the documents are written.  Of a
\* reader that is not registered only a scan with nothing to ask for gets on:
\* deviceInformation.factory_code throws, and the scan is not written.
\* Bound: the request of the scan before has arrived.
ScanRead(s, S) ==
  /\ step[s] = "idle"
  /\ sent[s] = None
  /\ step' = [step EXCEPT ![s] = "write"]
  /\ seen' = [seen EXCEPT ![s] = Joined(S)]
  /\ IF UnknownTags(S) = {} THEN UNCHANGED sent
     ELSE \E f \in Factory, T \in Representatives(UnknownTags(S)) :
            sent' = [sent EXCEPT ![s] = <<f, T>>]
  /\ UNCHANGED <<queue, stores, outside, data, sync, button, faults>>

ScanArrive(s) ==
  /\ sent[s] # None
  /\ Request(sent[s][1], sent[s][2])
  /\ sent' = [sent EXCEPT ![s] = None]
  /\ UNCHANGED <<stores, outside, sync, step, seen, button, faults>>

ScanWrite(s) ==
  /\ step[s] = "write"
  /\ doc' = [e \in Epc |-> IF e \in Scanned(s) THEN seen[s][e] ELSE doc[e]]
  /\ Forget(s)
  /\ UNCHANGED <<queue, row, outside, data, sync, sent, button, faults>>

\* bulkWrite fails: logged.
ScanError(s) ==
  /\ step[s] = "write"
  /\ Fail
  /\ Forget(s)
  /\ UNCHANGED <<queue, stores, outside, data, sync, sent, button>>

\* The instance restarts, or Redis refuses: the request never arrives.
ScanLost(s) ==
  /\ sent[s] # None
  /\ Fail
  /\ Forget(s)
  /\ sent' = [sent EXCEPT ![s] = None]
  /\ UNCHANGED <<queue, stores, outside, data, sync, button>>

-----------------------------------------------------------------------------
(* ThirdPartyApiController.syncDeckerData                                  *)

\* Every document of the order 'Unknown', those of E28 tags included.
ButtonFind(f) ==
  /\ button[f] = None
  /\ button' = [button EXCEPT ![f] = {e \in Epc : doc[e] = "unknown"}]
  /\ UNCHANGED <<queue, stores, outside, data, sync, scan, faults>>

ButtonAdd(f) ==
  /\ button[f] # None
  /\ \E T \in Representatives(button[f]) : Request(f, T)
  /\ button' = [button EXCEPT ![f] = None]
  /\ UNCHANGED <<stores, outside, sync, scan, faults>>

-----------------------------------------------------------------------------
(* ThirdPartyApiConsumer.process                                           *)

Goto(w, s) == stage' = [stage EXCEPT ![w] = s]
Local      == UNCHANGED <<queue, stores, outside, data, scan, button>>

\* The run goes to its end, or is gone: its local variables are too.
Leave(w, s) ==
  /\ Goto(w, s)
  /\ found' = [found EXCEPT ![w] = {}]
  /\ ordered' = [ordered EXCEPT ![w] = {}]

\* The job comes with its tags.
Begin(w) ==
  /\ stage[w] = "idle"
  /\ Take(w)
  /\ found' = [found EXCEPT ![w] = data[Head(wait)]]
  /\ Goto(w, "ask")
  /\ UNCHANGED <<stores, outside, data, ordered, scan, button, faults>>

\* One call per tag; a call that fails is logged and its tag left out.
FetchCommands(w) ==
  /\ stage[w] = "ask"
  /\ \E S \in SUBSET (found[w] \cap api) :
       /\ IF S = found[w] \cap api THEN UNCHANGED faults ELSE Fail
       /\ found' = [found EXCEPT ![w] = {CommandOf[e] : e \in S}]
       /\ Goto(w, IF S = {} THEN "end" ELSE "fetch")
  /\ Local /\ UNCHANGED ordered

\* All tags the customer has for these commands.
FetchEpcs(w) ==
  /\ stage[w] = "fetch"
  /\ found' = [found EXCEPT ![w] = {e \in api : CommandOf[e] \in found[w]}]
  /\ Goto(w, "erp")
  /\ Local /\ UNCHANGED <<ordered, faults>>

\* Mutant: the command number is not cut to the nine characters of an order.
AskErpUncut(w) ==
  /\ stage[w] = "erp"
  /\ ordered' = [ordered EXCEPT ![w] = {}]
  /\ Goto(w, "upsert")
  /\ Local /\ UNCHANGED <<found, faults>>

AskErp(w) ==
  /\ stage[w] = "erp"
  /\ ordered' = [ordered EXCEPT ![w] = {e \in found[w] : CommandOf[e] \in erp}]
  /\ Goto(w, "upsert")
  /\ Local /\ UNCHANGED <<found, faults>>

\* upsertBulk: MERGE inserts what has no row, bulkWrite sets what has an order.
Upsert(w) ==
  /\ stage[w] = "upsert"
  /\ row' = [e \in Epc |-> IF e \in found[w] /\ row[e] = "none"
                            THEN IF e \in ordered[w] THEN "known" ELSE "undefined"
                            ELSE row[e]]
  /\ doc' = [e \in Epc |-> IF e \in ordered[w] /\ doc[e] # "none" THEN "known" ELSE doc[e]]
  /\ Leave(w, "end")
  /\ UNCHANGED <<queue, outside, data, scan, button, faults>>

\* Mutant: the error reaches BullMQ, the job fails and keeps its id.
SyncErrorThrown(w) ==
  /\ stage[w] \in {"ask", "fetch", "erp", "upsert"}
  /\ Fail
  /\ failed' = failed \cup {running[w]}
  /\ active' = active \ {running[w]}
  /\ lock' = [lock EXCEPT ![running[w]] = None]
  /\ running' = [running EXCEPT ![w] = None]
  /\ stage' = [stage EXCEPT ![w] = "idle"]
  /\ UNCHANGED <<wait, stalls, stores, outside, data, found, ordered, scan, button>>

\* No token, or the API, the ERP or upsertBulk fails: logged, not thrown.
SyncError(w) ==
  /\ stage[w] \in {"ask", "fetch", "erp", "upsert"}
  /\ Fail
  /\ Leave(w, "end")
  /\ Local

\* Mutant: completed jobs are kept, as BullMQ does by default.
EndKept(w) ==
  /\ stage[w] = "end"
  /\ running' = [running EXCEPT ![w] = None]
  /\ Leave(w, "idle")
  /\ UNCHANGED <<wait, active, lock, failed, stalls, stores, outside, data, scan, button, faults>>

\* removeOnComplete: the job is gone with its tags, and the id free again,
\* unless the lock was lost.
End(w) ==
  /\ stage[w] = "end"
  /\ Complete(w)
  /\ data' = [f \in Factory |-> IF lock[f] = w THEN {} ELSE data[f]]
  /\ Leave(w, "idle")
  /\ UNCHANGED <<stores, outside, scan, button, faults>>

Crash(w) ==
  /\ Fail
  /\ Restart(w)
  /\ Leave(w, "idle")
  /\ UNCHANGED <<stores, outside, data, scan, button>>

LockLost(w) == Fail /\ LoseLock(w) /\ UNCHANGED <<stores, outside, data, sync, scan, button>>

Check(f) == Stall(f) /\ UNCHANGED <<stores, outside, data, sync, scan, button, faults>>

\* The customer and the ERP learn of a tag, and of an order.  The customer
\* has none of the factory's own tags.
Learn ==
  /\ \/ \E e \in Epc \ (Internal \cup api) : api' = api \cup {e} /\ UNCHANGED erp
     \/ \E c \in Command \ erp : erp' = erp \cup {c} /\ UNCHANGED api
  /\ UNCHANGED <<queue, stores, data, sync, scan, button, faults>>

-----------------------------------------------------------------------------
Sync(w) == Begin(w) \/ FetchCommands(w) \/ FetchEpcs(w) \/ AskErp(w) \/ Upsert(w) \/ End(w)

Next ==
  \/ \E s \in Scanner :
       \/ \E S \in (SUBSET Epc) \ {{}} : ScanRead(s, S)
       \/ ScanWrite(s) \/ ScanArrive(s) \/ ScanError(s) \/ ScanLost(s)
  \/ \E f \in Factory : ButtonFind(f) \/ ButtonAdd(f) \/ Check(f)
  \/ \E w \in Worker : Sync(w) \/ SyncError(w) \/ Crash(w) \/ LockLost(w)
  \/ Learn

Spec == Init /\ [][Next]_vars

\* Workers poll, calls return, BullMQ checks for stalled jobs.
FairSpec ==
  /\ Spec
  /\ \A w \in Worker : WF_vars(Sync(w))
  /\ \A s \in Scanner : WF_vars(ScanWrite(s)) /\ WF_vars(ScanArrive(s))
  /\ \A f \in Factory : WF_vars(Check(f))

-----------------------------------------------------------------------------
(* What holds.                                                             *)

\* The id of a factory is blocked only by stalls: no failure of the API, the
\* ERP, SQL Server or MongoDB leaves a job that drops all later requests.
OnlyStallsBlock == \A f \in failed : stalls[f] > MaxStalled

\* Every job ends and frees its factory's id, unless it stalled too often.
FactoryFree == \A f \in Factory : InUse(f) ~> ~InUse(f) \/ f \in failed

\* With a customer and an ERP that know every tag from the start, a tag that
\* scans write again and again gets its order, in spite of dropped requests,
\* shared prefixes and a scan that writes what it read before a sync: unless
\* the id of its factory is blocked, or it is one of the E28 tags, which no
\* scan asks for.
Informed    == api = Epc \ Internal /\ erp = Command
Rescanned(e) == \E s \in Scanner : e \in Scanned(s) /\ ScanWrite(s)
UnknownResolved ==
  [](Informed) =>
    \A e \in Epc \ Internal :
      []<><<Rescanned(e)>>_vars => []<>(doc[e] = "known" \/ failed # {})

=============================================================================
