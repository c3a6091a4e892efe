--------------------------- MODULE PostDataQueue ---------------------------
(***************************************************************************)
(* From a reader's POST to the tags' documents: the request is answered    *)
(* when its scan is in the queue, a worker reads the tags' orders in SQL   *)
(* Server and upserts their documents.  RFIDConsumer.process catches every *)
(* error and logs it, so that BullMQ sees each run succeed.                *)
(*                                                                         *)
(* A user who closes the stream of scanned tags also cleans the queue,     *)
(* which all tenants share.                                                *)
(***************************************************************************)
EXTENDS BullQueue, FiniteSets

VARIABLES
  stage,    \* where a worker's process is: "read", "write", "end"
  old,      \* scans posted five minutes ago
  cleaning  \* calls of cleanupQueue Redis has not executed yet

\* History: read by the properties, never by a guard.
VARIABLES
  posted,   \* scans answered 201
  written,  \* scans whose tags have been written
  logged,   \* scans a run of which ended in the log, with an error or no tag to write
  removed   \* scans a cleaning has removed

history == <<posted, written, logged, removed>>
vars    == <<queue, stage, old, cleaning, history>>

TypeOK ==
  /\ QueueTypeOK
  /\ stage \in [Worker -> {"idle", "read", "write", "end"}]
  /\ old \subseteq Job
  /\ cleaning \subseteq {"drain", "active", "failed"}
  /\ posted \subseteq Job /\ written \subseteq Job /\ logged \subseteq Job /\ removed \subseteq Job

Init ==
  /\ QueueInit
  /\ stage = [w \in Worker |-> "idle"]
  /\ old = {} /\ cleaning = {}
  /\ posted = {} /\ written = {} /\ logged = {} /\ removed = {}

\* addPostDataQueueJob: newest first.
Post(j) ==
  /\ j \notin posted
  /\ AddFirst(j)
  /\ posted' = posted \cup {j}
  /\ UNCHANGED <<stage, old, cleaning, written, logged, removed>>

Begin(w) ==
  /\ stage[w] = "idle"
  /\ Take(w)
  /\ stage' = [stage EXCEPT ![w] = "read"]
  /\ UNCHANGED <<old, cleaning, history>>

\* The data source, the reader's row and the tags' orders.
Read(w) ==
  /\ stage[w] = "read"
  /\ stage' = [stage EXCEPT ![w] = "write"]
  /\ UNCHANGED <<queue, old, cleaning, history>>

\* No tag is left to write, or an error is caught: unknown tenant or reader,
\* SQL Server or MongoDB fails.
GiveUp(w) ==
  /\ stage[w] \in {"read", "write"}
  /\ stage' = [stage EXCEPT ![w] = "end"]
  /\ logged' = logged \cup {running[w]}
  /\ UNCHANGED <<queue, old, cleaning, posted, written, removed>>

\* Mutant: bulkWrite is not awaited, the scan may complete before it.
WriteUnawaited(w) ==
  /\ stage[w] = "write"
  /\ stage' = [stage EXCEPT ![w] = "end"]
  /\ written' \in {written, written \cup {running[w]}}
  /\ UNCHANGED <<queue, old, cleaning, posted, logged, removed>>

\* bulkWrite.
Write(w) ==
  /\ stage[w] = "write"
  /\ stage' = [stage EXCEPT ![w] = "end"]
  /\ written' = written \cup {running[w]}
  /\ UNCHANGED <<queue, old, cleaning, posted, logged, removed>>

End(w) ==
  /\ stage[w] = "end"
  /\ Complete(w)
  /\ stage' = [stage EXCEPT ![w] = "idle"]
  /\ UNCHANGED <<old, cleaning, history>>

\* Mutant: the restarted instance does not start its worker.
CrashForGood(w) ==
  /\ Restart(w)
  /\ stage' = [stage EXCEPT ![w] = "stopped"]
  /\ UNCHANGED <<old, cleaning, history>>

Crash(w) ==
  /\ Restart(w)
  /\ stage' = [stage EXCEPT ![w] = "idle"]
  /\ UNCHANGED <<old, cleaning, history>>

Fault(w) == LoseLock(w) /\ UNCHANGED <<stage, old, cleaning, history>>

Check(j) == Stall(j) /\ UNCHANGED <<stage, old, cleaning, history>>

\* Five minutes after the post.
Age(j) ==
  /\ j \in posted \ old
  /\ old' = old \cup {j}
  /\ UNCHANGED <<queue, stage, cleaning, history>>

-----------------------------------------------------------------------------
(* cleanupQueue.  Completed jobs are gone already and the queue is never   *)
(* paused, so that two of its calls to clean find nothing.                 *)

Close ==
  /\ cleaning' = {"drain", "active", "failed"}
  /\ UNCHANGED <<queue, stage, old, history>>

\* drain(): all waiting jobs, whatever their age.
Drain ==
  /\ "drain" \in cleaning
  /\ cleaning' = cleaning \ {"drain"}
  /\ wait' = <<>>
  /\ removed' = removed \cup Range(wait)
  /\ stalls' = [j \in Job |-> IF j \in Range(wait) THEN 0 ELSE stalls[j]]
  /\ UNCHANGED <<active, failed, lock, running, stage, old, posted, written, logged>>

\* Mutant: the active jobs are removed whether locked or not.
CleanActiveForced ==
  /\ "active" \in cleaning
  /\ cleaning' = cleaning \ {"active"}
  /\ active' = active \ old
  /\ removed' = removed \cup (active \cap old)
  /\ stalls' = [j \in Job |-> IF j \in active \cap old THEN 0 ELSE stalls[j]]
  /\ UNCHANGED <<wait, failed, lock, running, stage, old, posted, written, logged>>

\* clean(5 minutes, 1000, 'active') leaves the jobs whose lock is held.
CleanActive ==
  LET S == {j \in active \cap old : lock[j] = None}
  IN  /\ "active" \in cleaning
      /\ cleaning' = cleaning \ {"active"}
      /\ active' = active \ S
      /\ removed' = removed \cup S
      /\ stalls' = [j \in Job |-> IF j \in S THEN 0 ELSE stalls[j]]
      /\ UNCHANGED <<wait, failed, lock, running, stage, old, posted, written, logged>>

\* clean(5 minutes, 1000, 'failed')
CleanFailed ==
  /\ "failed" \in cleaning
  /\ cleaning' = cleaning \ {"failed"}
  /\ failed' = failed \ old
  /\ removed' = removed \cup (failed \cap old)
  /\ stalls' = [j \in Job |-> IF j \in failed \cap old THEN 0 ELSE stalls[j]]
  /\ UNCHANGED <<wait, active, lock, running, stage, old, posted, written, logged>>

-----------------------------------------------------------------------------
Work(w) == Begin(w) \/ Read(w) \/ GiveUp(w) \/ Write(w) \/ End(w)
Clean   == Drain \/ CleanActive \/ CleanFailed

Next ==
  \/ \E j \in Job : Post(j) \/ Age(j) \/ Check(j)
  \/ \E w \in Worker : Work(w) \/ Fault(w) \/ Crash(w)
  \/ Close \/ Clean

Spec == Init /\ [][Next]_vars

\* The workers poll, their processes go on, and BullMQ checks for stalled jobs.
FairSpec ==
  /\ Spec
  /\ \A w \in Worker : WF_vars(Work(w))
  /\ \A j \in Job : WF_vars(Check(j))

-----------------------------------------------------------------------------
(* What holds.                                                             *)

\* A scan the reader was told is accepted is never silently gone: it is in
\* the queue, or its tags are written, or the log has it, or a cleaning
\* removed it, or it stalled too often.  Crashes at any step of process and
\* locks that expire under a live worker included.
NoScanForgotten ==
  \A j \in posted : InUse(j) \/ j \in written \cup logged \cup removed

\* While a worker holds the lock of its scan, the scan stays in the active
\* list: neither the stall check nor a cleaning takes it from a worker that
\* is alive, however old the scan is.
LockedIsActive == \A w \in Worker : Busy(w) /\ lock[running[w]] = w => running[w] \in active

\* Every accepted scan leaves the waiting and the active list: neither
\* newest-first order, nor stalls, nor restarts keep it there once the
\* readers are silent.
ScansEnd == \A j \in Job : j \in posted ~> j \notin Range(wait) \cup active

\* The queue, its workers, their crashes and stalls and the cleanings do no
\* more than ScanDelivery: a scan leaves the queue with a result, or stalled
\* too often, or removed, and what has left is never taken again.
Delivery == INSTANCE ScanDelivery WITH
  open <- Range(wait) \cup active, blocked <- failed
ImplementsDelivery == Delivery!Spec
=============================================================================
