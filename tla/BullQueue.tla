----------------------------- MODULE BullQueue -----------------------------
(***************************************************************************)
(* A BullMQ queue in Redis and its workers, as the program configures it:  *)
(* one worker per instance and one job at a time, completed jobs removed,  *)
(* failed jobs kept, at most MaxStalled stalls.  The library is not part   *)
(* of the repository; every action is one of its atomic Redis scripts.     *)
(*                                                                         *)
(* A worker keeps a lock on its job and renews it.  When the instance      *)
(* restarts, or cannot renew in time while it goes on working, the lock    *)
(* expires and the job is put back for another worker.                     *)
(***************************************************************************)
EXTENDS Naturals, Sequences, Functions

CONSTANTS
  Job,        \* job ids
  Worker,     \* one per instance
  None,       \* no job, no worker
  MaxStalled  \* maxStalledCount, 1 by default

ASSUME QueueAssumption == None \notin Job /\ None \notin Worker /\ MaxStalled \in Nat

VARIABLES
  wait,     \* the waiting list; its head is taken next
  active,   \* the jobs workers have taken
  failed,   \* the jobs that stalled too often
  stalls,   \* how often a job has stalled
  lock,     \* the worker that holds the lock of a job
  running   \* the job a worker believes it has

queue == <<wait, active, failed, stalls, lock, running>>

\* A job id is in use until its job is removed.
InUse(j) == j \in Range(wait) \cup active \cup failed
Busy(w)  == running[w] # None

QueueTypeOK ==
  /\ wait \in Seq(Job)
  /\ active \subseteq Job
  /\ failed \subseteq Job
  /\ stalls \in [Job -> 0..(MaxStalled + 1)]
  /\ lock \in [Job -> Worker \cup {None}]
  /\ running \in [Worker -> Job \cup {None}]

QueueInit ==
  /\ wait = <<>> /\ active = {} /\ failed = {}
  /\ stalls = [j \in Job |-> 0]
  /\ lock = [j \in Job |-> None]
  /\ running = [w \in Worker |-> None]

\* Queue.add with { lifo: true } and an id of its own.
AddFirst(j) ==
  /\ wait' = <<j>> \o wait
  /\ UNCHANGED <<active, failed, stalls, lock, running>>

\* Queue.add with a jobId: an id in use is a duplicate, and nothing is added.
Add(j) ==
  /\ wait' = IF InUse(j) THEN wait ELSE Append(wait, j)
  /\ UNCHANGED <<active, failed, stalls, lock, running>>

Take(w) ==
  /\ ~Busy(w)
  /\ wait # <<>>
  /\ wait' = Tail(wait)
  /\ active' = active \cup {Head(wait)}
  /\ lock' = [lock EXCEPT ![Head(wait)] = w]
  /\ running' = [running EXCEPT ![w] = Head(wait)]
  /\ UNCHANGED <<failed, stalls>>

\* The processor returned.  Without the lock, the worker cannot complete the
\* job: it stays where the others have put it.
Complete(w) ==
  LET j == running[w]
      mine == lock[j] = w
  IN  /\ running' = [running EXCEPT ![w] = None]
      /\ lock' = IF mine THEN [lock EXCEPT ![j] = None] ELSE lock
      /\ active' = IF mine THEN active \ {j} ELSE active
      /\ stalls' = IF mine THEN [stalls EXCEPT ![j] = 0] ELSE stalls
      /\ UNCHANGED <<wait, failed>>

Unlock(w) == lock' = [j \in Job |-> IF lock[j] = w THEN None ELSE lock[j]]

\* The lock expires while the worker goes on.
LoseLock(w) ==
  /\ Busy(w)
  /\ lock[running[w]] = w
  /\ Unlock(w)
  /\ UNCHANGED <<wait, active, failed, stalls, running>>

\* The instance restarts: its worker has no job, the lock it held expires.
Restart(w) ==
  /\ Busy(w)
  /\ running' = [running EXCEPT ![w] = None]
  /\ Unlock(w)
  /\ UNCHANGED <<wait, active, failed, stalls>>

\* A worker's check finds an active job without a lock.
Stall(j) ==
  /\ j \in active
  /\ lock[j] = None
  /\ active' = active \ {j}
  /\ stalls' = [stalls EXCEPT ![j] = @ + 1]
  /\ IF stalls[j] = MaxStalled
     THEN failed' = failed \cup {j} /\ UNCHANGED wait
     ELSE wait' = <<j>> \o wait /\ UNCHANGED failed
  /\ UNCHANGED <<lock, running>>
=============================================================================
