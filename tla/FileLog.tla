------------------------------ MODULE FileLog ------------------------------
(***************************************************************************)
(* The log files, the only trace of an error the consumers swallow.        *)
(* FileLogger puts an entry at the head of its file by reading the file    *)
(* and writing it anew.  Both calls are synchronous, so that nothing       *)
(* comes between them within an instance; but the instances of             *)
(* ecosystem.config.js write the same files, each one truncates before it  *)
(* writes, and a cron job of each empties them at midnight.                *)
(*                                                                         *)
(* One step is one system call.  A file is the sequence of its entries;    *)
(* the names of this module have a prefix so that it can be extended       *)
(* together with another one.                                              *)
(***************************************************************************)
EXTENDS Naturals, Sequences

CONSTANTS
  Instance,  \* the processes pm2 runs
  Entry      \* what callers log; each entry once

LogFile == {"info", "error", "debug"}

VARIABLES
  exists,  \* the files that are there
  file,    \* the entries of a file, the first one at its head
  pc,      \* where an instance is
  left,    \* files it has still to look for, or to empty, in this order
  at,      \* the file it works on
  entry,   \* the entry it is logging
  data     \* what it has read

\* History: read by the properties, never by a guard.
VARIABLES
  used,    \* entries logged, or begun
  since,   \* the entries logged to a file since its last upset, newest first
  alone    \* no other rewrite of the file has met this instance's

process == <<pc, left, at, entry, data>>
logVars == <<exists, file, process, used, since, alone>>

Rewriting(f) == {p \in Instance : pc[p] \in {"read", "open"} /\ at[p] = f}

LogTypeOK ==
  /\ exists \subseteq LogFile
  /\ file \in [LogFile -> Seq(Entry)]
  /\ pc \in [Instance -> {"down", "init", "create", "idle", "rotate", "read", "open"}]
  /\ left \in [Instance -> Seq(LogFile)]
  /\ at \in [Instance -> LogFile]
  /\ entry \in [Instance -> Entry]
  /\ data \in [Instance -> Seq(Entry)]
  /\ used \subseteq Entry
  /\ since \in [LogFile -> Seq(Entry)]
  /\ alone \in [Instance -> BOOLEAN]

\* A new installation, or one whose files are there.
LogInit ==
  /\ exists \in {{}, LogFile}
  /\ file = [f \in LogFile |-> <<>>]
  /\ pc = [p \in Instance |-> "down"]
  /\ left = [p \in Instance |-> <<>>]
  /\ at \in [Instance -> LogFile]
  /\ entry \in [Instance -> Entry]
  /\ data = [p \in Instance |-> <<>>]
  /\ used = {}
  /\ since = [f \in LogFile |-> <<>>]
  /\ alone = [p \in Instance |-> TRUE]

PcTo(p, s) == pc' = [pc EXCEPT ![p] = s]

\* open(2) with O_TRUNC.
Truncate(f) == file' = [file EXCEPT ![f] = <<>>]

\* What has been logged to f so far may be lost.
Upset(f) == since' = [since EXCEPT ![f] = <<>>]

-----------------------------------------------------------------------------
(* initialize, when an instance starts                                     *)

Boot(p) ==
  /\ pc[p] = "down"
  /\ PcTo(p, "init")
  /\ left' = [left EXCEPT ![p] = <<"info", "error", "debug">>]
  /\ UNCHANGED <<exists, file, at, entry, data, used, since, alone>>

\* existsSync
Look(p) ==
  /\ pc[p] = "init" /\ left[p] # <<>>
  /\ left' = [left EXCEPT ![p] = Tail(@)]
  /\ IF Head(left[p]) \in exists THEN UNCHANGED <<pc, at>>
     ELSE PcTo(p, "create") /\ at' = [at EXCEPT ![p] = Head(left[p])]
  /\ UNCHANGED <<exists, file, entry, data, used, since, alone>>

\* writeFileSync(path, ''): the file may have entries of another instance.
Create(p) ==
  /\ pc[p] = "create"
  /\ PcTo(p, "init")
  /\ exists' = exists \cup {at[p]}
  /\ Truncate(at[p])
  /\ Upset(at[p])
  /\ UNCHANGED <<left, at, entry, data, used, alone>>

Ready(p) ==
  /\ pc[p] = "init" /\ left[p] = <<>>
  /\ PcTo(p, "idle")
  /\ UNCHANGED <<exists, file, left, at, entry, data, used, since, alone>>

-----------------------------------------------------------------------------
(* rewrite                                                                 *)

\* readFileSync
Rewrite(p, f, e) ==
  /\ pc[p] = "idle"
  /\ e \notin used /\ used' = used \cup {e}
  /\ PcTo(p, "read")
  /\ at' = [at EXCEPT ![p] = f]
  /\ entry' = [entry EXCEPT ![p] = e]
  /\ data' = [data EXCEPT ![p] = file[f]]
  /\ alone' = [q \in Instance |->
       IF q = p THEN Rewriting(f) = {} ELSE alone[q] /\ q \notin Rewriting(f)]
  /\ IF Rewriting(f) = {} THEN UNCHANGED since ELSE Upset(f)
  /\ UNCHANGED <<exists, file, left>>

\* The consumers' catch blocks: the job is completed all the same.
Swallow(p, e) == Rewrite(p, "error", e)

\* AllExceptionsFilter, a request that ends with 500.
Catch(p, e) == Rewrite(p, "error", e)

\* The interceptors of the customer's API.
ApiAnswered(p, e) == Rewrite(p, "info", e)
ApiFailed(p, e)   == Rewrite(p, "error", e)

\* The worker events of the readers' queue.
JobCompleted(p, e) == Rewrite(p, "info", e)
JobFailed(p, e)    == Rewrite(p, "error", e)

\* writeFileSync opens the file.
Open(p) ==
  /\ pc[p] = "read"
  /\ PcTo(p, "open")
  /\ Truncate(at[p])
  /\ UNCHANGED <<exists, left, at, entry, data, used, since, alone>>

\* What another instance has written is overwritten from its start.  Entries
\* have any length: of the others, those from some entry on remain.
Rest(s) == IF s = <<>> THEN {<<>>} ELSE {SubSeq(s, k, Len(s)) : k \in 2..(Len(s) + 1)}

\* It writes its entry and what it has read.
Overwrite(p) ==
  LET f == at[p]
  IN  /\ pc[p] = "open"
      /\ PcTo(p, "idle")
      /\ \E rest \in Rest(file[f]) : file' = [file EXCEPT ![f] = <<entry[p]>> \o data[p] \o rest]
      /\ since' = [since EXCEPT ![f] = IF alone[p] THEN <<entry[p]>> \o @ ELSE <<>>]
      /\ UNCHANGED <<exists, left, at, entry, data, used, alone>>

\* A system call fails, or the instance is restarted: pm2 does so at 1G.
Stop(p, s) ==
  /\ PcTo(p, s)
  /\ IF pc[p] = "open" THEN Upset(at[p]) ELSE UNCHANGED since
  /\ UNCHANGED <<exists, file, left, at, entry, data, used, alone>>

Throw(p) == pc[p] \in {"read", "open", "rotate"} /\ Stop(p, "idle")

Kill(p) == pc[p] # "down" /\ Stop(p, "down")

-----------------------------------------------------------------------------
(* rotate, at midnight, in every instance                                  *)

Midnight(p) ==
  /\ pc[p] = "idle"
  /\ PcTo(p, "rotate")
  /\ left' = [left EXCEPT ![p] = <<"info", "debug", "error">>]
  /\ UNCHANGED <<exists, file, at, entry, data, used, since, alone>>

Rotate(p) ==
  /\ pc[p] = "rotate" /\ left[p] # <<>>
  /\ left' = [left EXCEPT ![p] = Tail(@)]
  /\ PcTo(p, IF Len(left[p]) = 1 THEN "idle" ELSE "rotate")
  /\ Truncate(Head(left[p]))
  /\ Upset(Head(left[p]))
  /\ UNCHANGED <<exists, at, entry, data, used, alone>>

-----------------------------------------------------------------------------
LogNext ==
  \E p \in Instance :
    \/ Boot(p) \/ Look(p) \/ Create(p) \/ Ready(p) \/ Open(p) \/ Overwrite(p)
    \/ Throw(p) \/ Kill(p) \/ Midnight(p) \/ Rotate(p)
    \/ \E e \in Entry : Swallow(p, e) \/ Catch(p, e) \/ ApiAnswered(p, e)
                          \/ ApiFailed(p, e) \/ JobCompleted(p, e) \/ JobFailed(p, e)

LogSpec == LogInit /\ [][LogNext]_logVars

-----------------------------------------------------------------------------
(* What holds.                                                             *)

\* s is at the head of t.
AtHead(s, t) == Len(s) <= Len(t) /\ \A i \in 1..Len(s) : s[i] = t[i]

\* Entries are lost, torn or out of order only by an upset: two rewrites of
\* the file that meet, a rewrite that is cut short after it has emptied the
\* file, midnight, or an instance that finds no file and creates it when
\* another has.  What was logged since the last one is at the head of the
\* file, newest first, or in the hands of the instance that is writing it.
KeptUnlessUpset ==
  \A f \in LogFile :
    \/ AtHead(since[f], file[f])
    \/ \E p \in Rewriting(f) : pc[p] = "open" /\ AtHead(since[f], data[p])
=============================================================================
