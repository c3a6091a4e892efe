------------------------- MODULE DeckerSyncProofs -------------------------
(***************************************************************************)
(* Theorems about DeckerSync, for any tags, commands, factories, instances *)
(* and scans, and any number of faults.                                    *)
(***************************************************************************)
EXTENDS DeckerSync, TLAPS

-----------------------------------------------------------------------------
(* The queue.                                                              *)

\* A job is in one place, once, a lock is held by the worker of an active
\* job, and the failed jobs are those that stalled too often.
Distinct(s) == \A a, b \in DOMAIN s : s[a] = s[b] => a = b

QInv ==
  /\ Distinct(wait)
  /\ active \cap Range(wait) = {} /\ failed \cap Range(wait) = {} /\ active \cap failed = {}
  /\ \A j \in Job : j \in failed <=> stalls[j] = MaxStalled + 1
  /\ \A j \in Job : lock[j] # None => j \in active /\ running[lock[j]] = j

LEMMA RangeIs == ASSUME NEW s, NEW x PROVE x \in Range(s) <=> \E a \in DOMAIN s : s[a] = x
BY DEF Range

\* Adding at the front or at the end, and taking the head.
LEMMA First ==
  ASSUME NEW s \in Seq(Job), NEW j \in Job, j \notin Range(s), Distinct(s)
  PROVE  /\ <<j>> \o s \in Seq(Job)
         /\ Range(<<j>> \o s) = {j} \cup Range(s)
         /\ Distinct(<<j>> \o s)
<1> DEFINE t == <<j>> \o s
<1>1. t \in Seq(Job) /\ Len(t) = Len(s) + 1 /\ t[1] = j /\ \A a \in 1..Len(s) : t[a + 1] = s[a]
  OBVIOUS
<1>2. DOMAIN t = 1..(Len(s) + 1) /\ DOMAIN s = 1..Len(s) /\ Len(s) \in Nat
  BY <1>1
<1> HIDE DEF t
<1>3. \A a \in DOMAIN t : a = 1 \/ (a - 1 \in DOMAIN s /\ t[a] = s[a - 1])
  <2> SUFFICES ASSUME NEW a \in DOMAIN t, a # 1 PROVE a - 1 \in DOMAIN s /\ t[a] = s[a - 1]
    OBVIOUS
  <2>1. a - 1 \in 1..Len(s) /\ (a - 1) + 1 = a
    BY <1>2
  <2> QED
    BY <1>1, <1>2, <2>1
<1>4. Range(t) = {j} \cup Range(s)
  <2>1. \A x : x \in Range(t) => x \in {j} \cup Range(s)
    BY <1>1, <1>3, RangeIs
  <2>2. j \in Range(t)
    BY <1>1, <1>2, RangeIs
  <2>3. \A x : x \in Range(s) => x \in Range(t)
    <3> SUFFICES ASSUME NEW x \in Range(s) PROVE x \in Range(t)
      OBVIOUS
    <3>1. PICK a \in DOMAIN s : s[a] = x
      BY RangeIs
    <3>2. a + 1 \in DOMAIN t /\ t[a + 1] = x
      BY <1>1, <1>2, <3>1
    <3> QED
      BY <3>2, RangeIs
  <2> QED
    BY <2>1, <2>2, <2>3
<1>5. Distinct(t)
  <2> SUFFICES ASSUME NEW a \in DOMAIN t, NEW b \in DOMAIN t, t[a] = t[b] PROVE a = b
    BY DEF Distinct
  <2>1. \A d \in DOMAIN s : s[d] # j
    BY RangeIs
  <2>2. CASE a = 1 \/ b = 1
    BY <1>1, <1>3, <2>1, <2>2
  <2>3. CASE a # 1 /\ b # 1
    <3>1. a - 1 = b - 1
      BY <1>3, <2>3 DEF Distinct
    <3> QED
      BY <1>2, <3>1
  <2> QED
    BY <2>2, <2>3
<1> QED
  BY <1>1, <1>4, <1>5 DEF t

LEMMA Taken ==
  ASSUME NEW s \in Seq(Job), s # <<>>, Distinct(s)
  PROVE  /\ Head(s) \in Job /\ Head(s) \in Range(s) /\ Tail(s) \in Seq(Job)
         /\ Range(Tail(s)) = Range(s) \ {Head(s)}
         /\ Distinct(Tail(s))
<1> DEFINE t == Tail(s)
<1>1. t \in Seq(Job) /\ Len(s) \in Nat \ {0} /\ Len(t) = Len(s) - 1 /\ Head(s) = s[1] /\ Head(s) \in Job
  OBVIOUS
<1>2. \A a \in 1..Len(t) : t[a] = s[a + 1]
  OBVIOUS
<1>3. DOMAIN t = 1..(Len(s) - 1) /\ DOMAIN s = 1..Len(s)
  BY <1>1
<1> HIDE DEF t
<1>4. \A a \in DOMAIN t : a + 1 \in DOMAIN s /\ a + 1 # 1 /\ t[a] = s[a + 1]
  BY <1>1, <1>2, <1>3
<1>5. 1 \in DOMAIN s
  BY <1>1, <1>3
<1>6. Range(t) = Range(s) \ {s[1]}
  <2>1. \A x : x \in Range(t) => x \in Range(s) /\ x # s[1]
    BY <1>4, <1>5, RangeIs DEF Distinct
  <2>2. ASSUME NEW x \in Range(s), x # s[1] PROVE x \in Range(t)
    <3>1. PICK a \in DOMAIN s : s[a] = x
      BY RangeIs
    <3>2. a - 1 \in DOMAIN t /\ a - 1 \in 1..Len(t) /\ (a - 1) + 1 = a
      BY <1>1, <1>3, <2>2, <3>1
    <3>3. t[a - 1] = x
      BY <1>2, <3>1, <3>2
    <3> QED
      BY <3>2, <3>3, RangeIs
  <2> QED
    BY <2>1, <2>2
<1>7. Distinct(t)
  <2> SUFFICES ASSUME NEW a \in DOMAIN t, NEW b \in DOMAIN t, t[a] = t[b] PROVE a = b
    BY DEF Distinct
  <2>1. a + 1 = b + 1
    BY <1>4 DEF Distinct
  <2> QED
    BY <1>3, <2>1
<1>8. s[1] \in Range(s)
  BY <1>5, RangeIs
<1> QED
  BY <1>1, <1>6, <1>7, <1>8 DEF t

LEMMA Empty == Range(<<>>) = {} /\ Distinct(<<>>)
BY DEF Range, Distinct

LEMMA Last ==
  ASSUME NEW s \in Seq(Job), NEW j \in Job, j \notin Range(s), Distinct(s)
  PROVE  /\ Append(s, j) \in Seq(Job)
         /\ Range(Append(s, j)) = {j} \cup Range(s)
         /\ Distinct(Append(s, j))
<1> DEFINE t == Append(s, j)
<1>1. t \in Seq(Job) /\ Len(t) = Len(s) + 1 /\ t[Len(s) + 1] = j /\ \A a \in 1..Len(s) : t[a] = s[a]
  OBVIOUS
<1>2. DOMAIN t = 1..(Len(s) + 1) /\ DOMAIN s = 1..Len(s) /\ Len(s) \in Nat
  BY <1>1
<1> HIDE DEF t
<1>3. \A a \in DOMAIN t : (a = Len(s) + 1 /\ t[a] = j) \/ (a \in DOMAIN s /\ t[a] = s[a])
  BY <1>1, <1>2
<1>4. Range(t) = {j} \cup Range(s)
  <2>1. \A x : x \in Range(t) => x \in {j} \cup Range(s)
    BY <1>3, RangeIs
  <2>2. j \in Range(t)
    BY <1>1, <1>2, RangeIs
  <2>3. \A x : x \in Range(s) => x \in Range(t)
    BY <1>1, <1>2, RangeIs
  <2> QED
    BY <2>1, <2>2, <2>3
<1>5. Distinct(t)
  <2>1. \A d \in DOMAIN s : s[d] # j
    BY RangeIs
  <2> QED
    BY <1>3, <2>1 DEF Distinct
<1> QED
  BY <1>1, <1>4, <1>5 DEF t

LEMMA QueueStart == QueueInit => QueueTypeOK /\ QInv
<1> SUFFICES ASSUME QueueInit PROVE QueueTypeOK /\ QInv
  OBVIOUS
<1>1. QueueTypeOK
  BY QueueAssumption DEF QueueInit, QueueTypeOK
<1>2. Range(wait) = {} /\ Distinct(wait)
  BY Empty DEF QueueInit
<1> QED
  BY <1>1, <1>2, QueueAssumption DEF QueueInit, QInv

LEMMA AddStep ==
  ASSUME QueueTypeOK, QInv, NEW j \in Job, Add(j)
  PROVE  QueueTypeOK' /\ QInv' /\ running' = running
<1>1. active' = active /\ failed' = failed /\ stalls' = stalls /\ lock' = lock /\ running' = running
  BY DEF Add
<1>2. CASE InUse(j)
  <2>1. wait' = wait
    BY <1>2 DEF Add
  <2> QED
    BY <1>1, <2>1 DEF QueueTypeOK, QInv
<1>3. CASE ~InUse(j)
  <2>1. wait' = Append(wait, j)
    BY <1>3 DEF Add
  <2>2. wait' \in Seq(Job) /\ Range(wait') = {j} \cup Range(wait) /\ Distinct(wait')
    BY <1>3, <2>1, Last DEF QueueTypeOK, QInv, InUse
  <2>3. QueueTypeOK'
    BY <1>1, <2>2 DEF QueueTypeOK
  <2> QED
    BY <1>1, <1>3, <2>2, <2>3 DEF QInv, InUse
<1> QED
  BY <1>2, <1>3

\* Every operation of the queue keeps it so; what may be in use afterwards.
LEMMA TakeStep ==
  ASSUME QueueTypeOK, QInv, NEW w \in Worker, Take(w)
  PROVE  /\ QueueTypeOK' /\ QInv'
         /\ running'[w] \in Range(wait) /\ \A v \in Worker \ {w} : running'[v] = running[v]
         /\ \A j \in Job : InUse(j)' <=> InUse(j)
<1>1. PICK h : h = Head(wait)
  OBVIOUS
<1>2. /\ wait' = Tail(wait) /\ active' = active \cup {h} /\ lock' = [lock EXCEPT ![h] = w]
      /\ running' = [running EXCEPT ![w] = h] /\ failed' = failed /\ stalls' = stalls
      /\ wait \in Seq(Job) /\ wait # <<>> /\ running[w] = None
  BY <1>1 DEF Take, QueueTypeOK, Busy
<1>3. /\ h \in Job /\ h \in Range(wait) /\ wait' \in Seq(Job)
      /\ Range(wait') = Range(wait) \ {h} /\ Distinct(wait')
  BY <1>1, <1>2, Taken DEF QInv
<1>4. QueueTypeOK'
  BY <1>2, <1>3 DEF QueueTypeOK
<1>5. /\ active' \cap Range(wait') = {} /\ failed' \cap Range(wait') = {} /\ active' \cap failed' = {}
  BY <1>2, <1>3 DEF QInv
<1>6. \A j \in Job : lock'[j] # None => j \in active' /\ running'[lock'[j]] = j
  BY <1>2, <1>3, QueueAssumption DEF QInv, QueueTypeOK
<1>7. QInv'
  BY <1>2, <1>3, <1>5, <1>6 DEF QInv
<1>8. running'[w] = h /\ \A v \in Worker \ {w} : running'[v] = running[v]
  BY <1>2 DEF QueueTypeOK
<1>9. \A j \in Job : InUse(j)' <=> InUse(j)
  BY <1>2, <1>3 DEF InUse
<1> QED
  BY <1>3, <1>4, <1>7, <1>8, <1>9

LEMMA CompleteStep ==
  ASSUME QueueTypeOK, QInv, NEW w \in Worker, Busy(w), Complete(w)
  PROVE  /\ QueueTypeOK' /\ QInv'
         /\ running'[w] = None /\ \A v \in Worker \ {w} : running'[v] = running[v]
         /\ \A j \in Job : j # running[w] => (InUse(j)' <=> InUse(j))
         /\ \A j \in Job : InUse(j)' => InUse(j)
<1>1. PICK j : j = running[w]
  OBVIOUS
<1>2. j \in Job
  BY <1>1 DEF Busy, QueueTypeOK
<1>3. running' = [running EXCEPT ![w] = None] /\ wait' = wait /\ failed' = failed
  BY DEF Complete
<1>4. CASE lock[j] = w
  <2>1. lock' = [lock EXCEPT ![j] = None] /\ active' = active \ {j} /\ stalls' = [stalls EXCEPT ![j] = 0]
    BY <1>1, <1>4 DEF Complete
  <2>2. j \in active /\ j \notin failed
    BY <1>2, <1>4, QueueAssumption DEF QInv
  <2>3. QueueTypeOK'
    BY <1>2, <1>3, <2>1, QueueAssumption DEF QueueTypeOK
  <2>4. \A i \in Job : i \in failed' <=> stalls'[i] = MaxStalled + 1
    BY <1>2, <1>3, <2>1, <2>2, QueueAssumption DEF QInv, QueueTypeOK
  <2>5. \A i \in Job : lock'[i] # None => i \in active' /\ running'[lock'[i]] = i
    BY <1>1, <1>2, <1>3, <2>1, QueueAssumption DEF QInv, QueueTypeOK
  <2>6. QInv'
    BY <1>3, <2>1, <2>4, <2>5 DEF QInv
  <2> QED
    BY <1>1, <1>3, <2>1, <2>3, <2>6 DEF QueueTypeOK, InUse
<1>5. CASE lock[j] # w
  <2>1. lock' = lock /\ active' = active /\ stalls' = stalls
    BY <1>1, <1>5 DEF Complete
  <2>2. QueueTypeOK'
    BY <1>3, <2>1 DEF QueueTypeOK
  <2>3. \A i \in Job : lock'[i] # None => i \in active' /\ running'[lock'[i]] = i
    BY <1>1, <1>3, <1>5, <2>1, QueueAssumption DEF QInv, QueueTypeOK
  <2>4. QInv'
    BY <1>3, <2>1, <2>3 DEF QInv
  <2> QED
    BY <1>1, <1>3, <2>1, <2>2, <2>4 DEF QueueTypeOK, InUse
<1> QED
  BY <1>4, <1>5

LEMMA LoseStep ==
  ASSUME QueueTypeOK, QInv, NEW w \in Worker, LoseLock(w) \/ Restart(w)
  PROVE  /\ QueueTypeOK' /\ QInv'
         /\ \A j \in Job : InUse(j)' <=> InUse(j)
<1>1. lock' = [j \in Job |-> IF lock[j] = w THEN None ELSE lock[j]]
  BY DEF LoseLock, Restart, Unlock
<1>2. wait' = wait /\ active' = active /\ failed' = failed /\ stalls' = stalls
  BY DEF LoseLock, Restart
<1>3. running' = running \/ running' = [running EXCEPT ![w] = None]
  BY DEF LoseLock, Restart
<1>4. QueueTypeOK'
  BY <1>1, <1>2, <1>3 DEF QueueTypeOK
<1>5. \A j \in Job : lock'[j] # None => j \in active' /\ running'[lock'[j]] = j
  BY <1>1, <1>2, <1>3, QueueAssumption DEF QInv, QueueTypeOK
<1> QED
  BY <1>2, <1>4, <1>5 DEF QInv, InUse

LEMMA StallStep ==
  ASSUME QueueTypeOK, QInv, NEW j \in Job, Stall(j)
  PROVE  /\ QueueTypeOK' /\ QInv' /\ running' = running
         /\ \A i \in Job : InUse(i)' <=> InUse(i)
<1>1. /\ j \in active /\ lock[j] = None /\ active' = active \ {j} /\ lock' = lock /\ running' = running
      /\ stalls' = [stalls EXCEPT ![j] = @ + 1]
  BY DEF Stall
<1>2. j \notin failed /\ j \notin Range(wait) /\ stalls[j] \in 0..MaxStalled
  BY <1>1, QueueAssumption DEF QInv, QueueTypeOK
<1>3. \A i \in Job : lock'[i] # None => i \in active' /\ running'[lock'[i]] = i
  BY <1>1 DEF QInv
<1>4. stalls' \in [Job -> 0..(MaxStalled + 1)]
  BY <1>1, <1>2, QueueAssumption DEF QueueTypeOK
<1>5. CASE stalls[j] = MaxStalled
  <2>1. failed' = failed \cup {j} /\ wait' = wait
    BY <1>5 DEF Stall
  <2>2. QueueTypeOK'
    BY <1>1, <1>4, <2>1 DEF QueueTypeOK
  <2>3. \A i \in Job : i \in failed' <=> stalls'[i] = MaxStalled + 1
    BY <1>1, <1>5, <2>1, QueueAssumption DEF QInv, QueueTypeOK
  <2> QED
    BY <1>1, <1>2, <1>3, <2>1, <2>2, <2>3 DEF QInv, InUse
<1>6. CASE stalls[j] # MaxStalled
  <2>1. wait' = <<j>> \o wait /\ failed' = failed
    BY <1>6 DEF Stall
  <2>2. wait' \in Seq(Job) /\ Range(wait') = {j} \cup Range(wait) /\ Distinct(wait')
    BY <1>2, <2>1, First DEF QueueTypeOK, QInv
  <2>3. QueueTypeOK'
    BY <1>1, <1>4, <2>1, <2>2 DEF QueueTypeOK
  <2>4. \A i \in Job : i \in failed' <=> stalls'[i] = MaxStalled + 1
    BY <1>1, <1>2, <1>6, <2>1, QueueAssumption DEF QInv, QueueTypeOK
  <2>5. active' \cap Range(wait') = {} /\ failed' \cap Range(wait') = {} /\ active' \cap failed' = {}
    BY <1>1, <1>2, <2>1, <2>2 DEF QInv
  <2>6. QInv'
    BY <1>3, <2>2, <2>4, <2>5 DEF QInv
  <2> QED
    BY <1>1, <2>1, <2>2, <2>3, <2>6 DEF InUse
<1> QED
  BY <1>5, <1>6

LEMMA QueueFrame == UNCHANGED queue /\ QueueTypeOK /\ QInv => QueueTypeOK' /\ QInv'
BY DEF queue, QueueTypeOK, QInv

-----------------------------------------------------------------------------
(* The runs and the scans.                                                 *)

\* A run that is somewhere has a job, and has tags before it asks for their
\* commands and after it has asked for theirs.
RunInv ==
  /\ \A w \in Worker : stage[w] # "idle" => running[w] # None
  /\ \A w \in Worker : stage[w] \in {"ask", "erp", "upsert"} => found[w] \subseteq Epc

IInv == TypeOK /\ QInv /\ RunInv

\* The parts of TypeOK a step that leaves queue and runs alone may change.
Tables ==
  /\ row \in [Epc -> Orders]
  /\ doc \in [Epc -> Orders \cup {"unknown"}]
  /\ api \subseteq Epc /\ erp \subseteq Command
  /\ data \in [Factory -> SUBSET Epc]

Runs ==
  /\ stage \in [Worker -> {"idle", "ask", "fetch", "erp", "upsert", "end"}]
  /\ found \in [Worker -> (SUBSET Command) \cup (SUBSET Epc)]
  /\ ordered \in [Worker -> SUBSET Epc]

Scans ==
  /\ step \in [Scanner -> {"idle", "write"}]
  /\ seen \in [Scanner -> [Epc -> Orders \cup {"unknown"}]]

Requests ==
  /\ \A s \in Scanner : sent[s] = None \/ sent[s] \in Factory \X SUBSET Epc
  /\ \A f \in Factory : button[f] = None \/ button[f] \subseteq Epc
  /\ faults \in 0..FaultLimit

LEMMA TypeParts == TypeOK <=> QueueTypeOK /\ Tables /\ Runs /\ Scans /\ Requests
BY DEF TypeOK, Tables, Runs, Scans, Requests

LEMMA FailIs == ASSUME Fail, faults \in 0..FaultLimit PROVE faults' \in 0..FaultLimit
BY SyncAssumption DEF Fail

LEMMA InFound == ASSUME NEW S, S \subseteq Command \/ S \subseteq Epc PROVE S \in (SUBSET Command) \cup (SUBSET Epc)
OBVIOUS

\* What a request leaves of the queue and of the factories' tags.
LEMMA RequestStep ==
  ASSUME QueueTypeOK, QInv, Tables, NEW f \in Factory, NEW S \in SUBSET Epc, Request(f, S), UNCHANGED <<stores, outside>>
  PROVE  QueueTypeOK' /\ QInv' /\ running' = running /\ Tables'
<1>1. QueueTypeOK' /\ QInv' /\ running' = running
  BY AddStep DEF Request, Factory
<1>2. data' \in [Factory -> SUBSET Epc]
  BY DEF Request, Tables
<1> QED
  BY <1>1, <1>2 DEF Tables, stores, outside

LEMMA ForgetStep == ASSUME Scans, NEW s \in Scanner, Forget(s) PROVE Scans'
BY DEF Scans, Forget, NoTags, Orders

LEMMA LeaveStep ==
  ASSUME Runs, RunInv, NEW w \in Worker, NEW t \in {"idle", "end"}, Leave(w, t),
         t = "end" => running'[w] # None,
         \A v \in Worker \ {w} : running'[v] = running[v]
  PROVE  Runs' /\ RunInv'
<1>1. /\ stage' = [stage EXCEPT ![w] = t]
      /\ found' = [found EXCEPT ![w] = {}]
      /\ ordered' = [ordered EXCEPT ![w] = {}]
  BY DEF Leave, Goto
<1>2. found' \in [Worker -> (SUBSET Command) \cup (SUBSET Epc)]
  <2>1. {} \in (SUBSET Command) \cup (SUBSET Epc)
    BY InFound
  <2> QED
    BY <1>1, <2>1 DEF Runs
<1>3. Runs'
  BY <1>1, <1>2 DEF Runs
<1>4. \A v \in Worker : IF v = w THEN stage'[v] = t /\ found'[v] = {}
                        ELSE stage'[v] = stage[v] /\ found'[v] = found[v]
  BY <1>1 DEF Runs
<1> QED
  BY <1>3, <1>4 DEF RunInv

LEMMA Step == IInv /\ [Next]_vars => IInv'
<1> SUFFICES ASSUME IInv, [Next]_vars PROVE IInv'
  OBVIOUS
<1>0. QueueTypeOK /\ QInv /\ RunInv /\ Tables /\ Runs /\ Scans /\ Requests
  BY TypeParts DEF IInv
<1> SUFFICES QueueTypeOK' /\ QInv' /\ RunInv' /\ Tables' /\ Runs' /\ Scans' /\ Requests'
  BY TypeParts DEF IInv, TypeOK, Tables, Runs, Scans, Requests
<1> USE DEF stores, outside, sync, scan
<1>1. ASSUME NEW s \in Scanner, NEW S \in SUBSET Epc, ScanRead(s, S)
      PROVE  QueueTypeOK' /\ QInv' /\ RunInv' /\ Tables' /\ Runs' /\ Scans' /\ Requests'
  <2>1. QueueTypeOK' /\ QInv' /\ RunInv' /\ Tables' /\ Runs'
    BY <1>0, <1>1, QueueFrame DEF ScanRead, queue, RunInv, Tables, Runs
  <2>2. Scans'
    <3>1. Joined(S) \in [Epc -> Orders \cup {"unknown"}]
      BY <1>0 DEF Joined, Tables, Orders
    <3> QED
      BY <1>0, <1>1, <3>1 DEF ScanRead, Scans
  <2>3. \A t \in Scanner : sent'[t] = None \/ sent'[t] \in Factory \X SUBSET Epc
    <3>1. CASE UnknownTags(S) = {}
      BY <1>0, <1>1, <3>1 DEF ScanRead, Requests
    <3>2. CASE UnknownTags(S) # {}
      <4>1. PICK f \in Factory, T \in Representatives(UnknownTags(S)) : sent' = [sent EXCEPT ![s] = <<f, T>>]
        BY <1>1, <3>2 DEF ScanRead
      <4>2. <<f, T>> \in Factory \X SUBSET Epc
        BY DEF Representatives, UnknownTags
      <4>3. PICK p : p = <<f, T>>
        OBVIOUS
      <4>4. \A t \in Scanner : sent'[t] = p \/ sent'[t] = sent[t]
        BY <4>1, <4>3
      <4> QED
        BY <1>0, <4>2, <4>3, <4>4 DEF Requests
    <3> QED
      BY <3>1, <3>2
  <2>4. Requests'
    BY <1>0, <1>1, <2>3 DEF ScanRead, Requests
  <2> QED
    BY <2>1, <2>2, <2>4
<1>2. ASSUME NEW s \in Scanner, ScanArrive(s)
      PROVE  QueueTypeOK' /\ QInv' /\ RunInv' /\ Tables' /\ Runs' /\ Scans' /\ Requests'
  <2>1. PICK f \in Factory, S \in SUBSET Epc : sent[s] = <<f, S>>
    BY <1>0, <1>2 DEF ScanArrive, Requests
  <2>2. Request(f, S)
    BY <1>2, <2>1 DEF ScanArrive
  <2>3. QueueTypeOK' /\ QInv' /\ running' = running /\ Tables'
    BY <1>0, <1>2, <2>2, RequestStep DEF ScanArrive
  <2>4. RunInv' /\ Runs' /\ Scans'
    BY <1>0, <1>2, <2>3 DEF ScanArrive, RunInv, Runs, Scans
  <2>5. Requests'
    BY <1>0, <1>2 DEF ScanArrive, Requests
  <2> QED
    BY <2>3, <2>4, <2>5
<1>3. ASSUME NEW s \in Scanner, ScanWrite(s)
      PROVE  QueueTypeOK' /\ QInv' /\ RunInv' /\ Tables' /\ Runs' /\ Scans' /\ Requests'
  <2>1. QueueTypeOK' /\ QInv' /\ RunInv' /\ Runs' /\ Requests'
    BY <1>0, <1>3, QueueFrame DEF ScanWrite, queue, RunInv, Runs, Requests
  <2>2. Scans'
    BY <1>0, <1>3, ForgetStep DEF ScanWrite
  <2>3. Tables'
    BY <1>0, <1>3 DEF ScanWrite, Tables, Scans
  <2> QED
    BY <2>1, <2>2, <2>3
<1>4. ASSUME NEW s \in Scanner, ScanError(s)
      PROVE  QueueTypeOK' /\ QInv' /\ RunInv' /\ Tables' /\ Runs' /\ Scans' /\ Requests'
  <2>1. QueueTypeOK' /\ QInv' /\ RunInv' /\ Tables' /\ Runs'
    BY <1>0, <1>4, QueueFrame DEF ScanError, queue, RunInv, Tables, Runs
  <2>2. Scans'
    BY <1>0, <1>4, ForgetStep DEF ScanError
  <2>3. Requests'
    BY <1>0, <1>4, FailIs DEF ScanError, Requests
  <2> QED
    BY <2>1, <2>2, <2>3
<1>5. ASSUME NEW s \in Scanner, ScanLost(s)
      PROVE  QueueTypeOK' /\ QInv' /\ RunInv' /\ Tables' /\ Runs' /\ Scans' /\ Requests'
  <2>1. QueueTypeOK' /\ QInv' /\ RunInv' /\ Tables' /\ Runs'
    BY <1>0, <1>5, QueueFrame DEF ScanLost, queue, RunInv, Tables, Runs
  <2>2. Scans'
    BY <1>0, <1>5, ForgetStep DEF ScanLost
  <2>3. Requests'
    BY <1>0, <1>5, FailIs DEF ScanLost, Requests
  <2> QED
    BY <2>1, <2>2, <2>3
<1>6. ASSUME NEW f \in Factory, ButtonFind(f)
      PROVE  QueueTypeOK' /\ QInv' /\ RunInv' /\ Tables' /\ Runs' /\ Scans' /\ Requests'
  <2>1. QueueTypeOK' /\ QInv' /\ RunInv' /\ Tables' /\ Runs' /\ Scans'
    BY <1>0, <1>6, QueueFrame DEF ButtonFind, queue, RunInv, Tables, Runs, Scans
  <2>2. Requests'
    BY <1>0, <1>6 DEF ButtonFind, Requests
  <2> QED
    BY <2>1, <2>2
<1>7. ASSUME NEW f \in Factory, ButtonAdd(f)
      PROVE  QueueTypeOK' /\ QInv' /\ RunInv' /\ Tables' /\ Runs' /\ Scans' /\ Requests'
  <2>1. PICK T \in Representatives(button[f]) : Request(f, T)
    BY <1>7 DEF ButtonAdd
  <2>2. T \in SUBSET Epc
    BY <1>0, <1>7 DEF ButtonAdd, Representatives, Requests
  <2>3. QueueTypeOK' /\ QInv' /\ running' = running /\ Tables'
    BY <1>0, <1>7, <2>1, <2>2, RequestStep DEF ButtonAdd
  <2>4. RunInv' /\ Runs' /\ Scans'
    BY <1>0, <1>7, <2>3 DEF ButtonAdd, RunInv, Runs, Scans
  <2>5. Requests'
    BY <1>0, <1>7 DEF ButtonAdd, Requests
  <2> QED
    BY <2>3, <2>4, <2>5
<1>8. ASSUME NEW f \in Factory, Check(f)
       PROVE  QueueTypeOK' /\ QInv' /\ RunInv' /\ Tables' /\ Runs' /\ Scans' /\ Requests'
  <2>1. QueueTypeOK' /\ QInv' /\ running' = running
    BY <1>0, <1>8, StallStep DEF Check, Factory
  <2> QED
    BY <1>0, <1>8, <2>1 DEF Check, RunInv, Tables, Runs, Scans, Requests
<1>9. ASSUME NEW w \in Worker, Begin(w)
       PROVE  QueueTypeOK' /\ QInv' /\ RunInv' /\ Tables' /\ Runs' /\ Scans' /\ Requests'
  <2>1. /\ QueueTypeOK' /\ QInv' /\ running'[w] \in Range(wait)
        /\ \A v \in Worker \ {w} : running'[v] = running[v]
    BY <1>0, <1>9, TakeStep DEF Begin
  <2>2. running'[w] # None
    <3>1. Range(wait) \subseteq Job
      BY <1>0, RangeIs DEF QueueTypeOK
    <3> QED
      BY <2>1, <3>1, QueueAssumption
  <2>3. PICK E : E = data[Head(wait)]
    OBVIOUS
  <2>4. E \subseteq Epc
    <3>1. Head(wait) \in Factory
      BY <1>0, <1>9 DEF Begin, Take, QueueTypeOK, Factory
    <3> QED
      BY <1>0, <2>3, <3>1 DEF Tables
  <2>5. stage' = [stage EXCEPT ![w] = "ask"] /\ found' = [found EXCEPT ![w] = E] /\ ordered' = ordered
    BY <1>9, <2>3 DEF Begin, Goto
  <2>6. E \in (SUBSET Command) \cup (SUBSET Epc)
    BY <2>4, InFound
  <2>7. Runs'
    BY <1>0, <2>5, <2>6 DEF Runs
  <2>8. RunInv'
    BY <1>0, <2>1, <2>2, <2>4, <2>5 DEF RunInv, Runs
  <2> QED
    BY <1>0, <1>9, <2>1, <2>7, <2>8 DEF Begin, Tables, Scans, Requests
<1>10. ASSUME NEW w \in Worker, FetchCommands(w)
       PROVE  QueueTypeOK' /\ QInv' /\ RunInv' /\ Tables' /\ Runs' /\ Scans' /\ Requests'
  <2>1. PICK S \in SUBSET (found[w] \cap api) :
          /\ IF S = found[w] \cap api THEN UNCHANGED faults ELSE Fail
          /\ found' = [found EXCEPT ![w] = {CommandOf[e] : e \in S}]
          /\ Goto(w, IF S = {} THEN "end" ELSE "fetch")
    BY <1>10 DEF FetchCommands
  <2>2. PICK C : C = {CommandOf[e] : e \in S}
    OBVIOUS
  <2>3. C \in (SUBSET Command) \cup (SUBSET Epc)
    <3>1. S \subseteq Epc
      BY <1>0, <2>1 DEF Tables
    <3>2. C \subseteq Command
      BY <2>2, <3>1, SyncAssumption
    <3> QED
      BY <3>2, InFound
  <2>4. found' = [found EXCEPT ![w] = C] /\ \E t \in {"end", "fetch"} : stage' = [stage EXCEPT ![w] = t]
    BY <2>1, <2>2 DEF Goto
  <2>5. faults' \in 0..FaultLimit
    BY <1>0, <2>1, FailIs DEF Requests
  <2>6. UNCHANGED <<queue, row, doc, api, erp, data, step, seen, sent, button, ordered>>
    BY <1>10 DEF FetchCommands, Local
  <2>7. QueueTypeOK' /\ QInv' /\ running' = running /\ Tables' /\ Scans' /\ Requests'
    BY <1>0, <2>5, <2>6, QueueFrame DEF queue, Tables, Scans, Requests
  <2>8. Runs'
    BY <1>0, <2>3, <2>4, <2>6 DEF Runs
  <2>9. RunInv'
    BY <1>0, <1>10, <2>4, <2>7 DEF RunInv, Runs, FetchCommands
  <2> QED
    BY <2>7, <2>8, <2>9
<1>11. ASSUME NEW w \in Worker, FetchEpcs(w)
       PROVE  QueueTypeOK' /\ QInv' /\ RunInv' /\ Tables' /\ Runs' /\ Scans' /\ Requests'
  <2>1. PICK E : E = {e \in api : CommandOf[e] \in found[w]}
    OBVIOUS
  <2>2. E \subseteq Epc
    BY <1>0, <2>1 DEF Tables
  <2>3. E \in (SUBSET Command) \cup (SUBSET Epc)
    BY <2>2, InFound
  <2>4. found' = [found EXCEPT ![w] = E] /\ stage' = [stage EXCEPT ![w] = "erp"]
    BY <1>11, <2>1 DEF FetchEpcs, Goto
  <2>5. UNCHANGED <<queue, row, doc, api, erp, data, step, seen, sent, button, ordered, faults>>
    BY <1>11 DEF FetchEpcs, Local
  <2>6. QueueTypeOK' /\ QInv' /\ running' = running /\ Tables' /\ Scans' /\ Requests'
    BY <1>0, <2>5, QueueFrame DEF queue, Tables, Scans, Requests
  <2>7. Runs'
    BY <1>0, <2>3, <2>4, <2>5 DEF Runs
  <2>8. RunInv'
    BY <1>0, <1>11, <2>2, <2>4, <2>6 DEF RunInv, Runs, FetchEpcs
  <2> QED
    BY <2>6, <2>7, <2>8
<1>12. ASSUME NEW w \in Worker, AskErp(w)
       PROVE  QueueTypeOK' /\ QInv' /\ RunInv' /\ Tables' /\ Runs' /\ Scans' /\ Requests'
  <2>1. UNCHANGED <<queue, row, doc, api, erp, data, step, seen, sent, button, found, faults>>
    BY <1>12 DEF AskErp, Local
  <2>2. QueueTypeOK' /\ QInv' /\ running' = running /\ Tables' /\ Scans' /\ Requests'
    BY <1>0, <2>1, QueueFrame DEF queue, Tables, Scans, Requests
  <2>3. stage[w] = "erp" /\ stage' = [stage EXCEPT ![w] = "upsert"]
    BY <1>12 DEF AskErp, Goto
  <2>4. PICK E : E = {e \in found[w] : CommandOf[e] \in erp}
    OBVIOUS
  <2>5. E \subseteq Epc
    BY <1>0, <2>3, <2>4 DEF RunInv
  <2>6. Runs'
    BY <1>0, <1>12, <2>1, <2>3, <2>4, <2>5 DEF AskErp, Runs
  <2>7. RunInv'
    BY <1>0, <2>1, <2>2, <2>3 DEF RunInv, Runs
  <2> QED
    BY <2>2, <2>6, <2>7
<1>13. ASSUME NEW w \in Worker, SyncError(w)
      PROVE  QueueTypeOK' /\ QInv' /\ RunInv' /\ Tables' /\ Runs' /\ Scans' /\ Requests'
  <2>1. UNCHANGED <<queue, row, doc, api, erp, data, step, seen, sent, button>>
    BY <1>13 DEF SyncError, Local
  <2>2. faults' \in 0..FaultLimit
    BY <1>0, <1>13, FailIs DEF SyncError, Requests
  <2>3. QueueTypeOK' /\ QInv' /\ running' = running /\ Tables' /\ Scans' /\ Requests'
    BY <1>0, <2>1, <2>2, QueueFrame DEF queue, Tables, Scans, Requests
  <2>4. running[w] # None
    BY <1>0, <1>13 DEF SyncError, RunInv
  <2>5. RunInv' /\ Runs'
    BY <1>0, <1>13, <2>3, <2>4, LeaveStep DEF SyncError
  <2> QED
    BY <2>3, <2>5
<1>14. ASSUME NEW w \in Worker, Upsert(w)
       PROVE  QueueTypeOK' /\ QInv' /\ RunInv' /\ Tables' /\ Runs' /\ Scans' /\ Requests'
  <2>1. UNCHANGED <<queue, api, erp, data, step, seen, sent, button, faults>>
    BY <1>14 DEF Upsert
  <2>2. QueueTypeOK' /\ QInv' /\ running' = running /\ Scans' /\ Requests'
    BY <1>0, <2>1, QueueFrame DEF queue, Scans, Requests
  <2>3. row' \in [Epc -> Orders] /\ doc' \in [Epc -> Orders \cup {"unknown"}]
    BY <1>0, <1>14 DEF Upsert, Tables, Orders
  <2>4. Tables'
    BY <1>0, <2>1, <2>3 DEF Tables
  <2>5. running[w] # None
    BY <1>0, <1>14 DEF Upsert, RunInv
  <2>6. RunInv' /\ Runs'
    BY <1>0, <1>14, <2>2, <2>5, LeaveStep DEF Upsert
  <2> QED
    BY <2>2, <2>4, <2>6
<1>15. ASSUME NEW w \in Worker, End(w)
       PROVE  QueueTypeOK' /\ QInv' /\ RunInv' /\ Tables' /\ Runs' /\ Scans' /\ Requests'
  <2>1. Busy(w)
    BY <1>0, <1>15 DEF End, Busy, RunInv
  <2>2. QueueTypeOK' /\ QInv' /\ \A v \in Worker \ {w} : running'[v] = running[v]
    BY <1>0, <1>15, <2>1, CompleteStep DEF End
  <2>3. RunInv' /\ Runs'
    BY <1>0, <1>15, <2>2, LeaveStep DEF End
  <2>4. Tables'
    BY <1>0, <1>15 DEF End, Tables
  <2> QED
    BY <1>0, <1>15, <2>2, <2>3, <2>4 DEF End, Scans, Requests
<1>16. ASSUME NEW w \in Worker, Crash(w)
       PROVE  QueueTypeOK' /\ QInv' /\ RunInv' /\ Tables' /\ Runs' /\ Scans' /\ Requests'
  <2>1. QueueTypeOK' /\ QInv'
    BY <1>0, <1>16, LoseStep DEF Crash
  <2>2. \A v \in Worker \ {w} : running'[v] = running[v]
    BY <1>0, <1>16 DEF Crash, Restart, QueueTypeOK
  <2>3. RunInv' /\ Runs'
    BY <1>0, <1>16, <2>2, LeaveStep DEF Crash
  <2>4. faults' \in 0..FaultLimit
    BY <1>0, <1>16, FailIs DEF Crash, Requests
  <2> QED
    BY <1>0, <1>16, <2>1, <2>3, <2>4 DEF Crash, Tables, Scans, Requests
<1>17. ASSUME NEW w \in Worker, LockLost(w)
       PROVE  QueueTypeOK' /\ QInv' /\ RunInv' /\ Tables' /\ Runs' /\ Scans' /\ Requests'
  <2>1. QueueTypeOK' /\ QInv'
    BY <1>0, <1>17, LoseStep DEF LockLost
  <2>2. faults' \in 0..FaultLimit
    BY <1>0, <1>17, FailIs DEF LockLost, Requests
  <2> QED
    BY <1>0, <1>17, <2>1, <2>2 DEF LockLost, LoseLock, RunInv, Tables, Runs, Scans, Requests
<1>18. CASE Learn
  <2>1. QueueTypeOK' /\ QInv' /\ RunInv' /\ Runs' /\ Scans' /\ Requests'
    BY <1>0, <1>18, QueueFrame DEF Learn, queue, RunInv, Runs, Scans, Requests
  <2>2. Tables'
    BY <1>0, <1>18 DEF Learn, Tables
  <2> QED
    BY <2>1, <2>2
<1>19. CASE UNCHANGED vars
  BY <1>0, <1>19, QueueFrame DEF vars, queue, RunInv, Tables, Runs, Scans, Requests
<1> QED
  BY <1>1, <1>2, <1>3, <1>4, <1>5, <1>6, <1>7, <1>8, <1>9, <1>10, <1>11, <1>12, <1>13,
     <1>14, <1>15, <1>16, <1>17, <1>18, <1>19
  DEF Next, Sync

\* The invariant: each factory's job is in one place of the queue, locks
\* belong to workers of active jobs, failed jobs are those that stalled too
\* often, and a run beyond its first step has a job.
THEOREM Inductive == Spec => []IInv
<1>1. Init => IInv
  <2> SUFFICES ASSUME Init PROVE IInv
    OBVIOUS
  <2>1. QueueTypeOK /\ QInv
    BY QueueStart DEF Init
  <2>2. Tables /\ Scans /\ Requests
    BY SyncAssumption DEF Init, NoTags, Orders, Tables, Scans, Requests
  <2>3. Runs
    <3>1. {} \in (SUBSET Command) \cup (SUBSET Epc)
      BY InFound
    <3> QED
      BY <3>1 DEF Init, Runs
  <2>4. RunInv
    BY DEF Init, RunInv
  <2> QED
    BY <2>1, <2>2, <2>3, <2>4, TypeParts DEF IInv
<1> QED
  BY <1>1, Step, PTL DEF Spec

\* The queue, the stores, the runs and the scans stay within their types.
THEOREM TypeCorrect == Spec => []TypeOK
<1>1. IInv => TypeOK
  BY DEF IInv
<1> QED
  BY <1>1, Inductive, PTL

\* Only stalls block a factory's id, whatever calls fail.
THEOREM OnlyStallsBlockAlways == Spec => []OnlyStallsBlock
<1>1. IInv => OnlyStallsBlock
  BY QueueAssumption DEF IInv, QInv, TypeOK, QueueTypeOK, OnlyStallsBlock
<1> QED
  BY <1>1, Inductive, PTL

=============================================================================
