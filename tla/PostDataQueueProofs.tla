------------------------ MODULE PostDataQueueProofs ------------------------
(***************************************************************************)
(* Theorems about PostDataQueue, for any scans, instances and stall limit, *)
(* and about FileLog, the log that has what the consumer could not write.  *)
(***************************************************************************)
EXTENDS PostDataQueue, FileLog, TLAPS

-----------------------------------------------------------------------------
(* The queue.                                                              *)

\* A job is in one place, once, a lock is held by the worker of an active
\* job, and the failed jobs are those that stalled too often.
Distinct(s) == \A a, b \in DOMAIN s : s[a] = s[b] => a = b

QInv ==
  /\ Distinct(wait)
  /\ active \cap Range(wait) = {} /\ failed \cap Range(wait) = {} /\ active \cap failed = {}
  /\ \A j \in Job : j \in failed <=> stalls[j] = MaxStalled + 1
  /\ \A j \in Job : lock[j] # None => j \in active /\ running[lock[j]] = j

LEMMA RangeIs == ASSUME NEW s, NEW x PROVE x \in Range(s) <=> \E a \in DOMAIN s : s[a] = x
BY DEF Range

\* Adding at the front, adding at the end, taking the head.
LEMMA First ==
  ASSUME NEW s \in Seq(Job), NEW j \in Job, j \notin Range(s), Distinct(s)
  PROVE  /\ <<j>> \o s \in Seq(Job)
         /\ Range(<<j>> \o s) = {j} \cup Range(s)
         /\ Distinct(<<j>> \o s)
<1> DEFINE t == <<j>> \o s
<1>1. t \in Seq(Job) /\ Len(t) = Len(s) + 1 /\ t[1] = j /\ \A a \in 1..Len(s) : t[a + 1] = s[a]
  OBVIOUS
<1>2. DOMAIN t = 1..(Len(s) + 1) /\ DOMAIN s = 1..Len(s) /\ Len(s) \in Nat
  BY <1>1
<1> HIDE DEF t
<1>3. \A a \in DOMAIN t : a = 1 \/ (a - 1 \in DOMAIN s /\ t[a] = s[a - 1])
  <2> SUFFICES ASSUME NEW a \in DOMAIN t, a # 1 PROVE a - 1 \in DOMAIN s /\ t[a] = s[a - 1]
    OBVIOUS
  <2>1. a - 1 \in 1..Len(s) /\ (a - 1) + 1 = a
    BY <1>2
  <2> QED
    BY <1>1, <1>2, <2>1
<1>4. Range(t) = {j} \cup Range(s)
  <2>1. \A x : x \in Range(t) => x \in {j} \cup Range(s)
    BY <1>1, <1>3, RangeIs
  <2>2. j \in Range(t)
    BY <1>1, <1>2, RangeIs
  <2>3. \A x : x \in Range(s) => x \in Range(t)
    <3> SUFFICES ASSUME NEW x \in Range(s) PROVE x \in Range(t)
      OBVIOUS
    <3>1. PICK a \in DOMAIN s : s[a] = x
      BY RangeIs
    <3>2. a + 1 \in DOMAIN t /\ t[a + 1] = x
      BY <1>1, <1>2, <3>1
    <3> QED
      BY <3>2, RangeIs
  <2> QED
    BY <2>1, <2>2, <2>3
<1>5. Distinct(t)
  <2> SUFFICES ASSUME NEW a \in DOMAIN t, NEW b \in DOMAIN t, t[a] = t[b] PROVE a = b
    BY DEF Distinct
  <2>1. \A d \in DOMAIN s : s[d] # j
    BY RangeIs
  <2>2. CASE a = 1 \/ b = 1
    BY <1>1, <1>3, <2>1, <2>2
  <2>3. CASE a # 1 /\ b # 1
    <3>1. a - 1 = b - 1
      BY <1>3, <2>3 DEF Distinct
    <3> QED
      BY <1>2, <3>1
  <2> QED
    BY <2>2, <2>3
<1> QED
  BY <1>1, <1>4, <1>5 DEF t

LEMMA Taken ==
  ASSUME NEW s \in Seq(Job), s # <<>>, Distinct(s)
  PROVE  /\ Head(s) \in Job /\ Head(s) \in Range(s) /\ Tail(s) \in Seq(Job)
         /\ Range(Tail(s)) = Range(s) \ {Head(s)}
         /\ Distinct(Tail(s))
<1> DEFINE t == Tail(s)
<1>1. t \in Seq(Job) /\ Len(s) \in Nat \ {0} /\ Len(t) = Len(s) - 1 /\ Head(s) = s[1] /\ Head(s) \in Job
  OBVIOUS
<1>2. \A a \in 1..Len(t) : t[a] = s[a + 1]
  OBVIOUS
<1>3. DOMAIN t = 1..(Len(s) - 1) /\ DOMAIN s = 1..Len(s)
  BY <1>1
<1> HIDE DEF t
<1>4. \A a \in DOMAIN t : a + 1 \in DOMAIN s /\ a + 1 # 1 /\ t[a] = s[a + 1]
  BY <1>1, <1>2, <1>3
<1>5. 1 \in DOMAIN s
  BY <1>1, <1>3
<1>6. Range(t) = Range(s) \ {s[1]}
  <2>1. \A x : x \in Range(t) => x \in Range(s) /\ x # s[1]
    BY <1>4, <1>5, RangeIs DEF Distinct
  <2>2. ASSUME NEW x \in Range(s), x # s[1] PROVE x \in Range(t)
    <3>1. PICK a \in DOMAIN s : s[a] = x
      BY RangeIs
    <3>2. a - 1 \in DOMAIN t /\ a - 1 \in 1..Len(t) /\ (a - 1) + 1 = a
      BY <1>1, <1>3, <2>2, <3>1
    <3>3. t[a - 1] = x
      BY <1>2, <3>1, <3>2
    <3> QED
      BY <3>2, <3>3, RangeIs
  <2> QED
    BY <2>1, <2>2
<1>7. Distinct(t)
  <2> SUFFICES ASSUME NEW a \in DOMAIN t, NEW b \in DOMAIN t, t[a] = t[b] PROVE a = b
    BY DEF Distinct
  <2>1. a + 1 = b + 1
    BY <1>4 DEF Distinct
  <2> QED
    BY <1>3, <2>1
<1>8. s[1] \in Range(s)
  BY <1>5, RangeIs
<1> QED
  BY <1>1, <1>6, <1>7, <1>8 DEF t

LEMMA Empty == Range(<<>>) = {} /\ Distinct(<<>>)
BY DEF Range, Distinct

LEMMA QueueStart == QueueInit => QueueTypeOK /\ QInv
<1> SUFFICES ASSUME QueueInit PROVE QueueTypeOK /\ QInv
  OBVIOUS
<1>1. QueueTypeOK
  BY QueueAssumption DEF QueueInit, QueueTypeOK
<1>2. Range(wait) = {} /\ Distinct(wait)
  BY Empty DEF QueueInit
<1> QED
  BY <1>1, <1>2, QueueAssumption DEF QueueInit, QInv

LEMMA AddFirstStep ==
  ASSUME QueueTypeOK, QInv, NEW j \in Job, ~InUse(j), AddFirst(j)
  PROVE  /\ QueueTypeOK' /\ QInv' /\ running' = running
         /\ \A i \in Job : InUse(i)' <=> InUse(i) \/ i = j
<1>1. /\ wait' = <<j>> \o wait /\ active' = active /\ failed' = failed /\ stalls' = stalls
      /\ lock' = lock /\ running' = running
  BY DEF AddFirst
<1>2. wait' \in Seq(Job) /\ Range(wait') = {j} \cup Range(wait) /\ Distinct(wait')
  BY <1>1, First DEF QueueTypeOK, QInv, InUse
<1>3. QueueTypeOK'
  BY <1>1, <1>2 DEF QueueTypeOK
<1>4. QInv'
  BY <1>1, <1>2 DEF QInv, InUse
<1> QED
  BY <1>1, <1>2, <1>3, <1>4 DEF InUse

\* Every operation of the queue keeps it so; what may be in use afterwards.
LEMMA TakeStep ==
  ASSUME QueueTypeOK, QInv, NEW w \in Worker, Take(w)
  PROVE  /\ QueueTypeOK' /\ QInv'
         /\ running'[w] \in Range(wait) /\ \A v \in Worker \ {w} : running'[v] = running[v]
         /\ \A j \in Job : InUse(j)' <=> InUse(j)
<1>1. PICK h : h = Head(wait)
  OBVIOUS
<1>2. /\ wait' = Tail(wait) /\ active' = active \cup {h} /\ lock' = [lock EXCEPT ![h] = w]
      /\ running' = [running EXCEPT ![w] = h] /\ failed' = failed /\ stalls' = stalls
      /\ wait \in Seq(Job) /\ wait # <<>> /\ running[w] = None
  BY <1>1 DEF Take, QueueTypeOK, Busy
<1>3. /\ h \in Job /\ h \in Range(wait) /\ wait' \in Seq(Job)
      /\ Range(wait') = Range(wait) \ {h} /\ Distinct(wait')
  BY <1>1, <1>2, Taken DEF QInv
<1>4. QueueTypeOK'
  BY <1>2, <1>3 DEF QueueTypeOK
<1>5. /\ active' \cap Range(wait') = {} /\ failed' \cap Range(wait') = {} /\ active' \cap failed' = {}
  BY <1>2, <1>3 DEF QInv
<1>6. \A j \in Job : lock'[j] # None => j \in active' /\ running'[lock'[j]] = j
  BY <1>2, <1>3, QueueAssumption DEF QInv, QueueTypeOK
<1>7. QInv'
  BY <1>2, <1>3, <1>5, <1>6 DEF QInv
<1>8. running'[w] = h /\ \A v \in Worker \ {w} : running'[v] = running[v]
  BY <1>2 DEF QueueTypeOK
<1>9. \A j \in Job : InUse(j)' <=> InUse(j)
  BY <1>2, <1>3 DEF InUse
<1> QED
  BY <1>3, <1>4, <1>7, <1>8, <1>9

LEMMA CompleteStep ==
  ASSUME QueueTypeOK, QInv, NEW w \in Worker, Busy(w), Complete(w)
  PROVE  /\ QueueTypeOK' /\ QInv'
         /\ running'[w] = None /\ \A v \in Worker \ {w} : running'[v] = running[v]
         /\ \A j \in Job : j # running[w] => (InUse(j)' <=> InUse(j))
         /\ \A j \in Job : InUse(j)' => InUse(j)
<1>1. PICK j : j = running[w]
  OBVIOUS
<1>2. j \in Job
  BY <1>1 DEF Busy, QueueTypeOK
<1>3. running' = [running EXCEPT ![w] = None] /\ wait' = wait /\ failed' = failed
  BY DEF Complete
<1>4. CASE lock[j] = w
  <2>1. lock' = [lock EXCEPT ![j] = None] /\ active' = active \ {j} /\ stalls' = [stalls EXCEPT ![j] = 0]
    BY <1>1, <1>4 DEF Complete
  <2>2. j \in active /\ j \notin failed
    BY <1>2, <1>4, QueueAssumption DEF QInv
  <2>3. QueueTypeOK'
    BY <1>2, <1>3, <2>1, QueueAssumption DEF QueueTypeOK
  <2>4. \A i \in Job : i \in failed' <=> stalls'[i] = MaxStalled + 1
    BY <1>2, <1>3, <2>1, <2>2, QueueAssumption DEF QInv, QueueTypeOK
  <2>5. \A i \in Job : lock'[i] # None => i \in active' /\ running'[lock'[i]] = i
    BY <1>1, <1>2, <1>3, <2>1, QueueAssumption DEF QInv, QueueTypeOK
  <2>6. QInv'
    BY <1>3, <2>1, <2>4, <2>5 DEF QInv
  <2> QED
    BY <1>1, <1>3, <2>1, <2>3, <2>6 DEF QueueTypeOK, InUse
<1>5. CASE lock[j] # w
  <2>1. lock' = lock /\ active' = active /\ stalls' = stalls
    BY <1>1, <1>5 DEF Complete
  <2>2. QueueTypeOK'
    BY <1>3, <2>1 DEF QueueTypeOK
  <2>3. \A i \in Job : lock'[i] # None => i \in active' /\ running'[lock'[i]] = i
    BY <1>1, <1>3, <1>5, <2>1, QueueAssumption DEF QInv, QueueTypeOK
  <2>4. QInv'
    BY <1>3, <2>1, <2>3 DEF QInv
  <2> QED
    BY <1>1, <1>3, <2>1, <2>2, <2>4 DEF QueueTypeOK, InUse
<1> QED
  BY <1>4, <1>5

LEMMA LoseStep ==
  ASSUME QueueTypeOK, QInv, NEW w \in Worker, LoseLock(w) \/ Restart(w)
  PROVE  /\ QueueTypeOK' /\ QInv'
         /\ \A j \in Job : InUse(j)' <=> InUse(j)
<1>1. lock' = [j \in Job |-> IF lock[j] = w THEN None ELSE lock[j]]
  BY DEF LoseLock, Restart, Unlock
<1>2. wait' = wait /\ active' = active /\ failed' = failed /\ stalls' = stalls
  BY DEF LoseLock, Restart
<1>3. running' = running \/ running' = [running EXCEPT ![w] = None]
  BY DEF LoseLock, Restart
<1>4. QueueTypeOK'
  BY <1>1, <1>2, <1>3 DEF QueueTypeOK
<1>5. \A j \in Job : lock'[j] # None => j \in active' /\ running'[lock'[j]] = j
  BY <1>1, <1>2, <1>3, QueueAssumption DEF QInv, QueueTypeOK
<1> QED
  BY <1>2, <1>4, <1>5 DEF QInv, InUse

LEMMA StallStep ==
  ASSUME QueueTypeOK, QInv, NEW j \in Job, Stall(j)
  PROVE  /\ QueueTypeOK' /\ QInv' /\ running' = running
         /\ \A i \in Job : InUse(i)' <=> InUse(i)
<1>1. /\ j \in active /\ lock[j] = None /\ active' = active \ {j} /\ lock' = lock /\ running' = running
      /\ stalls' = [stalls EXCEPT ![j] = @ + 1]
  BY DEF Stall
<1>2. j \notin failed /\ j \notin Range(wait) /\ stalls[j] \in 0..MaxStalled
  BY <1>1, QueueAssumption DEF QInv, QueueTypeOK
<1>3. \A i \in Job : lock'[i] # None => i \in active' /\ running'[lock'[i]] = i
  BY <1>1 DEF QInv
<1>4. stalls' \in [Job -> 0..(MaxStalled + 1)]
  BY <1>1, <1>2, QueueAssumption DEF QueueTypeOK
<1>5. CASE stalls[j] = MaxStalled
  <2>1. failed' = failed \cup {j} /\ wait' = wait
    BY <1>5 DEF Stall
  <2>2. QueueTypeOK'
    BY <1>1, <1>4, <2>1 DEF QueueTypeOK
  <2>3. \A i \in Job : i \in failed' <=> stalls'[i] = MaxStalled + 1
    BY <1>1, <1>5, <2>1, QueueAssumption DEF QInv, QueueTypeOK
  <2> QED
    BY <1>1, <1>2, <1>3, <2>1, <2>2, <2>3 DEF QInv, InUse
<1>6. CASE stalls[j] # MaxStalled
  <2>1. wait' = <<j>> \o wait /\ failed' = failed
    BY <1>6 DEF Stall
  <2>2. wait' \in Seq(Job) /\ Range(wait') = {j} \cup Range(wait) /\ Distinct(wait')
    BY <1>2, <2>1, First DEF QueueTypeOK, QInv
  <2>3. QueueTypeOK'
    BY <1>1, <1>4, <2>1, <2>2 DEF QueueTypeOK
  <2>4. \A i \in Job : i \in failed' <=> stalls'[i] = MaxStalled + 1
    BY <1>1, <1>2, <1>6, <2>1, QueueAssumption DEF QInv, QueueTypeOK
  <2>5. active' \cap Range(wait') = {} /\ failed' \cap Range(wait') = {} /\ active' \cap failed' = {}
    BY <1>1, <1>2, <2>1, <2>2 DEF QInv
  <2>6. QInv'
    BY <1>3, <2>2, <2>4, <2>5 DEF QInv
  <2> QED
    BY <1>1, <2>1, <2>2, <2>3, <2>6 DEF InUse
<1> QED
  BY <1>5, <1>6

-----------------------------------------------------------------------------
(* The scans.                                                              *)

\* A worker at its end has written or logged its scan; only posted scans are
\* in the queue or with a worker.
ScanInv ==
  /\ \A w \in Worker : stage[w] = "idle" <=> running[w] = None
  /\ \A w \in Worker : running[w] # None => running[w] \in posted
  /\ \A w \in Worker : stage[w] = "end" => running[w] \in written \cup logged
  /\ \A j \in Job : InUse(j) => j \in posted
  /\ NoScanForgotten

IInv == TypeOK /\ QInv /\ ScanInv

\* A cleaning takes unlocked jobs out of one list and resets their stalls.
LEMMA CleanStep ==
  ASSUME IInv, NEW S \in SUBSET Job, \A j \in S : InUse(j) /\ lock[j] = None,
         \/ S = Range(wait) /\ wait' = <<>> /\ active' = active /\ failed' = failed
         \/ S \subseteq active /\ wait' = wait /\ active' = active \ S /\ failed' = failed
         \/ S \subseteq failed /\ wait' = wait /\ active' = active /\ failed' = failed \ S,
         stalls' = [j \in Job |-> IF j \in S THEN 0 ELSE stalls[j]], removed' = removed \cup S,
         cleaning' \subseteq cleaning,
         UNCHANGED <<lock, running, stage, old, posted, written, logged>>
  PROVE  IInv'
<1> USE DEF IInv
<1>1. QueueTypeOK'
  <2>1. wait' \in Seq(Job)
    <3>1. wait' = <<>> \/ wait' = wait
      OBVIOUS
    <3>2. <<>> \in Seq(Job) /\ wait \in Seq(Job)
      BY DEF TypeOK, QueueTypeOK
    <3> QED
      BY <3>1, <3>2
  <2>2. stalls' \in [Job -> 0..(MaxStalled + 1)]
    BY QueueAssumption DEF TypeOK, QueueTypeOK
  <2>3. active' \subseteq Job /\ failed' \subseteq Job
    BY DEF TypeOK, QueueTypeOK
  <2> QED
    BY <2>1, <2>2, <2>3 DEF TypeOK, QueueTypeOK
<1>2. Range(wait') \subseteq Range(wait) /\ Distinct(wait')
  BY Empty DEF QInv
<1>3. active' \cap Range(wait') = {} /\ failed' \cap Range(wait') = {} /\ active' \cap failed' = {}
  BY <1>2 DEF QInv
<1>4. \A j \in Job : InUse(j)' <=> InUse(j) /\ j \notin S
  BY Empty DEF InUse, QInv
<1>5. \A j \in Job : j \in failed' <=> stalls'[j] = MaxStalled + 1
  BY QueueAssumption DEF QInv, TypeOK, QueueTypeOK
<1>6. \A j \in Job : lock'[j] # None => j \in active' /\ running'[lock'[j]] = j
  BY DEF QInv
<1>7. QInv'
  BY <1>2, <1>3, <1>5, <1>6 DEF QInv
<1>8. TypeOK'
  BY <1>1 DEF TypeOK
<1>9. ScanInv'
  BY <1>4 DEF ScanInv, NoScanForgotten, TypeOK
<1> QED
  BY <1>7, <1>8, <1>9

LEMMA QueueFrame == UNCHANGED queue /\ QueueTypeOK /\ QInv => QueueTypeOK' /\ QInv' /\ \A j \in Job : InUse(j)' <=> InUse(j)
BY DEF queue, QueueTypeOK, QInv, InUse

LEMMA Step == IInv /\ [Next]_vars => IInv'
<1> SUFFICES ASSUME IInv, [Next]_vars PROVE IInv'
  OBVIOUS
<1> USE DEF IInv, history
<1>0. QueueTypeOK
  BY DEF TypeOK
<1>1. ASSUME NEW j \in Job, Post(j) PROVE IInv'
  <2>1. ~InUse(j)
    BY <1>1 DEF ScanInv, Post
  <2>2. QueueTypeOK' /\ QInv' /\ running' = running /\ \A i \in Job : InUse(i)' <=> InUse(i) \/ i = j
    BY <1>0, <1>1, <2>1, AddFirstStep DEF Post
  <2> QED
    BY <1>1, <2>2 DEF Post, TypeOK, ScanInv, NoScanForgotten
<1>2. ASSUME NEW j \in Job, Age(j) PROVE IInv'
  <2>1. QueueTypeOK' /\ QInv' /\ \A i \in Job : InUse(i)' <=> InUse(i)
    BY <1>0, <1>2, QueueFrame DEF Age
  <2> QED
    BY <1>2, <2>1 DEF Age, TypeOK, ScanInv, NoScanForgotten, queue
<1>3. ASSUME NEW j \in Job, Check(j) PROVE IInv'
  <2>1. QueueTypeOK' /\ QInv' /\ running' = running /\ \A i \in Job : InUse(i)' <=> InUse(i)
    BY <1>0, <1>3, StallStep DEF Check
  <2> QED
    BY <1>3, <2>1 DEF Check, TypeOK, ScanInv, NoScanForgotten
<1>4. ASSUME NEW w \in Worker, Begin(w) PROVE IInv'
  <2>1. /\ QueueTypeOK' /\ QInv' /\ \A i \in Job : InUse(i)' <=> InUse(i)
        /\ running'[w] \in Range(wait) /\ \A v \in Worker \ {w} : running'[v] = running[v]
    BY <1>0, <1>4, TakeStep DEF Begin
  <2>2. /\ stage' = [stage EXCEPT ![w] = "read"]
        /\ old' = old /\ cleaning' = cleaning /\ posted' = posted /\ written' = written /\ logged' = logged /\ removed' = removed
    BY <1>4 DEF Begin
  <2>3. running'[w] \in Job /\ running'[w] \in posted
    <3>1. Range(wait) \subseteq Job
      BY <1>0, RangeIs DEF QueueTypeOK
    <3> QED
      BY <2>1, <3>1 DEF ScanInv, InUse
  <2>4. ScanInv'
    BY <2>1, <2>2, <2>3, QueueAssumption DEF ScanInv, NoScanForgotten, TypeOK
  <2> QED
    BY <2>1, <2>2, <2>4 DEF TypeOK
<1>5. ASSUME NEW w \in Worker, Read(w) \/ GiveUp(w) \/ Write(w) PROVE IInv'
  <2>1. /\ QueueTypeOK' /\ QInv' /\ \A i \in Job : InUse(i)' <=> InUse(i)
    BY <1>0, <1>5, QueueFrame DEF Read, GiveUp, Write
  <2>2. running' = running /\ running[w] # None /\ running[w] \in Job
    BY <1>0, <1>5 DEF Read, GiveUp, Write, queue, ScanInv, QueueTypeOK
  <2>3. TypeOK'
    BY <1>5, <2>1, <2>2 DEF Read, GiveUp, Write, TypeOK
  <2>4. ScanInv'
    BY <1>5, <2>1, <2>2 DEF Read, GiveUp, Write, ScanInv, NoScanForgotten, TypeOK
  <2> QED
    BY <2>1, <2>3, <2>4
<1>6. ASSUME NEW w \in Worker, End(w) PROVE IInv'
  <2>1. Busy(w) /\ running[w] \in written \cup logged
    BY <1>6 DEF End, Busy, ScanInv
  <2>2. /\ QueueTypeOK' /\ QInv'
        /\ running'[w] = None /\ \A v \in Worker \ {w} : running'[v] = running[v]
        /\ \A j \in Job : j # running[w] => (InUse(j)' <=> InUse(j))
        /\ \A j \in Job : InUse(j)' => InUse(j)
    BY <1>0, <1>6, <2>1, CompleteStep DEF End
  <2>3. /\ stage' = [stage EXCEPT ![w] = "idle"]
        /\ old' = old /\ cleaning' = cleaning /\ posted' = posted /\ written' = written /\ logged' = logged /\ removed' = removed
    BY <1>6 DEF End
  <2>4. NoScanForgotten'
    BY <2>1, <2>2, <2>3 DEF NoScanForgotten, ScanInv, TypeOK
  <2> QED
    BY <2>2, <2>3, <2>4 DEF TypeOK, ScanInv
<1>7. ASSUME NEW w \in Worker, Fault(w) PROVE IInv'
  <2>1. QueueTypeOK' /\ QInv' /\ \A i \in Job : InUse(i)' <=> InUse(i)
    BY <1>0, <1>7, LoseStep DEF Fault
  <2> QED
    BY <1>7, <2>1 DEF Fault, LoseLock, TypeOK, ScanInv, NoScanForgotten
<1>8. ASSUME NEW w \in Worker, Crash(w) PROVE IInv'
  <2>1. QueueTypeOK' /\ QInv' /\ \A i \in Job : InUse(i)' <=> InUse(i)
    BY <1>0, <1>8, LoseStep DEF Crash
  <2>2. /\ running' = [running EXCEPT ![w] = None] /\ stage' = [stage EXCEPT ![w] = "idle"]
        /\ UNCHANGED <<old, cleaning, history>>
    BY <1>8 DEF Crash, Restart
  <2> QED
    BY <1>0, <2>1, <2>2 DEF QueueTypeOK, TypeOK, ScanInv, NoScanForgotten
<1>9. CASE Close
  <2>1. QueueTypeOK' /\ QInv' /\ \A i \in Job : InUse(i)' <=> InUse(i)
    BY <1>0, <1>9, QueueFrame DEF Close
  <2> QED
    BY <1>9, <2>1 DEF Close, TypeOK, ScanInv, NoScanForgotten, queue
<1>10. CASE Drain
  <2>1. PICK S : S = Range(wait)
    OBVIOUS
  <2>2. S \subseteq Job /\ \A j \in S : InUse(j) /\ lock[j] = None
    <3>1. S \subseteq Job
      BY <1>0, <2>1, RangeIs DEF QueueTypeOK
    <3> QED
      BY <2>1, <3>1 DEF InUse, QInv
  <2>3. /\ wait' = <<>> /\ active' = active /\ failed' = failed /\ removed' = removed \cup S
        /\ stalls' = [j \in Job |-> IF j \in S THEN 0 ELSE stalls[j]] /\ cleaning' \subseteq cleaning
        /\ UNCHANGED <<lock, running, stage, old, posted, written, logged>>
    BY <1>10, <2>1 DEF Drain
  <2> QED
    BY <2>1, <2>2, <2>3, CleanStep
<1>11. CASE CleanActive
  <2>1. PICK S : S = {j \in active \cap old : lock[j] = None}
    OBVIOUS
  <2>2. S \subseteq Job /\ \A j \in S : InUse(j) /\ lock[j] = None
    BY <1>0, <2>1 DEF InUse, QueueTypeOK
  <2>3. /\ wait' = wait /\ active' = active \ S /\ S \subseteq active /\ failed' = failed /\ removed' = removed \cup S
        /\ stalls' = [j \in Job |-> IF j \in S THEN 0 ELSE stalls[j]] /\ cleaning' \subseteq cleaning
        /\ UNCHANGED <<lock, running, stage, old, posted, written, logged>>
    BY <1>11, <2>1 DEF CleanActive
  <2> QED
    BY <2>2, <2>3, CleanStep
<1>12. CASE CleanFailed
  <2>1. PICK S : S = failed \cap old
    OBVIOUS
  <2>2. S \subseteq Job /\ \A j \in S : InUse(j) /\ lock[j] = None
    BY <1>0, <2>1 DEF InUse, QueueTypeOK, QInv
  <2>3. /\ wait' = wait /\ active' = active /\ S \subseteq failed /\ failed' = failed \ S /\ removed' = removed \cup S
        /\ stalls' = [j \in Job |-> IF j \in S THEN 0 ELSE stalls[j]] /\ cleaning' \subseteq cleaning
        /\ UNCHANGED <<lock, running, stage, old, posted, written, logged>>
    BY <1>12, <2>1 DEF CleanFailed
  <2> QED
    BY <2>2, <2>3, CleanStep
<1>13. CASE UNCHANGED vars
  <2>1. QueueTypeOK' /\ QInv' /\ \A i \in Job : InUse(i)' <=> InUse(i)
    BY <1>0, <1>13, QueueFrame DEF vars
  <2> QED
    BY <1>13, <2>1 DEF vars, TypeOK, ScanInv, NoScanForgotten, queue
<1> QED
  BY <1>1, <1>2, <1>3, <1>4, <1>5, <1>6, <1>7, <1>8, <1>9, <1>10, <1>11, <1>12, <1>13
  DEF Next, Work, Clean

\* The invariant: each scan is in one place of the queue, locks belong to
\* workers of active scans, and a worker's end has a trace.
THEOREM Inductive == Spec => []IInv
<1>1. Init => IInv
  <2> SUFFICES ASSUME Init PROVE IInv
    OBVIOUS
  <2>1. QueueTypeOK /\ QInv
    BY QueueStart DEF Init
  <2>2. TypeOK
    BY <2>1 DEF Init, TypeOK
  <2>3. \A j : ~InUse(j)
    BY Empty DEF Init, QueueInit, InUse
  <2>4. ScanInv
    BY <2>3 DEF Init, QueueInit, ScanInv, NoScanForgotten
  <2> QED
    BY <2>1, <2>2, <2>4 DEF IInv
<1> QED
  BY <1>1, Step, PTL DEF Spec

\* The queue, the workers and the histories stay within their types.
THEOREM TypeCorrect == Spec => []TypeOK
<1>1. IInv => TypeOK
  BY DEF IInv
<1> QED
  BY <1>1, Inductive, PTL

\* No accepted scan is silently gone, whatever crashes, stalls and cleanings
\* there are.
THEOREM NoScanForgottenAlways == Spec => []NoScanForgotten
<1>1. IInv => NoScanForgotten
  BY DEF IInv, ScanInv
<1> QED
  BY <1>1, Inductive, PTL

\* A scan whose lock its worker holds stays in the active list.
THEOREM LockedIsActiveAlways == Spec => []LockedIsActive
<1>1. IInv => LockedIsActive
  BY QueueAssumption DEF IInv, QInv, TypeOK, QueueTypeOK, LockedIsActive, Busy
<1> QED
  BY <1>1, Inductive, PTL

-----------------------------------------------------------------------------
(* The delivery of scans that the queue implements.                        *)

\* What a step does to the open and the blocked scans, in terms of the queue.
Same == UNCHANGED <<Range(wait) \cup active, failed, posted, written, logged, removed>>

LEMMA SameStutters == ASSUME Same PROVE UNCHANGED Delivery!vars
  BY DEF Same, Delivery!vars

LEMMA DeliveryInit == ASSUME Init PROVE Delivery!Init
  BY Empty DEF Init, QueueInit, Delivery!Init

\* Stalling moves a scan within the queue, or blocks it.
LEMMA DeliveryStall ==
  ASSUME IInv, NEW j \in Job, Check(j)
  PROVE  Same \/ Delivery!Block(j)
<1>1. /\ j \in active /\ active' = active \ {j} /\ j \notin Range(wait) /\ wait \in Seq(Job)
      /\ posted' = posted /\ written' = written /\ logged' = logged /\ removed' = removed
      /\ Distinct(wait)
  BY DEF Check, Stall, IInv, QInv, TypeOK, QueueTypeOK, history
<1>2. CASE stalls[j] = MaxStalled
  <2>1. failed' = failed \cup {j} /\ wait' = wait
    BY <1>2 DEF Check, Stall
  <2> QED
    BY <1>1, <2>1 DEF Delivery!Block
<1>3. CASE stalls[j] # MaxStalled
  <2>1. failed' = failed /\ wait' = <<j>> \o wait
    BY <1>3 DEF Check, Stall
  <2>2. Range(wait') = {j} \cup Range(wait)
    BY <1>1, <2>1, First
  <2> QED
    BY <1>1, <2>1, <2>2 DEF Same
<1> QED
  BY <1>2, <1>3

\* A worker that completes its scan settles it, unless the scan is another's.
LEMMA DeliveryEnd ==
  ASSUME IInv, NEW w \in Worker, End(w)
  PROVE  Same \/ \E j \in Job : Delivery!Settle(j)
<1>1. PICK j : j = running[w]
  OBVIOUS
<1>2. j \in Job /\ j \in written \cup logged
  BY <1>1, QueueAssumption DEF End, IInv, ScanInv, TypeOK, QueueTypeOK
<1>3. /\ wait' = wait /\ failed' = failed
      /\ posted' = posted /\ written' = written /\ logged' = logged /\ removed' = removed
  BY DEF End, Complete, history
<1>4. CASE lock[j] = w
  <2>1. active' = active \ {j} /\ j \in active /\ j \notin Range(wait)
    BY <1>1, <1>2, <1>4, QueueAssumption DEF End, Complete, IInv, QInv
  <2> QED
    BY <1>2, <1>3, <2>1 DEF Delivery!Settle
<1>5. CASE lock[j] # w
  <2>1. active' = active
    BY <1>1, <1>5 DEF End, Complete
  <2> QED
    BY <1>3, <2>1 DEF Same
<1> QED
  BY <1>4, <1>5

\* A cleaning removes scans that are open or blocked.
LEMMA DeliveryClean ==
  ASSUME IInv, Clean
  PROVE  \E S \in SUBSET Job : Delivery!Remove(S)
<1>0. /\ Range(wait) \subseteq Job /\ active \subseteq Job /\ failed \subseteq Job
      /\ active \cap Range(wait) = {} /\ failed \cap Range(wait) = {} /\ active \cap failed = {}
  BY RangeIs DEF IInv, TypeOK, QueueTypeOK, QInv
<1>1. CASE Drain
  <2>1. /\ Range(wait') = {} /\ active' = active /\ failed' = failed
        /\ removed' = removed \cup Range(wait)
        /\ posted' = posted /\ written' = written /\ logged' = logged
    BY <1>1, Empty DEF Drain
  <2>2. Delivery!Remove(Range(wait))
    BY <1>0, <2>1 DEF Delivery!Remove
  <2> QED
    BY <1>0, <2>2
<1>2. CASE CleanActive
  <2>1. PICK S : S = {j \in active \cap old : lock[j] = None}
    OBVIOUS
  <2>2. /\ S \subseteq active /\ wait' = wait /\ active' = active \ S /\ failed' = failed
        /\ removed' = removed \cup S
        /\ posted' = posted /\ written' = written /\ logged' = logged
    BY <1>2, <2>1 DEF CleanActive
  <2>3. Delivery!Remove(S)
    BY <1>0, <2>2 DEF Delivery!Remove
  <2> QED
    BY <1>0, <2>2, <2>3
<1>3. CASE CleanFailed
  <2>1. /\ wait' = wait /\ active' = active /\ failed' = failed \ (failed \cap old)
        /\ removed' = removed \cup (failed \cap old)
        /\ posted' = posted /\ written' = written /\ logged' = logged
    BY <1>3 DEF CleanFailed
  <2>2. Delivery!Remove(failed \cap old)
    BY <1>0, <2>1 DEF Delivery!Remove
  <2> QED
    BY <1>0, <2>2
<1> QED
  BY <1>1, <1>2, <1>3 DEF Clean

LEMMA DeliveryStep == ASSUME IInv, [Next]_vars PROVE [Delivery!Next]_(Delivery!vars)
<1> USE DEF history
<1>1. ASSUME NEW j \in Job, Post(j) PROVE Delivery!Accept(j)
  <2>1. /\ wait' = <<j>> \o wait /\ active' = active /\ failed' = failed
        /\ j \notin posted /\ posted' = posted \cup {j}
        /\ written' = written /\ logged' = logged /\ removed' = removed
    BY <1>1 DEF Post, AddFirst
  <2>2. j \notin Range(wait) /\ wait \in Seq(Job) /\ Distinct(wait)
    BY <2>1 DEF IInv, ScanInv, InUse, QInv, TypeOK, QueueTypeOK
  <2>3. Range(wait') = {j} \cup Range(wait)
    BY <2>1, <2>2, First
  <2> QED
    BY <2>1, <2>3 DEF Delivery!Accept
<1>2. ASSUME NEW w \in Worker, Begin(w) PROVE Same
  <2>1. /\ wait # <<>> /\ wait' = Tail(wait) /\ active' = active \cup {Head(wait)} /\ failed' = failed
        /\ posted' = posted /\ written' = written /\ logged' = logged /\ removed' = removed
        /\ wait \in Seq(Job) /\ Distinct(wait)
    BY <1>2 DEF Begin, Take, IInv, QInv, TypeOK, QueueTypeOK
  <2>2. Range(wait') = Range(wait) \ {Head(wait)} /\ Head(wait) \in Range(wait)
    BY <2>1, Taken
  <2> QED
    BY <2>1, <2>2 DEF Same
<1>3. ASSUME NEW w \in Worker, GiveUp(w) \/ Write(w) PROVE \E j \in Job : Delivery!Result(j)
  <2>1. running[w] \in Job /\ running[w] \in posted
    BY <1>3 DEF GiveUp, Write, IInv, ScanInv, TypeOK, QueueTypeOK
  <2>2. Delivery!Result(running[w])
    BY <1>3, <2>1 DEF GiveUp, Write, queue, Delivery!Result
  <2> QED
    BY <2>1, <2>2
<1>4. ASSUME NEW w \in Worker, Read(w) \/ Fault(w) \/ Crash(w) PROVE Same
  BY <1>4 DEF Read, Fault, LoseLock, Crash, Restart, queue, Same
<1>5. ASSUME NEW j \in Job, Age(j) PROVE Same
  BY <1>5 DEF Age, queue, Same
<1>6. ASSUME Close PROVE Same
  BY <1>6 DEF Close, queue, Same
<1>7. ASSUME UNCHANGED vars PROVE Same
  BY <1>7 DEF vars, queue, Same
<1>8. ASSUME NEW j \in Job, Check(j) PROVE Same \/ Delivery!Next
  BY <1>8, DeliveryStall DEF Delivery!Next
<1>9. ASSUME NEW w \in Worker, End(w) PROVE Same \/ Delivery!Next
  BY <1>9, DeliveryEnd DEF Delivery!Next
<1>10. ASSUME Clean PROVE Delivery!Next
  BY <1>10, DeliveryClean DEF Delivery!Next
<1>11. ASSUME NEW w \in Worker, Work(w) PROVE Same \/ Delivery!Next
  BY <1>2, <1>3, <1>4, <1>9, <1>11 DEF Work, Delivery!Next
<1>12. Same \/ Delivery!Next
  BY <1>1, <1>4, <1>5, <1>6, <1>7, <1>8, <1>10, <1>11 DEF Next, Delivery!Next
<1> QED
  BY <1>12, SameStutters

\* The queue implements ScanDelivery, for any number of scans, instances and
\* stalls: a scan that has left is not taken again, and none leaves without a
\* result unless it is blocked or removed.
THEOREM DeliveryImplemented == Spec => ImplementsDelivery
<1>1. Init => Delivery!Init
  BY DeliveryInit
<1>2. IInv /\ [Next]_vars => [Delivery!Next]_(Delivery!vars)
  BY DeliveryStep
<1> QED
  BY <1>1, <1>2, Inductive, PTL DEF Spec, ImplementsDelivery, Delivery!Spec

-----------------------------------------------------------------------------
(* The log files.                                                          *)

\* Nothing is at the head of everything; what is put before both stays at
\* the head, whatever follows.
LEMMA EmptyAtHead == ASSUME NEW t \in Seq(Entry) PROVE AtHead(<<>>, t)
  BY DEF AtHead

LEMMA PushAtHead ==
  ASSUME NEW s \in Seq(Entry), NEW t \in Seq(Entry), NEW r \in Seq(Entry), NEW e \in Entry,
         AtHead(s, t)
  PROVE  AtHead(<<e>> \o s, <<e>> \o t \o r)
<1> DEFINE a == <<e>> \o s
           b == <<e>> \o t \o r
<1>1. /\ a \in Seq(Entry) /\ Len(a) = Len(s) + 1 /\ a[1] = e
      /\ \A i \in 1..Len(s) : a[i + 1] = s[i]
  OBVIOUS
<1>2. /\ b \in Seq(Entry) /\ Len(b) = Len(t) + Len(r) + 1 /\ b[1] = e
      /\ \A i \in 1..Len(t) : b[i + 1] = t[i]
  OBVIOUS
<1>3. Len(s) <= Len(t) /\ (\A i \in 1..Len(s) : s[i] = t[i])
  BY DEF AtHead
<1>4. Len(s) \in Nat /\ Len(t) \in Nat /\ Len(r) \in Nat
  OBVIOUS
<1> HIDE DEF a, b
<1>5. ASSUME NEW i \in 1..Len(a) PROVE a[i] = b[i]
  <2>1. CASE i = 1
    BY <1>1, <1>2, <2>1
  <2>2. CASE i # 1
    <3>1. i - 1 \in 1..Len(s) /\ i - 1 \in 1..Len(t) /\ (i - 1) + 1 = i
      BY <1>1, <1>3, <1>4, <2>2
    <3> QED
      BY <1>1, <1>2, <1>3, <3>1
  <2> QED
    BY <2>1, <2>2
<1>6. Len(a) <= Len(b)
  BY <1>1, <1>2, <1>3, <1>4
<1> QED
  BY <1>5, <1>6 DEF AtHead, a, b

\* What remains of an overwritten file is a sequence of entries.
LEMMA RestType == ASSUME NEW s \in Seq(Entry), NEW r \in Rest(s) PROVE r \in Seq(Entry)
<1>1. CASE s = <<>>
  BY <1>1 DEF Rest
<1>2. CASE s # <<>>
  <2>1. PICK k \in 2..(Len(s) + 1) : r = SubSeq(s, k, Len(s))
    BY <1>2 DEF Rest
  <2> QED
    BY <2>1
<1> QED
  BY <1>1, <1>2

\* A rewrite that is alone has read what was logged since the last upset, and
\* finds the file as empty as it made it; where two meet nothing is promised.
Alone(f) ==
  \A p \in Rewriting(f) :
    /\ alone[p] => Rewriting(f) = {p}
    /\ ~alone[p] => since[f] = <<>>
    /\ alone[p] => AtHead(since[f], data[p])
    /\ alone[p] /\ pc[p] = "open" => file[f] = <<>>

Headed(f) == AtHead(since[f], file[f]) \/ \E p \in Rewriting(f) : pc[p] = "open" /\ alone[p]

LogInv == LogTypeOK /\ \A f \in LogFile : Alone(f) /\ Headed(f)

\* The steps, the six callers as one.
LEMMA LogCases ==
  ASSUME [LogNext]_logVars
  PROVE  \/ \E p \in Instance : \/ Boot(p) \/ Create(p) \/ Ready(p) \/ Open(p) \/ Overwrite(p)
                                \/ Throw(p) \/ Kill(p) \/ Midnight(p) \/ Look(p) \/ Rotate(p)
                                \/ \E f \in LogFile, e \in Entry : Rewrite(p, f, e)
         \/ UNCHANGED logVars
<1>1. "info" \in LogFile /\ "error" \in LogFile
  BY DEF LogFile
<1>2. \A p \in Instance, e \in Entry :
        Swallow(p, e) \/ Catch(p, e) \/ ApiAnswered(p, e) \/ ApiFailed(p, e)
          \/ JobCompleted(p, e) \/ JobFailed(p, e)
          => \E f \in LogFile : Rewrite(p, f, e)
  BY <1>1 DEF Swallow, Catch, ApiAnswered, ApiFailed, JobCompleted, JobFailed
<1> QED
  BY <1>2 DEF LogNext

LEMMA LogInitInv == ASSUME LogInit PROVE LogInv
<1>1. LogTypeOK
  BY DEF LogInit, LogTypeOK
<1>2. \A f \in LogFile : Rewriting(f) = {}
  BY DEF LogInit, Rewriting
<1>3. \A f \in LogFile : AtHead(since[f], file[f])
  <2>1. <<>> \in Seq(Entry)
    OBVIOUS
  <2> QED
    BY <2>1, EmptyAtHead DEF LogInit
<1> QED
  BY <1>1, <1>2, <1>3 DEF LogInv, Alone, Headed

\* Every step keeps the files, the instances and what they hold well typed.
LEMMA LogNextType == ASSUME LogTypeOK, [LogNext]_logVars PROVE LogTypeOK'
<1> USE DEF LogTypeOK, PcTo, Truncate, Upset
<1>0. <<>> \in Seq(Entry)
  OBVIOUS
<1>1. ASSUME NEW p \in Instance, Boot(p) \/ Ready(p) \/ Midnight(p) PROVE LogTypeOK'
  <2>1. <<"info", "error", "debug">> \in Seq(LogFile) /\ <<"info", "debug", "error">> \in Seq(LogFile)
    BY DEF LogFile
  <2> QED
    BY <1>1, <2>1 DEF Boot, Ready, Midnight
<1>2. ASSUME NEW p \in Instance, Create(p) \/ Open(p) PROVE LogTypeOK'
  <2>1. at[p] \in LogFile /\ file' = [file EXCEPT ![at[p]] = <<>>]
    BY <1>2 DEF Create, Open
  <2>2. file' \in [LogFile -> Seq(Entry)]
    BY <1>0, <2>1
  <2>3. CASE Create(p)
    BY <1>0, <2>2, <2>3 DEF Create
  <2>4. CASE Open(p)
    BY <2>2, <2>4 DEF Open
  <2> QED
    BY <1>2, <2>3, <2>4
<1>3. ASSUME NEW p \in Instance, Overwrite(p) PROVE LogTypeOK'
  <2>1. PICK rest \in Rest(file[at[p]]) :
          file' = [file EXCEPT ![at[p]] = <<entry[p]>> \o data[p] \o rest]
    BY <1>3 DEF Overwrite
  <2>2. rest \in Seq(Entry)
    BY RestType
  <2>3. <<entry[p]>> \o data[p] \o rest \in Seq(Entry) /\ <<entry[p]>> \o since[at[p]] \in Seq(Entry)
    BY <2>2
  <2>4. file' \in [LogFile -> Seq(Entry)]
    BY <2>1, <2>3
  <2>5. since' \in [LogFile -> Seq(Entry)]
    BY <1>0, <1>3, <2>3 DEF Overwrite
  <2> QED
    BY <1>3, <2>4, <2>5 DEF Overwrite
<1>4. ASSUME NEW p \in Instance, Throw(p) \/ Kill(p) PROVE LogTypeOK'
  BY <1>0, <1>4 DEF Throw, Kill, Stop
<1>5. ASSUME NEW p \in Instance, Look(p) PROVE LogTypeOK'
  <2>1. Head(left[p]) \in LogFile /\ Tail(left[p]) \in Seq(LogFile)
    BY <1>5 DEF Look
  <2> QED
    BY <1>5, <2>1 DEF Look
<1>6. ASSUME NEW p \in Instance, Rotate(p) PROVE LogTypeOK'
  <2>1. Head(left[p]) \in LogFile /\ Tail(left[p]) \in Seq(LogFile)
    BY <1>6 DEF Rotate
  <2> QED
    BY <1>0, <1>6, <2>1 DEF Rotate
<1>7. ASSUME NEW p \in Instance, NEW f \in LogFile, NEW e \in Entry, Rewrite(p, f, e) PROVE LogTypeOK'
  <2>1. alone' \in [Instance -> BOOLEAN]
    <3>1. alone' = [q \in Instance |->
                     IF q = p THEN Rewriting(f) = {} ELSE alone[q] /\ q \notin Rewriting(f)]
      BY <1>7 DEF Rewrite
    <3> QED
      BY <3>1, Zenon
  <2>2. since' \in [LogFile -> Seq(Entry)]
    BY <1>0, <1>7 DEF Rewrite
  <2> QED
    BY <1>7, <2>1, <2>2 DEF Rewrite
<1>8. CASE UNCHANGED logVars
  BY <1>8 DEF logVars, process
<1> QED
  BY <1>1, <1>2, <1>3, <1>4, <1>5, <1>6, <1>7, <1>8, LogCases

\* A file a step does not touch keeps what is known of it.
LEMMA Untouched ==
  ASSUME NEW f \in LogFile, Alone(f), Headed(f), Rewriting(f)' = Rewriting(f),
         file'[f] = file[f], since'[f] = since[f],
         \A q \in Rewriting(f) : pc'[q] = pc[q] /\ alone'[q] = alone[q] /\ data'[q] = data[q]
  PROVE  Alone(f)' /\ Headed(f)'
<1>1. Alone(f)'
  BY DEF Alone
<1>2. Headed(f)'
  BY DEF Headed
<1> QED
  BY <1>1, <1>2

\* Of a file nothing is promised of, nothing is to be shown.
LEMMA NoPromise ==
  ASSUME NEW f \in LogFile, since'[f] = <<>>, file'[f] \in Seq(Entry),
         \A q \in Rewriting(f)' : /\ data'[q] \in Seq(Entry)
                                  /\ alone'[q] => Rewriting(f)' = {q}
                                  /\ alone'[q] /\ pc'[q] = "open" => file'[f] = <<>>
  PROVE  Alone(f)' /\ Headed(f)'
<1>1. AtHead(since'[f], file'[f]) /\ \A q \in Rewriting(f)' : AtHead(since'[f], data'[q])
  BY EmptyAtHead
<1> QED
  BY <1>1 DEF Alone, Headed

\* Emptying a file is an upset: nothing is promised of it any more.
LEMMA Emptied ==
  ASSUME LogInv, LogTypeOK', NEW f \in LogFile, Truncate(f), Upset(f), UNCHANGED <<alone, data>>,
         \A g \in LogFile : Rewriting(g)' = Rewriting(g),
         \A g \in LogFile : \A p \in Rewriting(g) : pc'[p] = pc[p]
  PROVE  \A g \in LogFile : Alone(g)' /\ Headed(g)'
<1> USE DEF LogInv, LogTypeOK
<1>1. file'[f] = <<>> /\ since'[f] = <<>>
  BY DEF Truncate, Upset
<1>2. \A g \in LogFile \ {f} : file'[g] = file[g] /\ since'[g] = since[g]
  BY DEF Truncate, Upset
<1>3. \A q \in Rewriting(f) : q \in Instance /\ (alone[q] => Rewriting(f) = {q})
  BY DEF Rewriting, Alone
<1>4. Alone(f)' /\ Headed(f)'
  BY <1>1, <1>3, NoPromise
<1> QED
  BY <1>2, <1>4, Untouched

\* An instance reads: it is alone, or it has met another.
LEMMA RewriteStep ==
  ASSUME LogInv, LogTypeOK', NEW p \in Instance, NEW f \in LogFile, NEW e \in Entry, Rewrite(p, f, e)
  PROVE  \A g \in LogFile : Alone(g)' /\ Headed(g)'
<1> USE DEF LogInv, LogTypeOK
<1>1. /\ pc[p] = "idle" /\ pc'[p] = "read" /\ at'[p] = f /\ data'[p] = file[f] /\ file' = file
      /\ \A q \in Instance \ {p} : pc'[q] = pc[q] /\ at'[q] = at[q] /\ data'[q] = data[q]
  BY DEF Rewrite, PcTo
<1>2. Rewriting(f)' = Rewriting(f) \cup {p} /\ p \notin Rewriting(f)
  BY <1>1 DEF Rewriting
<1>3. ASSUME NEW g \in LogFile \ {f} PROVE Alone(g)' /\ Headed(g)'
  <2>1. Rewriting(g)' = Rewriting(g) /\ \A q \in Rewriting(g) : q \in Instance \ {p} /\ q \notin Rewriting(f)
    BY <1>1 DEF Rewriting
  <2>2. since'[g] = since[g] /\ \A q \in Rewriting(g) : alone'[q] = alone[q]
    BY <2>1 DEF Rewrite, Upset
  <2> QED
    BY <1>1, <2>1, <2>2, Untouched
<1>4. CASE Rewriting(f) = {}
  <2>1. since' = since /\ alone'[p] /\ AtHead(since[f], file[f])
    BY <1>4 DEF Rewrite, Headed
  <2>2. Rewriting(f)' = {p} /\ AtHead(since'[f], file'[f]) /\ AtHead(since'[f], data'[p])
    BY <1>1, <1>2, <1>4, <2>1
  <2>3. Alone(f)'
    BY <1>1, <2>1, <2>2 DEF Alone
  <2>4. Headed(f)'
    BY <2>2 DEF Headed
  <2> QED
    BY <1>3, <2>3, <2>4
<1>5. CASE Rewriting(f) # {}
  <2>1. since'[f] = <<>>
    BY <1>5 DEF Rewrite, Upset
  <2>2. \A q \in Rewriting(f)' : q \in Instance /\ ~alone'[q]
    BY <1>2, <1>5 DEF Rewrite, Rewriting
  <2>3. Alone(f)' /\ Headed(f)'
    BY <2>1, <2>2, NoPromise
  <2> QED
    BY <1>3, <2>3
<1> QED
  BY <1>4, <1>5

\* It empties the file, and has what was in it if it is alone.
LEMMA OpenStep ==
  ASSUME LogInv, LogTypeOK', NEW p \in Instance, NEW f \in LogFile, at[p] = f, Open(p)
  PROVE  \A g \in LogFile : Alone(g)' /\ Headed(g)'
<1> USE DEF LogInv, LogTypeOK
<1>1. /\ pc[p] = "read" /\ pc'[p] = "open" /\ \A q \in Instance \ {p} : pc'[q] = pc[q]
      /\ at' = at /\ data' = data /\ since' = since /\ alone' = alone
  BY DEF Open, PcTo
<1>2. p \in Rewriting(f)
  BY <1>1 DEF Rewriting
<1>3. \A g \in LogFile : Rewriting(g)' = Rewriting(g)
  BY <1>1 DEF Rewriting
<1>4. file'[f] = <<>>
  BY <1>2 DEF Open, Truncate
<1>5. ASSUME NEW g \in LogFile \ {f} PROVE Alone(g)' /\ Headed(g)'
  <2>1. file'[g] = file[g] /\ p \notin Rewriting(g)
    BY DEF Open, Truncate, Rewriting
  <2>2. \A q \in Rewriting(g) : q \in Instance
    BY DEF Rewriting
  <2> QED
    BY <1>1, <1>3, <2>1, <2>2, Untouched
<1>6. CASE alone[p]
  <2>1. Rewriting(f)' = {p} /\ AtHead(since'[f], data'[p])
    BY <1>1, <1>2, <1>3, <1>6 DEF Alone
  <2>2. Alone(f)'
    BY <1>1, <1>4, <1>6, <2>1 DEF Alone
  <2>3. Headed(f)'
    BY <1>1, <1>6, <2>1 DEF Headed
  <2> QED
    BY <1>5, <2>2, <2>3
<1>7. CASE ~alone[p]
  <2>1. since'[f] = <<>>
    BY <1>1, <1>2, <1>7 DEF Alone
  <2>2. \A q \in Rewriting(f) : q \in Instance /\ (alone[q] => Rewriting(f) = {q})
    BY <1>2 DEF Alone, Rewriting
  <2>3. \A q \in Rewriting(f)' : /\ data'[q] \in Seq(Entry)
                                 /\ alone'[q] => Rewriting(f)' = {q}
                                 /\ alone'[q] /\ pc'[q] = "open" => file'[f] = <<>>
    BY <1>1, <1>3, <1>4, <2>2
  <2>4. file'[f] \in Seq(Entry)
    OBVIOUS
  <2>5. Alone(f)' /\ Headed(f)'
    BY <2>1, <2>3, <2>4, NoPromise
  <2> QED
    BY <1>5, <2>5
<1> QED
  BY <1>6, <1>7

\* It writes: alone, its entry is put before what it had read.
LEMMA OverwriteStep ==
  ASSUME LogInv, LogTypeOK', NEW p \in Instance, NEW f \in LogFile, at[p] = f,
         Overwrite(p)
  PROVE  \A g \in LogFile : Alone(g)' /\ Headed(g)'
<1> USE DEF LogInv, LogTypeOK
<1>1. /\ pc[p] = "open" /\ pc'[p] = "idle" /\ \A q \in Instance \ {p} : pc'[q] = pc[q]
      /\ at' = at /\ data' = data /\ alone' = alone
  BY DEF Overwrite, PcTo
<1>2. p \in Rewriting(f) /\ Rewriting(f)' = Rewriting(f) \ {p}
  BY <1>1 DEF Rewriting
<1>3. PICK rest \in Rest(file[f]) : file' = [file EXCEPT ![f] = <<entry[p]>> \o data[p] \o rest]
  BY <1>2 DEF Overwrite
<1>4. rest \in Seq(Entry)
  BY <1>2, RestType
<1>5. since' = [since EXCEPT ![f] = IF alone[p] THEN <<entry[p]>> \o @ ELSE <<>>]
  BY DEF Overwrite
<1>6. \A q \in Rewriting(f) : q \in Instance /\ (alone[q] => Rewriting(f) = {q})
  BY <1>2 DEF Alone, Rewriting
<1>7. ASSUME NEW g \in LogFile \ {f} PROVE Alone(g)' /\ Headed(g)'
  <2>1. /\ file'[g] = file[g] /\ since'[g] = since[g] /\ p \notin Rewriting(g)
        /\ \A q \in Rewriting(g) : q \in Instance
    BY <1>3, <1>5 DEF Rewriting
  <2>2. Rewriting(g)' = Rewriting(g)
    BY <1>1, <2>1 DEF Rewriting
  <2> QED
    BY <1>1, <2>1, <2>2, Untouched
<1>8. CASE alone[p]
  <2>1. since'[f] = <<entry[p]>> \o since[f] /\ AtHead(since[f], data[p])
    BY <1>2, <1>5, <1>8 DEF Alone
  <2>2. AtHead(since'[f], file'[f])
    BY <1>2, <1>3, <1>4, <2>1, PushAtHead
  <2>3. Rewriting(f)' = {}
    BY <1>2, <1>6, <1>8
  <2>4. Alone(f)' /\ Headed(f)'
    BY <2>2, <2>3 DEF Alone, Headed
  <2> QED
    BY <1>7, <2>4
<1>9. CASE ~alone[p]
  <2>1. since'[f] = <<>> /\ \A q \in Rewriting(f)' : q \in Instance /\ ~alone'[q]
    BY <1>1, <1>2, <1>5, <1>6, <1>9
  <2>2. Alone(f)' /\ Headed(f)'
    BY <1>2, <2>1, NoPromise
  <2> QED
    BY <1>7, <2>2
<1> QED
  BY <1>8, <1>9

\* It stops, and takes what it had read with it.
LEMMA StopStep ==
  ASSUME LogInv, LogTypeOK', NEW p \in Instance, NEW s \in {"idle", "down"}, Stop(p, s)
  PROVE  \A g \in LogFile : Alone(g)' /\ Headed(g)'
<1> USE DEF LogInv, LogTypeOK
<1>1. /\ pc'[p] = s /\ \A q \in Instance \ {p} : pc'[q] = pc[q]
      /\ at' = at /\ data' = data /\ alone' = alone /\ file' = file
  BY DEF Stop, PcTo
<1> SUFFICES ASSUME NEW g \in LogFile PROVE Alone(g)' /\ Headed(g)'
  OBVIOUS
<1>2. Rewriting(g)' = Rewriting(g) \ {p} /\ \A q \in Rewriting(g) : q \in Instance
  BY <1>1 DEF Rewriting
<1>3. CASE pc[p] = "open" /\ at[p] = g
  <2>1. since'[g] = <<>>
    BY <1>3 DEF Stop, Upset
  <2>2. p \in Rewriting(g)
    BY <1>3 DEF Rewriting
  <2>3. \A q \in Rewriting(g)' : ~alone'[q]
    BY <1>1, <1>2, <2>2 DEF Alone
  <2> QED
    BY <1>2, <2>1, <2>3, NoPromise
<1>4. CASE ~(pc[p] = "open" /\ at[p] = g)
  <2>1. since'[g] = since[g]
    BY <1>4 DEF Stop, Upset
  <2>2. Alone(g)'
    BY <1>1, <1>2, <2>1 DEF Alone
  <2>3. \A q \in Rewriting(g) : pc[q] = "open" => q # p
    BY <1>4 DEF Rewriting
  <2>4. Headed(g)'
    BY <1>1, <1>2, <2>1, <2>3 DEF Headed
  <2> QED
    BY <2>2, <2>4
<1> QED
  BY <1>3, <1>4

\* Every step keeps the invariant of the log.
LEMMA LogNextInv == ASSUME LogInv, [LogNext]_logVars PROVE LogInv'
<1>0. LogTypeOK'
  BY LogNextType DEF LogInv
<1>1. ASSUME UNCHANGED <<file, since, alone, data>>,
             \A f \in LogFile : Rewriting(f)' = Rewriting(f),
             \A f \in LogFile : \A p \in Rewriting(f) : pc'[p] = pc[p]
      PROVE  \A g \in LogFile : Alone(g)' /\ Headed(g)'
  BY <1>1, Untouched DEF LogInv
<1>2. ASSUME NEW p \in Instance, Boot(p) \/ Ready(p) \/ Midnight(p) PROVE \A g \in LogFile : Alone(g)' /\ Headed(g)'
  BY <1>1, <1>2 DEF Boot, Ready, Midnight, PcTo, Rewriting, LogInv, LogTypeOK
<1>3. ASSUME NEW p \in Instance, Create(p) PROVE \A g \in LogFile : Alone(g)' /\ Headed(g)'
  <2>1. at[p] \in LogFile
    BY DEF LogInv, LogTypeOK
  <2> QED
    BY <1>0, <1>3, <2>1, Emptied DEF Create, PcTo, Rewriting, LogInv, LogTypeOK
<1>4. ASSUME NEW p \in Instance, Throw(p) \/ Kill(p) PROVE \A g \in LogFile : Alone(g)' /\ Headed(g)'
  BY <1>0, <1>4, StopStep DEF Throw, Kill
<1>5. ASSUME NEW p \in Instance, Look(p) PROVE \A g \in LogFile : Alone(g)' /\ Headed(g)'
  BY <1>1, <1>5 DEF Look, PcTo, Rewriting, LogInv, LogTypeOK
<1>6. ASSUME NEW p \in Instance, Rotate(p) PROVE \A g \in LogFile : Alone(g)' /\ Headed(g)'
  <2>1. PICK f : f = Head(left[p])
    OBVIOUS
  <2>2. f \in LogFile /\ Truncate(f) /\ Upset(f)
    BY <1>6, <2>1 DEF Rotate, LogInv, LogTypeOK
  <2> QED
    BY <1>0, <1>6, <2>2, Emptied DEF Rotate, PcTo, Rewriting, LogInv, LogTypeOK
<1>7. ASSUME UNCHANGED logVars PROVE \A g \in LogFile : Alone(g)' /\ Headed(g)'
  <2>1. UNCHANGED <<file, since, alone, data>> /\ pc' = pc /\ at' = at
    BY <1>7 DEF logVars, process
  <2>2. \A f \in LogFile : Rewriting(f)' = Rewriting(f)
    BY <2>1 DEF Rewriting
  <2> QED
    BY <1>1, <2>1, <2>2
<1>8. ASSUME NEW p \in Instance, Open(p) \/ Overwrite(p) PROVE \A g \in LogFile : Alone(g)' /\ Headed(g)'
  <2>1. at[p] \in LogFile
    BY DEF LogInv, LogTypeOK
  <2> QED
    BY <1>0, <1>8, <2>1, OpenStep, OverwriteStep
<1>9. ASSUME NEW p \in Instance, NEW f \in LogFile, NEW e \in Entry, Rewrite(p, f, e) PROVE \A g \in LogFile : Alone(g)' /\ Headed(g)'
  BY <1>0, <1>9, RewriteStep
<1>10. \A g \in LogFile : Alone(g)' /\ Headed(g)'
  BY <1>2, <1>3, <1>4, <1>5, <1>6, <1>7, <1>8, <1>9, LogCases, Zenon
<1> QED
  BY <1>0, <1>10 DEF LogInv

\* The invariant of the log: a rewrite that is alone has all that counts.
THEOREM LogInductive == LogSpec => []LogInv
  BY LogInitInv, LogNextInv, PTL DEF LogSpec

\* The files and the instances stay within their types.
THEOREM LogTypeCorrect == LogSpec => []LogTypeOK
<1>1. LogInv => LogTypeOK
  BY DEF LogInv
<1> QED
  BY <1>1, LogInductive, PTL

\* However many instances log, rotate, fail and restart, what was logged
\* since the last upset is at the head of its file.
THEOREM KeptUnlessUpsetAlways == LogSpec => []KeptUnlessUpset
<1>1. LogInv => KeptUnlessUpset
  BY DEF LogInv, Alone, Headed, KeptUnlessUpset
<1> QED
  BY <1>1, LogInductive, PTL
=============================================================================
