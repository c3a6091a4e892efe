--------------------------- MODULE RequestsProofs ---------------------------
(***************************************************************************)
(* Theorems about Requests, for any requests, users and hosts and any      *)
(* number of restarts.                                                     *)
(***************************************************************************)
EXTENDS Requests, FiniteSetTheorems, TLAPS

\* The pools of a host and the requests about to open one are no more than
\* ever initialized its source at once; an uninitialized source has none.
PoolInv ==
  \A h \in Host :
    /\ h \notin open => pools[h] = 0
    /\ pools[h] + Cardinality(At("connect", h)) <= most[h]

\* A token about to be cached for a user who has logged out was being signed
\* when they did.
SignInv == \A r \in Request : Step(r) = "sign" /\ call[r].user \in ended => call[r].user \in straddled

IInv == TypeOK /\ PoolInv /\ UnloadedIsLoading /\ SignInv /\ RevivedNeedsOverlap

-----------------------------------------------------------------------------
(* What a request is doing.                                                *)

LEMMA CallShape ==
  ASSUME TypeOK, NEW r \in Request
  PROVE  /\ Step(r) \in {"source", "connect", "load", "handle"} => call[r].user \in User /\ call[r].host \in Host
         /\ Step(r) \in {"sign", "revoke", "guard"} => call[r].user \in User
         /\ "host" \in DOMAIN call[r] => call[r].host \in Host
BY DEF TypeOK, Calls, Idle, Step

LEMMA AtFinite == ASSUME NEW s, NEW h PROVE IsFiniteSet(At(s, h)) /\ Cardinality(At(s, h)) \in Nat
BY RequestsAssumption, FS_Subset, FS_CardinalityType DEF At

LEMMA StepType == TypeOK /\ [Next]_vars => TypeOK'
<1> SUFFICES ASSUME TypeOK, [Next]_vars PROVE TypeOK'
  OBVIOUS
<1> USE RequestsAssumption DEF TypeOK, Calls, Idle, sources, Step
<1>1. ASSUME NEW r \in Request, NEW u \in User, NEW t \in Tenant, Query(r, u, t) PROVE TypeOK'
  BY <1>1 DEF Query, Arrive
<1>2. ASSUME NEW r \in Request, FindSource(r) PROVE TypeOK'
  BY <1>2, AtFinite, CallShape DEF FindSource, Goto
<1>3. ASSUME NEW r \in Request, Connect(r) PROVE TypeOK'
  BY <1>3 DEF Connect, Goto
<1>4. ASSUME NEW r \in Request, ConnectFails(r) PROVE TypeOK'
  BY <1>4 DEF ConnectFails, Answer
<1>5. ASSUME NEW r \in Request, Load(r) PROVE TypeOK'
  BY <1>5 DEF Load, Goto
<1>6. ASSUME NEW r \in Request, Guard(r) PROVE TypeOK'
  BY <1>6 DEF Guard, Goto, Answer
<1>7. ASSUME NEW r \in Request, Handle(r) PROVE TypeOK'
  BY <1>7 DEF Handle, Answer
<1>8. ASSUME NEW r \in Request, Cache(r) PROVE TypeOK'
  BY <1>8 DEF Cache, Answer
<1>9. ASSUME NEW r \in Request, Revoke(r) PROVE TypeOK'
  BY <1>9 DEF Revoke, Answer
<1>10. ASSUME NEW r \in Request, NEW u \in User, Sign(r, u) PROVE TypeOK'
  BY <1>10 DEF Sign, Arrive
<1>11. ASSUME NEW r \in Request, NEW u \in User, Logout(r, u) PROVE TypeOK'
  BY <1>11 DEF Logout, Arrive
<1>12. ASSUME NEW u \in User, Expire(u) PROVE TypeOK'
  BY <1>12 DEF Expire
<1>13. ASSUME NEW h \in Host, Toggle(h) PROVE TypeOK'
  BY <1>13 DEF Toggle
<1>14. CASE Restart
  BY <1>14 DEF Restart
<1>15. CASE UNCHANGED vars
  BY <1>15 DEF vars, sources
<1> QED
  BY <1>1, <1>2, <1>3, <1>4, <1>5, <1>6, <1>7, <1>8, <1>9, <1>10, <1>11, <1>12, <1>13, <1>14, <1>15 DEF Next, Work

LEMMA StepSign == TypeOK /\ SignInv /\ [Next]_vars => SignInv'
<1> SUFFICES ASSUME TypeOK /\ SignInv, [Next]_vars PROVE SignInv'
  OBVIOUS
<1> USE DEF SignInv, Step, sources, Idle, TypeOK
<1>1. ASSUME NEW r \in Request, NEW u \in User, NEW t \in Tenant, Query(r, u, t) PROVE SignInv'
  BY <1>1 DEF Query, Arrive
<1>2. ASSUME NEW r \in Request, FindSource(r) PROVE SignInv'
  BY <1>2 DEF FindSource, Goto
<1>3. ASSUME NEW r \in Request, Connect(r) PROVE SignInv'
  BY <1>3 DEF Connect, Goto
<1>4. ASSUME NEW r \in Request, ConnectFails(r) PROVE SignInv'
  BY <1>4 DEF ConnectFails, Answer
<1>5. ASSUME NEW r \in Request, Load(r) PROVE SignInv'
  BY <1>5 DEF Load, Goto
<1>6. ASSUME NEW r \in Request, Guard(r) PROVE SignInv'
  <2>1. \A q \in Request \ {r} : call'[q] = call[q]
    BY <1>6 DEF Guard, Goto, Answer
  <2>2. call'[r].step # "sign"
    BY <1>6 DEF Guard, Goto, Answer, Calls
  <2> QED
    BY <1>6, <2>1, <2>2 DEF Guard
<1>7. ASSUME NEW r \in Request, Handle(r) PROVE SignInv'
  BY <1>7 DEF Handle, Answer
<1>8. ASSUME NEW r \in Request, Cache(r) PROVE SignInv'
  BY <1>8 DEF Cache, Answer
<1>9. ASSUME NEW r \in Request, Revoke(r) PROVE SignInv'
  <2>1. /\ \A q \in Request \ {r} : call'[q] = call[q]
        /\ call'[r].step # "sign"
    BY <1>9 DEF Revoke, Answer
  <2>2. ASSUME NEW q \in Request, call'[q].step = "sign", call'[q].user \in ended'
        PROVE  call'[q].user \in straddled'
    <3>1. q # r /\ call'[q] = call[q]
      BY <2>1, <2>2
    <3>2. CASE call[q].user = call[r].user
      <4>1. q \in Signing(call[r].user)
        BY <2>2, <3>1, <3>2 DEF Signing
      <4> QED
        BY <1>9, <3>1, <3>2, <4>1 DEF Revoke
    <3>3. CASE call[q].user # call[r].user
      BY <1>9, <2>2, <3>1, <3>3 DEF Revoke
    <3> QED
      BY <3>2, <3>3
  <2> QED
    BY <2>2
<1>10. ASSUME NEW r \in Request, NEW u \in User, Sign(r, u) PROVE SignInv'
  BY <1>10 DEF Sign, Arrive
<1>11. ASSUME NEW r \in Request, NEW u \in User, Logout(r, u) PROVE SignInv'
  BY <1>11 DEF Logout, Arrive
<1>12. ASSUME NEW u \in User, Expire(u) PROVE SignInv'
  BY <1>12 DEF Expire
<1>13. ASSUME NEW h \in Host, Toggle(h) PROVE SignInv'
  BY <1>13 DEF Toggle
<1>14. CASE Restart
  BY <1>14 DEF Restart
<1>15. CASE UNCHANGED vars
  BY <1>15 DEF vars, sources
<1> QED
  BY <1>1, <1>2, <1>3, <1>4, <1>5, <1>6, <1>7, <1>8, <1>9, <1>10, <1>11, <1>12, <1>13, <1>14, <1>15 DEF Next, Work

LEMMA StepRevived == TypeOK /\ SignInv /\ RevivedNeedsOverlap /\ [Next]_vars => RevivedNeedsOverlap'
<1> SUFFICES ASSUME TypeOK /\ SignInv /\ RevivedNeedsOverlap, [Next]_vars PROVE RevivedNeedsOverlap'
  OBVIOUS
<1> USE DEF RevivedNeedsOverlap, SignInv, Step, sources
<1>1. ASSUME NEW r \in Request, NEW u \in User, NEW t \in Tenant, Query(r, u, t) PROVE RevivedNeedsOverlap'
  BY <1>1 DEF Query, Arrive
<1>2. ASSUME NEW r \in Request, FindSource(r) PROVE RevivedNeedsOverlap'
  BY <1>2 DEF FindSource, Goto
<1>3. ASSUME NEW r \in Request, Connect(r) PROVE RevivedNeedsOverlap'
  BY <1>3 DEF Connect, Goto
<1>4. ASSUME NEW r \in Request, ConnectFails(r) PROVE RevivedNeedsOverlap'
  BY <1>4 DEF ConnectFails, Answer
<1>5. ASSUME NEW r \in Request, Load(r) PROVE RevivedNeedsOverlap'
  BY <1>5 DEF Load, Goto
<1>6. ASSUME NEW r \in Request, Guard(r) PROVE RevivedNeedsOverlap'
  BY <1>6 DEF Guard, Goto, Answer
<1>7. ASSUME NEW r \in Request, Handle(r) PROVE RevivedNeedsOverlap'
  BY <1>7 DEF Handle, Answer
<1>8. ASSUME NEW r \in Request, Cache(r) PROVE RevivedNeedsOverlap'
  BY <1>8 DEF Cache, Answer
<1>9. ASSUME NEW r \in Request, Revoke(r) PROVE RevivedNeedsOverlap'
  BY <1>9 DEF Revoke, Answer
<1>10. ASSUME NEW r \in Request, NEW u \in User, Sign(r, u) PROVE RevivedNeedsOverlap'
  BY <1>10 DEF Sign, Arrive
<1>11. ASSUME NEW r \in Request, NEW u \in User, Logout(r, u) PROVE RevivedNeedsOverlap'
  BY <1>11 DEF Logout, Arrive
<1>12. ASSUME NEW u \in User, Expire(u) PROVE RevivedNeedsOverlap'
  BY <1>12 DEF Expire
<1>13. ASSUME NEW h \in Host, Toggle(h) PROVE RevivedNeedsOverlap'
  BY <1>13 DEF Toggle
<1>14. CASE Restart
  BY <1>14 DEF Restart
<1>15. CASE UNCHANGED vars
  BY <1>15 DEF vars, sources
<1> QED
  BY <1>1, <1>2, <1>3, <1>4, <1>5, <1>6, <1>7, <1>8, <1>9, <1>10, <1>11, <1>12, <1>13, <1>14, <1>15 DEF Next, Work

LEMMA StepUnloaded == TypeOK /\ UnloadedIsLoading /\ [Next]_vars => UnloadedIsLoading'
<1> SUFFICES ASSUME TypeOK /\ UnloadedIsLoading, [Next]_vars PROVE UnloadedIsLoading'
  OBVIOUS
<1> USE DEF UnloadedIsLoading, At, Step, sources, TypeOK, Calls, Idle
<1>1. ASSUME NEW r \in Request, NEW u \in User, NEW t \in Tenant, Query(r, u, t) PROVE UnloadedIsLoading'
  BY <1>1 DEF Query, Arrive
<1>2. ASSUME NEW r \in Request, FindSource(r) PROVE UnloadedIsLoading'
  BY <1>2 DEF FindSource, Goto
<1>3. ASSUME NEW r \in Request, Connect(r) PROVE UnloadedIsLoading'
  BY <1>3 DEF Connect, Goto
<1>4. ASSUME NEW r \in Request, ConnectFails(r) PROVE UnloadedIsLoading'
  BY <1>4 DEF ConnectFails, Answer
<1>5. ASSUME NEW r \in Request, Load(r) PROVE UnloadedIsLoading'
  BY <1>5 DEF Load, Goto
<1>6. ASSUME NEW r \in Request, Guard(r) PROVE UnloadedIsLoading'
  BY <1>6 DEF Guard, Goto, Answer
<1>7. ASSUME NEW r \in Request, Handle(r) PROVE UnloadedIsLoading'
  BY <1>7 DEF Handle, Answer
<1>8. ASSUME NEW r \in Request, Cache(r) PROVE UnloadedIsLoading'
  BY <1>8 DEF Cache, Answer
<1>9. ASSUME NEW r \in Request, Revoke(r) PROVE UnloadedIsLoading'
  BY <1>9 DEF Revoke, Answer
<1>10. ASSUME NEW r \in Request, NEW u \in User, Sign(r, u) PROVE UnloadedIsLoading'
  BY <1>10 DEF Sign, Arrive
<1>11. ASSUME NEW r \in Request, NEW u \in User, Logout(r, u) PROVE UnloadedIsLoading'
  BY <1>11 DEF Logout, Arrive
<1>12. ASSUME NEW u \in User, Expire(u) PROVE UnloadedIsLoading'
  BY <1>12 DEF Expire
<1>13. ASSUME NEW h \in Host, Toggle(h) PROVE UnloadedIsLoading'
  BY <1>13 DEF Toggle
<1>14. CASE Restart
  BY <1>14 DEF Restart
<1>15. CASE UNCHANGED vars
  BY <1>15 DEF vars, sources
<1> QED
  BY <1>1, <1>2, <1>3, <1>4, <1>5, <1>6, <1>7, <1>8, <1>9, <1>10, <1>11, <1>12, <1>13, <1>14, <1>15 DEF Next, Work

\* A step that opens no pool and sends nobody to connect keeps PoolInv.
LEMMA PoolKept ==
  ASSUME TypeOK, PoolInv, UNCHANGED <<open, pools, most>>,
         \A q \in Request : call'[q].step = "connect" => call'[q] = call[q]
  PROVE  PoolInv'
<1>1. ASSUME NEW h \in Host PROVE Cardinality(At("connect", h))' <= Cardinality(At("connect", h))
  <2>1. At("connect", h)' \subseteq At("connect", h)
    BY DEF At, Step
  <2> QED
    BY <2>1, AtFinite, FS_Subset
<1>2. ASSUME NEW h \in Host PROVE Cardinality(At("connect", h))' \in Nat
  <2>1. IsFiniteSet(At("connect", h)')
    BY RequestsAssumption, FS_Subset DEF At
  <2> QED
    BY <2>1, FS_CardinalityType
<1> QED
  BY <1>1, <1>2, AtFinite DEF PoolInv, TypeOK

LEMMA StepPool == TypeOK /\ PoolInv /\ [Next]_vars => PoolInv'
<1> SUFFICES ASSUME TypeOK, PoolInv, [Next]_vars PROVE PoolInv'
  OBVIOUS
<1>1. ASSUME NEW r \in Request, NEW u \in User, NEW t \in Tenant, Query(r, u, t) PROVE PoolInv'
  BY <1>1, PoolKept DEF Query, Arrive, sources, Calls, Idle, TypeOK
<1>2. ASSUME NEW r \in Request, FindSource(r) PROVE PoolInv'
  <2>0. PICK g \in Host : g = call[r].host
    BY <1>2, CallShape DEF FindSource
  <2>1. \A q \in Request \ {r} : call'[q] = call[q]
    BY <1>2, <2>0 DEF FindSource, Goto
  <2>2. CASE g \in open
    <3>1. call'[r].step = "guard" /\ most' = most
      BY <1>2, <2>0, <2>2 DEF FindSource, Goto, TypeOK, Calls, Idle, Step
    <3> QED
      BY <1>2, <2>0, <2>1, <3>1, PoolKept DEF FindSource, sources
  <2>3. CASE g \notin open
    <3>1. call'[r].step = "connect" /\ call'[r].host = g
      BY <1>2, <2>0, <2>3 DEF FindSource, Goto, TypeOK, Calls, Idle, Step
    <3>2. At("connect", g)' = At("connect", g) \cup {r} /\ r \notin At("connect", g)
      BY <1>2, <2>0, <2>1, <3>1 DEF At, Step, FindSource
    <3>3. Cardinality(At("connect", g))' = Cardinality(At("connect", g)) + 1
      BY <3>2, AtFinite, FS_AddElement
    <3>4. \A h \in Host \ {g} : At("connect", h)' = At("connect", h)
      BY <1>2, <2>0, <2>1, <3>1 DEF At, Step, FindSource
    <3>5. most' = [most EXCEPT ![g] = IF Cardinality(At("connect", g)) + 1 > @ THEN Cardinality(At("connect", g)) + 1 ELSE @]
      BY <1>2, <2>0, <2>3 DEF FindSource
    <3>6. pools[g] = 0 /\ UNCHANGED <<open, pools>>
      BY <1>2, <2>0, <2>1, <2>3 DEF FindSource, PoolInv, sources
    <3>7. \A h \in Host \ {g} : Cardinality(At("connect", h))' = Cardinality(At("connect", h))
      BY <3>4
    <3>8. Cardinality(At("connect", g)) \in Nat /\ pools[g] + Cardinality(At("connect", g)) <= most[g]
      BY <2>1, AtFinite DEF PoolInv
    <3>9. most'[g] >= Cardinality(At("connect", g)) + 1
      BY <2>1, <3>5, <3>8 DEF TypeOK
    <3>10. \A h \in Host \ {g} : most'[h] = most[h]
      BY <3>5 DEF TypeOK
    <3>11. ASSUME NEW h \in Host, h = g
           PROVE  (h \notin open' => pools'[h] = 0) /\ pools'[h] + Cardinality(At("connect", h))' <= most'[h]
      BY <3>3, <3>6, <3>8, <3>9, <3>11
    <3>12. ASSUME NEW h \in Host, h # g
           PROVE  (h \notin open' => pools'[h] = 0) /\ pools'[h] + Cardinality(At("connect", h))' <= most'[h]
      BY <3>6, <3>7, <3>10, <3>12 DEF PoolInv
    <3> QED
      BY <3>11, <3>12 DEF PoolInv
  <2> QED
    BY <2>2, <2>3
<1>3. ASSUME NEW r \in Request, Connect(r) PROVE PoolInv'
  <2>0. PICK g \in Host : g = call[r].host
    BY <1>3, CallShape DEF Connect
  <2>1. \A q \in Request \ {r} : call'[q] = call[q]
    BY <1>3, <2>0 DEF Connect, Goto
  <2>2. call'[r].step = "load"
    BY <1>3, <2>0 DEF Connect, Goto, TypeOK, Calls, Idle, Step
  <2>3. At("connect", g)' = At("connect", g) \ {r} /\ r \in At("connect", g)
    <3>1. r \in At("connect", g)
      BY <1>3, <2>0 DEF At, Step, Connect
    <3>2. r \notin At("connect", g)'
      BY <2>2 DEF At, Step
    <3>3. \A q \in Request \ {r} : q \in At("connect", g)' <=> q \in At("connect", g)
      BY <1>3, <2>0, <2>1, <3>1 DEF At, Step
    <3>4. At("connect", g) \subseteq Request /\ At("connect", g)' \subseteq Request
      BY DEF At
    <3> QED
      BY <3>1, <3>2, <3>3, <3>4
  <2>4. Cardinality(At("connect", g))' = Cardinality(At("connect", g)) - 1
    BY <2>3, AtFinite, FS_RemoveElement
  <2>5. \A h \in Host \ {g} : At("connect", h)' = At("connect", h)
    BY <1>3, <2>0, <2>1, <2>2 DEF At, Step, Connect
  <2>6. open' = open \cup {g} /\ pools' = [pools EXCEPT ![g] = @ + 1] /\ most' = most
    BY <1>3, <2>0 DEF Connect
  <2>7. \A h \in Host \ {g} : Cardinality(At("connect", h))' = Cardinality(At("connect", h))
    BY <2>5
  <2>8. Cardinality(At("connect", g)) \in Nat /\ pools[g] + Cardinality(At("connect", g)) <= most[g]
    BY <2>1, AtFinite DEF PoolInv
  <2>9. pools'[g] = pools[g] + 1 /\ \A h \in Host \ {g} : pools'[h] = pools[h]
    BY <2>1, <2>6 DEF TypeOK
  <2>10. ASSUME NEW h \in Host, h = g
         PROVE  (h \notin open' => pools'[h] = 0) /\ pools'[h] + Cardinality(At("connect", h))' <= most'[h]
    BY <2>4, <2>6, <2>8, <2>9, <2>10 DEF TypeOK
  <2>11. ASSUME NEW h \in Host, h # g
         PROVE  (h \notin open' => pools'[h] = 0) /\ pools'[h] + Cardinality(At("connect", h))' <= most'[h]
    BY <2>6, <2>7, <2>9, <2>11 DEF PoolInv
  <2> QED
    BY <2>10, <2>11 DEF PoolInv
<1>4. ASSUME NEW r \in Request, ConnectFails(r) PROVE PoolInv'
  BY <1>4, PoolKept DEF ConnectFails, Answer, sources, Calls, Idle, TypeOK
<1>5. ASSUME NEW r \in Request, Load(r) PROVE PoolInv'
  BY <1>5, PoolKept DEF Load, Goto, sources, Calls, Idle, TypeOK
<1>6. ASSUME NEW r \in Request, Guard(r) PROVE PoolInv'
  BY <1>6, PoolKept DEF Guard, Goto, Answer, sources, Calls, Idle, TypeOK
<1>7. ASSUME NEW r \in Request, Handle(r) PROVE PoolInv'
  BY <1>7, PoolKept DEF Handle, Answer, sources, Calls, Idle, TypeOK
<1>8. ASSUME NEW r \in Request, Cache(r) PROVE PoolInv'
  BY <1>8, PoolKept DEF Cache, Answer, sources, Calls, Idle, TypeOK
<1>9. ASSUME NEW r \in Request, Revoke(r) PROVE PoolInv'
  BY <1>9, PoolKept DEF Revoke, Answer, sources, Calls, Idle, TypeOK
<1>10. ASSUME NEW r \in Request, NEW u \in User, Sign(r, u) PROVE PoolInv'
  BY <1>10, PoolKept DEF Sign, Arrive, sources, Calls, Idle, TypeOK
<1>11. ASSUME NEW r \in Request, NEW u \in User, Logout(r, u) PROVE PoolInv'
  BY <1>11, PoolKept DEF Logout, Arrive, sources, Calls, Idle, TypeOK
<1>12. ASSUME NEW u \in User, Expire(u) PROVE PoolInv'
  BY <1>12, PoolKept DEF Expire, sources
<1>13. ASSUME NEW h \in Host, Toggle(h) PROVE PoolInv'
  BY <1>13, PoolKept DEF Toggle, sources
<1>14. CASE Restart
  <2>1. \A h \in Host : At("connect", h)' = {}
    BY <1>14 DEF Restart, At, Step, Idle
  <2>2. \A h \in Host : Cardinality(At("connect", h))' = 0
    BY <2>1, FS_EmptySet
  <2> QED
    BY <1>14, <2>2 DEF Restart, PoolInv
<1>15. CASE UNCHANGED vars
  BY <1>15, PoolKept DEF vars, sources
<1> QED
  BY <1>1, <1>2, <1>3, <1>4, <1>5, <1>6, <1>7, <1>8, <1>9, <1>10, <1>11, <1>12, <1>13, <1>14, <1>15 DEF Next, Work

-----------------------------------------------------------------------------
LEMMA InitIInv == Init => IInv
<1> SUFFICES ASSUME Init PROVE IInv
  OBVIOUS
<1>1. TypeOK
  BY RequestsAssumption DEF Init, TypeOK, Calls, Idle
<1>2. PoolInv
  <2>1. \A h \in Host : At("connect", h) = {}
    BY DEF Init, At, Step, Idle
  <2> QED
    BY <2>1, FS_EmptySet DEF Init, PoolInv
<1>3. UnloadedIsLoading /\ SignInv /\ RevivedNeedsOverlap
  BY DEF Init, UnloadedIsLoading, SignInv, RevivedNeedsOverlap, Step, Idle
<1> QED
  BY <1>1, <1>2, <1>3 DEF IInv

LEMMA StepIInv == IInv /\ [Next]_vars => IInv'
BY StepType, StepPool, StepUnloaded, StepSign, StepRevived DEF IInv

LEMMA InvPools == IInv => PoolsNeedOverlap
BY AtFinite DEF IInv, TypeOK, PoolInv, PoolsNeedOverlap

\* The inductive invariant holds in every reachable state.
THEOREM Inductive == Spec => []IInv
BY InitIInv, StepIInv, PTL DEF Spec

\* Every reachable state is well typed.
THEOREM TypeCorrect == Spec => []TypeOK
<1>1. IInv => TypeOK
  BY DEF IInv
<1> QED
  BY <1>1, Inductive, PTL

\* A host gets a second pool only from requests that initialized its source
\* at once, however many requests arrive.
THEOREM PoolsNeedOverlapAlways == Spec => []PoolsNeedOverlap
BY Inductive, InvPools, PTL

\* Only while a request loads the entities is an initialized source without.
THEOREM UnloadedIsLoadingAlways == Spec => []UnloadedIsLoading
<1>1. IInv => UnloadedIsLoading
  BY DEF IInv
<1> QED
  BY <1>1, Inductive, PTL

\* Only a token that was being signed as its user logged out revives their
\* session.
THEOREM RevivedNeedsOverlapAlways == Spec => []RevivedNeedsOverlap
<1>1. IInv => RevivedNeedsOverlap
  BY DEF IInv
<1> QED
  BY <1>1, Inductive, PTL

\* Every tenant a user is offered in production is one whose scans the
\* consumer of the queue processes.
THEOREM OfferedAreScanned == \A f \in Factories : ByFactory(f, TRUE) \subseteq Scanned
BY DEF ByFactory, Offered, Active, Internal, Tenant, FactoriesOf, Scanned
=============================================================================
