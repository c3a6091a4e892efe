------------------------------ MODULE Requests ------------------------------
(***************************************************************************)
(* What a request passes before its handler runs.                          *)
(*                                                                         *)
(* A request for a tenant gets the data source of the tenant's host: the   *)
(* middleware finds the host, and the provider TENANCY_DATASOURCE, built   *)
(* per request, takes the source from a map of the process and initializes *)
(* it when it is not.  initialize() of TypeORM connects, then says         *)
(* isInitialized, then loads the entities.  Requests that arrive while     *)
(* another initializes do not wait for it.                                 *)
(*                                                                         *)
(* Only then does JwtAuthGuard look for the user's token in the cache.     *)
(* Login and refresh sign a token and then cache it; logout deletes it.    *)
(***************************************************************************)
EXTENDS Naturals, FiniteSets

CONSTANTS
  Request,   \* requests at once
  User,
  Host,      \* SQL Server hosts
  HostOf,    \* the host of each tenant, from the environment
  FaultLimit \* restarts in a behaviour

-----------------------------------------------------------------------------
(* The tenants                                                             *)

Factories == {"VA1", "VB2", "CA1"}

\* TenancyService.tenants: the factories of each tenant.
FactoriesOf ==
  [dev                 |-> Factories,
   main_21             |-> Factories,
   lianying_primary    |-> {"VA1"},
   lianying_secondary  |-> {"VA1"},
   lianshun_primary    |-> {"VB2"},
   lianshun_secondary  |-> {"VB2"},
   cambodia_primary    |-> {"CA1"},
   cambodia_secondary  |-> {"CA1"}]

Tenant   == DOMAIN FactoriesOf
Active   == Tenant \ {"lianying_secondary", "lianshun_secondary", "cambodia_secondary"}
Internal == {"dev", "main_21"}

\* getAll and getByFactory: the internal ones are not offered in production.
Offered(production)      == IF production THEN Active \ Internal ELSE Active
ByFactory(f, production) == {t \in Offered(production) : f \in FactoriesOf[t]}

\* RFIDConsumer.tenants: those whose scans are processed.
Scanned == {"dev", "lianying_primary", "lianshun_primary", "cambodia_primary"}

ASSUME RequestsAssumption ==
  /\ HostOf \in [Tenant -> Host]
  /\ IsFiniteSet(Request)
  /\ FaultLimit \in Nat

-----------------------------------------------------------------------------
VARIABLES
  up,      \* hosts that can be reached
  open,    \* hosts whose source says isInitialized
  loaded,  \* hosts whose source has its entities
  pools,   \* connection pools opened for each host; none is closed
  token,   \* users with a token in the cache
  call,    \* what each request is doing
  faults

\* History: read by the properties, never by a guard.
VARIABLES
  most,       \* the most requests that ever initialized a host's source at once
  ended,      \* users whose last logout no login or refresh has followed
  straddled   \* users whose token was being signed when they logged out

sources == <<open, loaded, pools>>
vars    == <<up, sources, token, call, faults, most, ended, straddled>>

Idle == [step |-> "idle"]
Calls ==
  {Idle}
    \cup [step: {"source", "connect", "load", "guard", "handle"}, user: User, host: Host]
    \cup [step: {"sign", "guard", "revoke"}, user: User]

TypeOK ==
  /\ up \subseteq Host /\ open \subseteq Host /\ loaded \subseteq Host
  /\ pools \in [Host -> Nat]
  /\ token \subseteq User
  /\ call \in [Request -> Calls]
  /\ faults \in Nat
  /\ most \in [Host -> Nat]
  /\ ended \subseteq User /\ straddled \subseteq User

Init ==
  /\ up \in SUBSET Host
  /\ open = {} /\ loaded = {} /\ pools = [h \in Host |-> 0]
  /\ token = {}
  /\ call = [r \in Request |-> Idle]
  /\ faults = 0
  /\ most = [h \in Host |-> 0]
  /\ ended = {} /\ straddled = {}

Step(r)      == call[r].step
At(s, h)     == {r \in Request : Step(r) = s /\ call[r].host = h}
Signing(u)   == {r \in Request : Step(r) = "sign" /\ call[r].user = u}

Goto(r, s)    == call' = [call EXCEPT ![r].step = s]
Answer(r)     == call' = [call EXCEPT ![r] = Idle]
Arrive(r, x)  == call[r] = Idle /\ call' = [call EXCEPT ![r] = x]

-----------------------------------------------------------------------------
(* The data source                                                         *)

\* A request for a tenant: TenacyMiddleware.
Query(r, u, t) ==
  /\ Arrive(r, [step |-> "source", user |-> u, host |-> HostOf[t]])
  /\ UNCHANGED <<up, sources, token, faults, most, ended, straddled>>

\* Mutant: the source is initialized whether it is or not.
FindSourceAlways(r) ==
  /\ Step(r) = "source" /\ Goto(r, "connect")
  /\ most' = [most EXCEPT ![call[r].host] =
                LET n == Cardinality(At("connect", call[r].host)) + 1 IN IF n > @ THEN n ELSE @]
  /\ UNCHANGED <<up, sources, token, faults, ended, straddled>>

\* getTenancyDataSource: the source of the host, initialized or not.
FindSource(r) ==
  /\ Step(r) = "source" /\ Goto(r, IF call[r].host \in open THEN "guard" ELSE "connect")
  /\ most' = [most EXCEPT ![call[r].host] =
                LET n == Cardinality(At("connect", call[r].host)) + 1
                IN  IF call[r].host \notin open /\ n > @ THEN n ELSE @]
  /\ UNCHANGED <<up, sources, token, faults, ended, straddled>>

\* Mutant: the entities are not loaded.
ConnectOnly(r) ==
  /\ Step(r) = "connect" /\ Goto(r, "guard")
  /\ call[r].host \in up
  /\ open' = open \cup {call[r].host}
  /\ pools' = [pools EXCEPT ![call[r].host] = @ + 1]
  /\ UNCHANGED <<up, loaded, token, faults, most, ended, straddled>>

\* driver.connect() replaces the pool another request has opened.
Connect(r) ==
  /\ Step(r) = "connect" /\ Goto(r, "load")
  /\ call[r].host \in up
  /\ open' = open \cup {call[r].host}
  /\ pools' = [pools EXCEPT ![call[r].host] = @ + 1]
  /\ UNCHANGED <<up, loaded, token, faults, most, ended, straddled>>

\* Mutant: the source is taken for initialized although it has no pool.
ConnectFailsOpen(r) ==
  /\ Step(r) = "connect" /\ Answer(r)
  /\ call[r].host \notin up
  /\ open' = open \cup {call[r].host}
  /\ loaded' = loaded \cup {call[r].host}
  /\ UNCHANGED <<up, pools, token, faults, most, ended, straddled>>

\* 500; the source stays in the map, not initialized.
ConnectFails(r) ==
  /\ Step(r) = "connect" /\ Answer(r)
  /\ call[r].host \notin up
  /\ UNCHANGED <<up, sources, token, faults, most, ended, straddled>>

\* buildMetadatas()
Load(r) ==
  /\ Step(r) = "load" /\ Goto(r, "guard")
  /\ loaded' = loaded \cup {call[r].host}
  /\ UNCHANGED <<up, open, pools, token, faults, most, ended, straddled>>

-----------------------------------------------------------------------------
(* The session                                                             *)

\* JwtAuthGuard.canActivate: 401 without a cached token.
Guard(r) ==
  /\ Step(r) = "guard"
  /\ IF call[r].user \in token THEN Goto(r, IF "host" \in DOMAIN call[r] THEN "handle" ELSE "revoke")
     ELSE Answer(r)
  /\ UNCHANGED <<up, sources, token, faults, most, ended, straddled>>

\* The handler; it fails when the entities are not loaded.
Handle(r) ==
  /\ Step(r) = "handle" /\ Answer(r)
  /\ UNCHANGED <<up, sources, token, faults, most, ended, straddled>>

\* login, after LocalStrategy has found the user, and refreshToken, which no
\* guard stands before: the user is read, the token is signed.
Sign(r, u) ==
  /\ Arrive(r, [step |-> "sign", user |-> u])
  /\ ended' = ended \ {u}
  /\ UNCHANGED <<up, sources, token, faults, most, straddled>>

\* cacheManager.set
Cache(r) ==
  /\ Step(r) = "sign" /\ Answer(r)
  /\ token' = token \cup {call[r].user}
  /\ UNCHANGED <<up, sources, faults, most, ended, straddled>>

Logout(r, u) ==
  /\ Arrive(r, [step |-> "guard", user |-> u])
  /\ UNCHANGED <<up, sources, token, faults, most, ended, straddled>>

\* Mutant: the token stays in the cache.
RevokeNothing(r) ==
  /\ Step(r) = "revoke" /\ Answer(r)
  /\ ended' = ended \cup {call[r].user}
  /\ straddled' = {u \in straddled : u # call[r].user} \cup {u \in {call[r].user} : Signing(u) # {}}
  /\ UNCHANGED <<up, sources, token, faults, most>>

\* cacheManager.del, for every device of the user.
Revoke(r) ==
  /\ Step(r) = "revoke" /\ Answer(r)
  /\ token' = token \ {call[r].user}
  /\ ended' = ended \cup {call[r].user}
  /\ straddled' = {u \in straddled : u # call[r].user} \cup {u \in {call[r].user} : Signing(u) # {}}
  /\ UNCHANGED <<up, sources, faults, most>>

-----------------------------------------------------------------------------
(* The surroundings                                                        *)

Expire(u) ==
  /\ u \in token
  /\ token' = token \ {u}
  /\ UNCHANGED <<up, sources, call, faults, most, ended, straddled>>

Toggle(h) ==
  /\ up' = IF h \in up THEN up \ {h} ELSE up \cup {h}
  /\ UNCHANGED <<sources, token, call, faults, most, ended, straddled>>

\* pm2 restarts the process: its map and its requests are gone.
Restart ==
  /\ faults < FaultLimit /\ faults' = faults + 1
  /\ open' = {} /\ loaded' = {} /\ pools' = [h \in Host |-> 0]
  /\ call' = [r \in Request |-> Idle]
  /\ most' = [h \in Host |-> 0]
  /\ UNCHANGED <<up, token, ended, straddled>>

Work(r) ==
  \/ FindSource(r) \/ Connect(r) \/ ConnectFails(r) \/ Load(r)
  \/ Guard(r) \/ Handle(r) \/ Cache(r) \/ Revoke(r)

Next ==
  \/ \E r \in Request :
       \/ Work(r)
       \/ \E u \in User : Sign(r, u) \/ Logout(r, u)
       \/ \E u \in User, t \in Tenant : Query(r, u, t)
  \/ \E u \in User : Expire(u)
  \/ \E h \in Host : Toggle(h)
  \/ Restart

Spec == Init /\ [][Next]_vars

\* A process runs its requests.
FairSpec == Spec /\ \A r \in Request : WF_vars(Work(r))

-----------------------------------------------------------------------------
(* What holds.                                                             *)

\* The pools no one closes are as many as the requests that initialized the
\* source at once: a second one needs an overlap of first requests, and
\* none is opened once the source is initialized.
PoolsNeedOverlap == \A h \in Host : pools[h] <= most[h]

\* A source that says isInitialized without entities, so that handlers fail
\* for want of them, is one whose entities a request is loading right now.
UnloadedIsLoading == \A h \in open \ loaded : At("load", h) # {}

\* A user who has logged out, and has neither logged in nor refreshed a
\* token since, has a session only when a token was being signed as the
\* logout ran.
RevivedNeedsOverlap == \A u \in token \cap ended : u \in straddled

\* A host that failed the first requests is usable later: when it stays up
\* and requests for it keep coming, its source gets a pool and its entities.
HostRecovers ==
  \A h \in Host :
    <>[](h \in up) /\ []<>(At("source", h) # {})
      => <>[](h \in loaded /\ pools[h] > 0)
=============================================================================
