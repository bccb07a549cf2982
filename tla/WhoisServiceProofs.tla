-------------------------- MODULE WhoisServiceProofs --------------------------
(***************************************************************************)
(* Theorems about WhoisService and the queries it makes, for any machine,  *)
(* configuration, servers, referrals and number of lookups.                *)
(***************************************************************************)
EXTENDS WhoisService, FiniteInduction, SequenceTheorems, TLAPS

-------------------------------------------------------------------------------
(* The configuration *)

ConfigFields ==
    {"port", "whois_timeout_seconds", "max_response_size", "cache_ttl_seconds",
     "negative_cache_ttl_seconds", "cache_max_entries", "max_referrals",
     "discovery_timeout_seconds", "concurrent_whois_queries", "buffer_pool_size",
     "buffer_size"}

Configuration == [ConfigFields -> Nat]

\* The default port is a port, and ports are naturals.
LEMMA PortsAreNumbers == 3000 \in Port /\ \A p \in Port : p \in Nat
BY DEF Port

\* The default for the port is a port, whatever the variables hold.
LEMMA PortType ==
    ASSUME NEW env
    PROVE  get_default_port(env) \in Port
BY PortsAreNumbers DEF get_default_port

\* The defaults of every machine are numbers.
LEMMA DefaultsType ==
    ASSUME NEW sys \in System, NEW env
    PROVE  Defaults(sys, env) \in Configuration
<1>1. /\ calculate_max_response_size(sys.memory) \in Nat
      /\ calculate_cache_size(sys.memory) \in Nat
      /\ calculate_buffer_size(sys.memory) \in Nat
      /\ calculate_buffer_pool_size(sys.memory) \in Nat
      /\ default_concurrency(sys.cores) \in Nat
  BY DEF System, calculate_max_response_size, calculate_cache_size, calculate_buffer_size,
         calculate_buffer_pool_size, default_concurrency, Clamp, MemoryClass
<1> DEFINE d == Defaults(sys, env)
<1>2. d = [f \in ConfigFields |-> d[f]]
  BY DEF Defaults, ConfigFields
<1>3. \A f \in ConfigFields : d[f] \in Nat
  <2>1. d.port \in Nat
    BY PortType, PortsAreNumbers DEF Defaults
  <2> QED
    BY <1>1, <2>1 DEF Defaults, ConfigFields
<1> HIDE DEF d
<1>4. d \in [ConfigFields -> Nat]
  BY <1>2, <1>3
<1> QED
  BY <1>4 DEF d, Configuration

\* A field keeps its default or has the value of a variable that is set.
LEMMA OverriddenType ==
    ASSUME NEW defaults \in Configuration, NEW env \in Environments
    PROVE  apply_env_overrides(defaults, env) \in [ConfigFields -> Nat \cup {Unparsable}]
<1> DEFINE lines == DOMAIN env_mappings
<1>1. lines = 1..16
  BY DEF env_mappings
<1>2. ASSUME NEW f, Overrides(f, env) # {}
      PROVE  env[env_mappings[Max(Overrides(f, env))][1]] \in Nat \cup {Unparsable}
  <2>1. Overrides(f, env) \subseteq 1..16
    BY <1>1 DEF Overrides
  <2>2. IsFiniteSet(Overrides(f, env))
    <3>1. IsFiniteSet(1..16)
      BY PositionsFinite
    <3> QED
      BY <2>1, <3>1, FS_Subset
  <2>3. Max(Overrides(f, env)) \in Overrides(f, env)
    BY <1>2, <2>1, <2>2, MaxInSet
  <2>4. env_mappings[Max(Overrides(f, env))][1] \in DOMAIN env
    BY <2>3 DEF Overrides
  <2> QED
    BY <2>4, ServiceAssumption
<1> QED
  BY <1>2 DEF apply_env_overrides, Configuration

\* What load accepts is a configuration of numbers.
LEMMA LoadType ==
    ASSUME NEW sys \in Systems, NEW env \in Environments, load(sys, env) # Rejected
    PROVE  load(sys, env) \in Configuration
<1> DEFINE c == apply_env_overrides(Defaults(sys, env), env)
<1>1. c \in [ConfigFields -> Nat \cup {Unparsable}]
  BY DefaultsType, OverriddenType, ServiceAssumption
<1>2. load(sys, env) = c /\ Deserializes(c)
  BY DEF load
<1>3. \A f \in ConfigFields : c[f] # Unparsable
  <2> HIDE DEF c
  <2> QED
    BY <1>1, <1>2 DEF Deserializes
<1> QED
  BY <1>1, <1>2, <1>3 DEF Configuration

-------------------------------------------------------------------------------
(* Types *)

\* A query that a task is making, in one of the stages of WhoisQuery.
QueryRecord ==
    [stage : {"permit", "connect", "read"}, server : Servers, semaphore : Semaphores,
     once : BOOLEAN, tries : 0..MaxRetryAttempts]

\* The stages that wait for a query, and those that have a server.
Querying == {"root", "ask", "askNew", "hop"}
WithServer == {"insert", "ask", "purge", "askNew", "keep", "hop"}

WorldTypes ==
    /\ config = Stopped \/ config \in Configuration
    /\ reach \in [Servers -> Kinds]
    /\ rootSays \in Servers \cup {None}
    /\ refers \in [Servers -> Servers \cup {None}]
    /\ tldServer \in Servers \cup {None}
    /\ free \in [Semaphores -> Nat] /\ pool \in Nat
    /\ moves \in 0..MaxMoves /\ disconnects \in 0..MaxDisconnects

LookupTypes ==
    /\ stage \in [Tasks -> Stages] /\ failure \in [Tasks -> Failures]
    /\ server \in [Tasks -> Servers \cup {None}]
    /\ failed \in [Tasks -> Servers \cup {None}]
    /\ visited \in [Tasks -> SUBSET Servers]
    /\ candidates \in [Tasks -> Seq(Servers)]
    /\ sinceSettled \in [Tasks -> BOOLEAN]
    /\ spent \in [Tasks -> Nat]
    /\ query \in [Tasks -> QueryRecord \cup {NoQuery}]
    /\ \A t \in Tasks :
          /\ query[t] = NoQuery <=> stage[t] \notin Querying
          /\ stage[t] \in WithServer => server[t] \in Servers

TypeInv ==
    /\ WorldTypes /\ LookupTypes
    /\ ~Running => \A t \in Tasks : stage[t] = "idle"

\* The inductive type invariant implies the one the runs check.
LEMMA TypeInvImpliesTypeOK == TypeInv => TypeOK
BY DEF TypeInv, WorldTypes, LookupTypes, TypeOK, Querying

\* The fields of a configuration that bear on a lookup.
LEMMA RunningConfig ==
    ASSUME TypeInv, Running
    PROVE  /\ config.whois_timeout_seconds \in Nat
           /\ config.concurrent_whois_queries \in Nat
           /\ config.buffer_pool_size \in Nat
           /\ config.max_referrals \in Nat
           /\ config.discovery_timeout_seconds \in Nat
BY DEF TypeInv, WorldTypes, Running, Configuration, ConfigFields

\* A task that holds a permit makes a query, and the service runs.
LEMMA HolderQueries ==
    ASSUME TypeInv, NEW t \in Tasks, HoldsPermit(t)
    PROVE  Running /\ query[t] \in QueryRecord /\ stage[t] \in Querying
<1>1. query[t] # NoQuery
  BY DEF HoldsPermit, NoQuery
<1>2. query[t] \in QueryRecord /\ stage[t] \in Querying
  BY <1>1 DEF TypeInv, LookupTypes
<1> QED
  BY <1>2 DEF TypeInv, Querying

\* A task that is not idle is served by a service that runs.
LEMMA BusyMeansRunning ==
    ASSUME TypeInv, NEW t \in Tasks, stage[t] # "idle"
    PROVE  Running
BY DEF TypeInv

\* Connecting and reading keep to their limits, and a referral query to its budget for
\* both: what it takes to connect is charged when it reads.
LEMMA NetworkTimes ==
    ASSUME TypeInv, NEW t \in Tasks, HoldsPermit(t)
    PROVE  /\ NetworkTime(query[t]) \in Nat
           /\ ReferralBudget \in Nat /\ DripTime(config.whois_timeout_seconds) \in Nat
           /\ ReferralBudget <= config.whois_timeout_seconds
           /\ ~Reading(t) => NetworkTime(query[t]) <= config.whois_timeout_seconds
           /\ Reading(t) => NetworkTime(query[t]) <= DripTime(config.whois_timeout_seconds)
           /\ query[t].once => NetworkTime(query[t]) <= ReferralBudget
           /\ query[t].once /\ ~Reading(t) /\ Fault(t) = "none"
                => NetworkTime(query[t]) = 0
<1> DEFINE T == config.whois_timeout_seconds
           q == query[t]
           c == ConnectTime(q.server)
           r == ReadTime(q.server)
<1>1. Running /\ q \in QueryRecord /\ q.stage \in {"connect", "read"}
  BY HolderQueries DEF HoldsPermit
<1>2. /\ T \in Nat /\ ReferralTimeout \in Nat /\ TotalTimeoutMultiplier \in Nat
      /\ T * TotalTimeoutMultiplier \in Nat
  <2>1. T \in Nat /\ ReferralTimeout \in Nat /\ TotalTimeoutMultiplier \in Nat
    BY <1>1, RunningConfig, QueryAssumption
  <2> HIDE DEF T
  <2> QED
    BY <2>1
<1>3. DripTime(T) \in Nat /\ T <= DripTime(T)
  <2>1. DripTime(T) = T * TotalTimeoutMultiplier + T
    <3> HIDE DEF T
    <3> QED
      BY <1>2 DEF DripTime
  <2> HIDE DEF T
  <2> QED
    BY <1>2, <2>1
<1>4. ReferralBudget \in Nat /\ ReferralBudget <= T
  BY <1>2 DEF ReferralBudget, Least
<1>5. c \in {0, T} /\ r \in {0, T, DripTime(T)}
  BY DEF ConnectTime, ReadTime
<1>6. NetworkTime(q) =
          IF ~q.once THEN (IF q.stage = "read" THEN r ELSE c)
          ELSE IF q.stage = "read" \/ reach[q.server] = "unroutable"
          THEN Least(IF q.stage = "read" THEN r ELSE c, ReferralBudget)
          ELSE 0
  BY DEF NetworkTime
<1>7. q.stage # "read" /\ reach[q.server] = "unroutable" => Fault(t) # "none"
  BY DEF Fault, Reading, ConnectFailure
<1>8. Reading(t) <=> q.stage = "read"
  BY DEF Reading
<1>9. q.once \in BOOLEAN
  BY <1>1 DEF QueryRecord
<1> DEFINE D == DripTime(T)
<1> HIDE DEF T, q, c, r, D
<1>10. /\ T \in Nat /\ D \in Nat /\ T <= D /\ c \in {0, T} /\ r \in {0, T, D}
       /\ ReferralBudget \in Nat /\ ReferralBudget <= T
  BY <1>2, <1>3, <1>4, <1>5 DEF D
<1>11. /\ NetworkTime(q) \in Nat
       /\ ~Reading(t) => NetworkTime(q) <= T
       /\ Reading(t) => NetworkTime(q) <= D
       /\ q.once => NetworkTime(q) <= ReferralBudget
       /\ q.once /\ ~Reading(t) /\ Fault(t) = "none" => NetworkTime(q) = 0
  BY <1>6, <1>7, <1>8, <1>9, <1>10 DEF Least
<1> QED
  BY <1>10, <1>11 DEF T, q, D

\* What a step of a query and its back-off take is a number of seconds.
LEMMA StepTimeType ==
    ASSUME TypeInv, NEW t \in Tasks, HoldsPermit(t)
    PROVE  StepTime(t) \in Nat
<1>1. query[t] \in QueryRecord
  BY HolderQueries
<1>2. NetworkTime(query[t]) \in Nat
  BY NetworkTimes
<1>3. query[t].tries \in Nat
  BY <1>1, QueryAssumption DEF QueryRecord
<1>4. Backoff(query[t].tries) \in Nat
  BY <1>3, PowerIsCardinality DEF Backoff
<1> QED
  BY <1>2, <1>4 DEF StepTime

\* Testing a candidate keeps to the limit of a discovery.
LEMMA TestTimes ==
    ASSUME TypeInv, Running, NEW s
    PROVE  /\ TestTime(s) \in Nat /\ DiscoveryTimeout \in Nat
           /\ TestTime(s) <= DiscoveryTimeout
BY RunningConfig, ServiceAssumption DEF TestTime, DiscoveryTimeout, Least

\* A query that is asked for is one, whoever asks.
LEMMA NewQueryType ==
    ASSUME NEW s \in Servers, NEW semaphore \in Semaphores, NEW once \in BOOLEAN
    PROVE  /\ NewQuery(s, semaphore, once) \in QueryRecord
           /\ NewQuery(s, semaphore, once) # NoQuery
BY QueryAssumption DEF NewQuery, QueryRecord, NoQuery

\* Giving back a permit and a buffer keeps the types.
LEMMA GiveBackTypes ==
    ASSUME TypeInv, NEW t \in Tasks, ReleasePermit(t), ReturnBuffer(t)
    PROVE  free' \in [Semaphores -> Nat] /\ pool' \in Nat
<1>1. free' \in [Semaphores -> Nat]
  <2>1. CASE HoldsPermit(t)
    <3>1. query[t].semaphore \in Semaphores
      BY <2>1, HolderQueries DEF QueryRecord
    <3> QED
      BY <2>1, <3>1 DEF ReleasePermit, TypeInv, WorldTypes
  <2>2. CASE ~HoldsPermit(t)
    BY <2>2 DEF ReleasePermit, TypeInv, WorldTypes
  <2> QED
    BY <2>1, <2>2
<1>2. pool' \in Nat
  <2>1. CASE Reading(t)
    <3>1. config.buffer_pool_size \in Nat
      BY <2>1, HolderQueries, RunningConfig DEF HoldsPermit, Reading
    <3> QED
      BY <2>1, <3>1 DEF ReturnBuffer, Least, TypeInv, WorldTypes
  <2>2. CASE ~Reading(t)
    BY <2>2 DEF ReturnBuffer, TypeInv, WorldTypes
  <2> QED
    BY <2>1, <2>2
<1> QED
  BY <1>1, <1>2

\* The end of a lookup keeps the types, and leaves the task without a query.
LEMMA FinishTypes ==
    ASSUME LookupTypes, NEW t \in Tasks, NEW fault \in Failures, Finish(t, fault)
    PROVE  LookupTypes'
BY DEF LookupTypes, Finish, GoTo, NoQueryNow, Stages, Querying, WithServer

\* So does what follows an answer.
LEMMA DigestTypes ==
    ASSUME LookupTypes, WorldTypes, NEW t \in Tasks, NEW s \in Servers,
           NEW asked \in SUBSET Servers, NEW seconds \in Nat, Digest(t, s, asked, seconds)
    PROVE  LookupTypes'
<1>1. CASE MayFollow(s, asked)
  <2>1. refers[s] \in Servers
    BY <1>1 DEF MayFollow, WorldTypes
  <2> DEFINE q == NewQuery(refers[s], "domain", TRUE)
  <2>2. q \in QueryRecord /\ q # NoQuery
    BY <2>1, NewQueryType DEF Semaphores
  <2>3. /\ query' = [query EXCEPT ![t] = q]
        /\ stage' = [stage EXCEPT ![t] = "hop"]
        /\ server' = [server EXCEPT ![t] = s]
        /\ visited' = [visited EXCEPT ![t] = asked \cup {refers[s]}]
        /\ spent' = [spent EXCEPT ![t] = @ + seconds]
        /\ UNCHANGED <<failed, candidates, failure, sinceSettled>>
    BY <1>1 DEF Digest, Ask, GoTo, SpendStep
  <2> HIDE DEF q
  <2> QED
    BY <2>1, <2>2, <2>3 DEF LookupTypes, Stages, Querying, WithServer
<1>2. CASE ~MayFollow(s, asked)
  BY <1>2, FinishTypes DEF Digest, Failures
<1> QED
  BY <1>1, <1>2

\* The types hold before the service is started.
LEMMA TypeInvInit == Init => TypeInv
BY QueryAssumption, ServiceAssumption
DEF Init, TypeInv, WorldTypes, LookupTypes, Running, Stages, Failures, Querying, WithServer

\* Every action of the service, of a lookup, of a query and of the world keeps the types.
LEMMA TypeInvNext == TypeInv /\ [Next]_vars => TypeInv'
<1> SUFFICES ASSUME TypeInv, [Next]_vars PROVE TypeInv'
  OBVIOUS
<1> USE DEF TypeInv
<1>1. ASSUME Start PROVE TypeInv'
  <2>1. config' = Stopped \/ config' \in Configuration
    BY <1>1, LoadType DEF Start
  <2>2. Running' => config'.concurrent_whois_queries \in Nat
    BY <2>1 DEF Running, Configuration, ConfigFields
  <2>3. free' \in [Semaphores -> Nat]
    <3>1. \A s \in Semaphores : Running' => Permits(s)' \in Nat
      BY <2>2 DEF Permits
    <3> QED
      BY <1>1, <3>1 DEF Start
  <2>4. WorldTypes'
    BY <1>1, <2>1, <2>3 DEF Start, lookup, WorldTypes
  <2>5. LookupTypes' /\ \A t \in Tasks : stage'[t] = "idle"
    BY <1>1 DEF Start, lookup, LookupTypes
  <2> QED
    BY <2>4, <2>5
<1>2. ASSUME Move PROVE TypeInv'
  <2>1. PICK i \in Incidents :
            reach' = [reach EXCEPT ![i.host] = i.kind] /\ rootSays' = i.named
    BY <1>2 DEF Move
  <2>2. i.kind \in Kinds /\ i.named \in Servers \cup {None}
    BY <2>1, ServiceAssumption
  <2>3. moves' \in 0..MaxMoves
    BY <1>2, ServiceAssumption DEF Move, WorldTypes
  <2>4. WorldTypes'
    BY <1>2, <2>1, <2>2, <2>3 DEF Move, lookup, queryVars, WorldTypes
  <2>5. LookupTypes' /\ UNCHANGED <<stage, config>>
    BY <1>2 DEF Move, lookup, queryVars, LookupTypes
  <2> QED
    BY <2>4, <2>5 DEF Running
<1>3. ASSUME NEW t \in Tasks, Begin(t) PROVE TypeInv'
  <2>1. WorldTypes' /\ Running /\ Running'
    BY <1>3 DEF Begin, world, WorldTypes, Running
  <2>2. CASE tldServer # None
    <3> DEFINE q == NewQuery(tldServer, "domain", FALSE)
    <3>1. tldServer \in Servers
      BY <2>2 DEF WorldTypes
    <3>2. q \in QueryRecord /\ q # NoQuery
      BY <3>1, NewQueryType DEF Semaphores
    <3>3. /\ sinceSettled' = [sinceSettled EXCEPT ![t] = Settled]
          /\ failure' = [failure EXCEPT ![t] = "none"]
          /\ server' = [server EXCEPT ![t] = tldServer]
          /\ query' = [query EXCEPT ![t] = q]
          /\ stage' = [stage EXCEPT ![t] = "ask"]
          /\ UNCHANGED <<failed, candidates, visited, spent>>
      BY <1>3, <2>2 DEF Begin, Ask, GoTo
    <3> HIDE DEF q
    <3>4. LookupTypes'
      BY <3>1, <3>2, <3>3
      DEF LookupTypes, Stages, Failures, Querying, WithServer, Settled
    <3> QED
      BY <2>1, <3>4
  <2>3. CASE tldServer = None
    <3> DEFINE q == NewQuery(Root, "discovery", FALSE)
    <3>1. q \in QueryRecord /\ q # NoQuery
      BY NewQueryType, ServiceAssumption DEF Semaphores
    <3>2. /\ sinceSettled' = [sinceSettled EXCEPT ![t] = Settled]
          /\ failure' = [failure EXCEPT ![t] = "none"]
          /\ query' = [query EXCEPT ![t] = q]
          /\ stage' = [stage EXCEPT ![t] = "root"]
          /\ UNCHANGED <<server, failed, candidates, visited, spent>>
      BY <1>3, <2>3 DEF Begin, Ask, GoTo
    <3> HIDE DEF q
    <3>3. LookupTypes'
      BY <3>1, <3>2
      DEF LookupTypes, Stages, Failures, Querying, WithServer, Settled
    <3> QED
      BY <2>1, <3>3
  <2> QED
    BY <2>2, <2>3
<1>4. ASSUME NEW t \in Tasks, RootAnswers(t) PROVE TypeInv'
  <2>1. free' \in [Semaphores -> Nat] /\ pool' \in Nat
    BY <1>4, GiveBackTypes DEF RootAnswers, Answers
  <2>2. WorldTypes' /\ Running'
    BY <1>4, <2>1, BusyMeansRunning DEF RootAnswers, world, WorldTypes, Running
  <2>3. rootSays # None => <<rootSays>> \o Patterns \in Seq(Servers)
    BY ServiceAssumption DEF WorldTypes
  <2>4. StepTime(t) \in Nat
    BY <1>4, StepTimeType DEF RootAnswers, Answers, Reading, HoldsPermit
  <2>5. LookupTypes'
    BY <1>4, <2>3, <2>4, ServiceAssumption
    DEF RootAnswers, SpendStep, GoTo, NoQueryNow, LookupTypes, Stages, Querying, WithServer
  <2> QED
    BY <2>2, <2>5
<1>5. ASSUME NEW t \in Tasks, RootFails(t) PROVE TypeInv'
  <2>1. free' \in [Semaphores -> Nat] /\ pool' \in Nat
    BY <1>5, GiveBackTypes DEF RootFails, Fails
  <2>2. WorldTypes' /\ Running'
    BY <1>5, <2>1, BusyMeansRunning DEF RootFails, world, WorldTypes, Running
  <2>3. StepTime(t) \in Nat
    BY <1>5, StepTimeType DEF RootFails, Fails
  <2>4. LookupTypes'
    BY <1>5, <2>3, ServiceAssumption
    DEF RootFails, SpendStep, GoTo, NoQueryNow, LookupTypes, Stages, Querying, WithServer
  <2> QED
    BY <2>2, <2>4
<1>6. ASSUME NEW t \in Tasks, TestHolds(t) PROVE TypeInv'
  <2> DEFINE s == Head(candidates[t])
             q == NewQuery(s, "domain", FALSE)
  <2>1. s \in Servers
    BY <1>6 DEF TestHolds, LookupTypes
  <2>2. q \in QueryRecord /\ q # NoQuery
    BY <2>1, NewQueryType DEF Semaphores
  <2>3. WorldTypes' /\ Running'
    BY <1>6, BusyMeansRunning DEF TestHolds, world, WorldTypes, Running
  <2>4. CASE s = failed[t]
    BY <1>6, <2>3, <2>4, FinishTypes DEF TestHolds, Failures
  <2>5. CASE s # failed[t]
    <3>1. /\ server' = [server EXCEPT ![t] = s]
          /\ candidates' = [candidates EXCEPT ![t] = <<>>]
          /\ \/ stage' = [stage EXCEPT ![t] = "insert"] /\ UNCHANGED query
             \/ stage' = [stage EXCEPT ![t] = "askNew"] /\ query' = [query EXCEPT ![t] = q]
          /\ spent' = [spent EXCEPT ![t] = @ + TestTime(s)]
          /\ UNCHANGED <<failed, visited, failure, sinceSettled>>
          /\ stage[t] = "test"
      BY <1>6, <2>5 DEF TestHolds, GoTo, Ask, SpendStep
    <3>4. TestTime(s) \in Nat
      BY <1>6, BusyMeansRunning, TestTimes DEF TestHolds
    <3> HIDE DEF s, q
    <3>2. CASE stage' = [stage EXCEPT ![t] = "insert"] /\ UNCHANGED query
      <4>1. LookupTypes'
        BY <2>1, <3>1, <3>2, <3>4 DEF LookupTypes, Stages, Querying, WithServer
      <4> QED
        BY <2>3, <4>1
    <3>3. CASE stage' = [stage EXCEPT ![t] = "askNew"] /\ query' = [query EXCEPT ![t] = q]
      <4>1. LookupTypes'
        BY <2>1, <2>2, <3>1, <3>3, <3>4 DEF LookupTypes, Stages, Querying, WithServer
      <4> QED
        BY <2>3, <4>1
    <3> QED
      BY <3>1, <3>2, <3>3
  <2> QED
    BY <2>4, <2>5
<1>7. ASSUME NEW t \in Tasks, TestFails(t) PROVE TypeInv'
  <2>1. WorldTypes' /\ Running /\ Running'
    BY <1>7, BusyMeansRunning DEF TestFails, world, WorldTypes, Running
  <2>2. CASE candidates[t] = <<>>
    BY <1>7, <2>1, <2>2, FinishTypes DEF TestFails, Failures
  <2>3. CASE candidates[t] # <<>>
    <3>1. TestTime(Head(candidates[t])) \in Nat
      BY <2>1, TestTimes
    <3>2. Tail(candidates[t]) \in Seq(Servers)
      BY <2>3 DEF LookupTypes
    <3>3. /\ spent' = [spent EXCEPT ![t] = @ + TestTime(Head(candidates[t]))]
          /\ candidates' = [candidates EXCEPT ![t] = Tail(@)]
          /\ UNCHANGED <<stage, server, failed, visited, failure, sinceSettled, query>>
      BY <1>7, <2>3 DEF TestFails, SpendStep
    <3>4. LookupTypes'
      BY <3>1, <3>2, <3>3 DEF LookupTypes
    <3> QED
      BY <2>1, <3>4
  <2> QED
    BY <2>2, <2>3
<1>8. ASSUME NEW t \in Tasks, Insert(t) PROVE TypeInv'
  <2> DEFINE q == NewQuery(server[t], "domain", FALSE)
  <2>1. server[t] \in Servers
    BY <1>8 DEF Insert, LookupTypes, WithServer
  <2>2. q \in QueryRecord /\ q # NoQuery
    BY <2>1, NewQueryType DEF Semaphores
  <2>3. WorldTypes' /\ Running'
    BY <1>8, <2>1, BusyMeansRunning DEF Insert, world, WorldTypes, Running
  <2>4. /\ query' = [query EXCEPT ![t] = q]
        /\ stage' = [stage EXCEPT ![t] = "ask"]
        /\ UNCHANGED <<server, failed, candidates, visited, failure, sinceSettled, spent>>
    BY <1>8 DEF Insert, Ask, GoTo
  <2> HIDE DEF q
  <2>5. LookupTypes'
    BY <2>1, <2>2, <2>4 DEF LookupTypes, Stages, Querying, WithServer
  <2> QED
    BY <2>3, <2>5
<1>9. ASSUME NEW t \in Tasks, ServerAnswers(t) PROVE TypeInv'
  <2>1. free' \in [Semaphores -> Nat] /\ pool' \in Nat
    BY <1>9, GiveBackTypes DEF ServerAnswers, Answers
  <2>2. WorldTypes' /\ Running'
    BY <1>9, <2>1, BusyMeansRunning DEF ServerAnswers, world, WorldTypes, Running
  <2>3. server[t] \in Servers
    BY <1>9 DEF ServerAnswers, LookupTypes, WithServer
  <2>4. StepTime(t) \in Nat
    BY <1>9, StepTimeType DEF ServerAnswers, Answers, Reading, HoldsPermit
  <2>5. LookupTypes'
    BY <1>9, <2>3, <2>4, DigestTypes DEF ServerAnswers
  <2> QED
    BY <2>2, <2>5
<1>10. ASSUME NEW t \in Tasks, ServerFails(t) PROVE TypeInv'
  <2>1. free' \in [Semaphores -> Nat] /\ pool' \in Nat
    BY <1>10, GiveBackTypes DEF ServerFails, Fails
  <2>2. WorldTypes' /\ Running'
    BY <1>10, <2>1, BusyMeansRunning DEF ServerFails, world, WorldTypes, Running
  <2>3. StepTime(t) \in Nat
    BY <1>10, StepTimeType DEF ServerFails, Fails
  <2>4. server[t] \in Servers
    BY <1>10 DEF ServerFails, LookupTypes, WithServer
  <2>5. LookupTypes'
    BY <1>10, <2>3, <2>4
    DEF ServerFails, SpendStep, GoTo, NoQueryNow, LookupTypes, Stages, Querying, WithServer
  <2> QED
    BY <2>2, <2>5
<1>11. ASSUME NEW t \in Tasks, Purge(t) PROVE TypeInv'
  <2> DEFINE q == NewQuery(Root, "discovery", FALSE)
  <2>1. q \in QueryRecord /\ q # NoQuery
    BY NewQueryType, ServiceAssumption DEF Semaphores
  <2>2. WorldTypes' /\ Running'
    BY <1>11, BusyMeansRunning DEF Purge, world, WorldTypes, Running
  <2>3. /\ query' = [query EXCEPT ![t] = q]
        /\ stage' = [stage EXCEPT ![t] = "root"]
        /\ UNCHANGED <<server, failed, candidates, visited, failure, sinceSettled, spent>>
    BY <1>11 DEF Purge, Ask, GoTo
  <2> HIDE DEF q
  <2>4. LookupTypes'
    BY <2>1, <2>3 DEF LookupTypes, Stages, Querying, WithServer
  <2> QED
    BY <2>2, <2>4
<1>12. ASSUME NEW t \in Tasks, NewServerAnswers(t) PROVE TypeInv'
  <2>1. free' \in [Semaphores -> Nat] /\ pool' \in Nat
    BY <1>12, GiveBackTypes DEF NewServerAnswers, Answers
  <2>2. WorldTypes' /\ Running'
    BY <1>12, <2>1, BusyMeansRunning DEF NewServerAnswers, world, WorldTypes, Running
  <2>3. StepTime(t) \in Nat
    BY <1>12, StepTimeType DEF NewServerAnswers, Answers, Reading, HoldsPermit
  <2>4. LookupTypes'
    BY <1>12, <2>3
    DEF NewServerAnswers, SpendStep, GoTo, NoQueryNow, LookupTypes, Stages, Querying,
        WithServer
  <2> QED
    BY <2>2, <2>4
<1>13. ASSUME NEW t \in Tasks, NewServerFails(t) PROVE TypeInv'
  <2>1. free' \in [Semaphores -> Nat] /\ pool' \in Nat
    BY <1>13, GiveBackTypes DEF NewServerFails, Fails
  <2>2. WorldTypes' /\ Running'
    BY <1>13, <2>1, BusyMeansRunning DEF NewServerFails, world, WorldTypes, Running
  <2>3. LookupTypes'
    BY <1>13, FinishTypes DEF NewServerFails, Failures
  <2> QED
    BY <2>2, <2>3
<1>14. ASSUME NEW t \in Tasks, Keep(t) PROVE TypeInv'
  <2>1. server[t] \in Servers
    BY <1>14 DEF Keep, LookupTypes, WithServer
  <2>2. WorldTypes' /\ Running'
    BY <1>14, <2>1, BusyMeansRunning DEF Keep, world, WorldTypes, Running
  <2>3. LookupTypes'
    BY <1>14, <2>1, DigestTypes DEF Keep
  <2> QED
    BY <2>2, <2>3
<1>15. ASSUME NEW t \in Tasks, HopAnswers(t) PROVE TypeInv'
  <2>1. free' \in [Semaphores -> Nat] /\ pool' \in Nat
    BY <1>15, GiveBackTypes DEF HopAnswers, Answers
  <2>2. WorldTypes' /\ Running'
    BY <1>15, <2>1, BusyMeansRunning DEF HopAnswers, world, WorldTypes, Running
  <2>3. query[t].server \in Servers /\ visited[t] \in SUBSET Servers
    BY <1>15, HolderQueries DEF HopAnswers, Answers, Reading, HoldsPermit, QueryRecord,
        LookupTypes
  <2>4. StepTime(t) \in Nat
    BY <1>15, StepTimeType DEF HopAnswers, Answers, Reading, HoldsPermit
  <2>5. LookupTypes'
    BY <1>15, <2>3, <2>4, DigestTypes DEF HopAnswers
  <2> QED
    BY <2>2, <2>5
<1>16. ASSUME NEW t \in Tasks, HopFails(t) PROVE TypeInv'
  <2>1. free' \in [Semaphores -> Nat] /\ pool' \in Nat
    BY <1>16, GiveBackTypes DEF HopFails, Fails
  <2>2. WorldTypes' /\ Running'
    BY <1>16, <2>1, BusyMeansRunning DEF HopFails, world, WorldTypes, Running
  <2>3. LookupTypes'
    BY <1>16, FinishTypes DEF HopFails, Failures
  <2> QED
    BY <2>2, <2>3
<1>17. ASSUME NEW t \in Tasks, TimeOut(t) \/ Disconnect(t) PROVE TypeInv'
  <2>1. free' \in [Semaphores -> Nat] /\ pool' \in Nat
    BY <1>17, GiveBackTypes DEF TimeOut, Disconnect, CutOff
  <2>2. disconnects' \in 0..MaxDisconnects
    BY <1>17, ServiceAssumption DEF TimeOut, Disconnect, WorldTypes
  <2>3. Running /\ Running' /\ UNCHANGED world /\ UNCHANGED tldServer
    <3>1. Running
      BY <1>17, BusyMeansRunning, HolderQueries DEF TimeOut, Disconnect, QueryOverruns
    <3> QED
      BY <1>17, <3>1 DEF TimeOut, Disconnect, world, Running
  <2>4. WorldTypes'
    BY <2>1, <2>2, <2>3 DEF world, WorldTypes
  <2>5. LookupTypes'
    BY <1>17, FinishTypes DEF TimeOut, Disconnect, CutOff, Failures
  <2> QED
    BY <2>3, <2>4, <2>5
<1>18. ASSUME NEW t \in Tasks, Network(t) PROVE TypeInv'
  <2>1. UNCHANGED <<world, tldServer, lookup>>
    BY <1>18 DEF Network
  <2>2. query[t] # NoQuery
    BY <1>18 DEF Network, QueryStep, AcquirePermit, Connect, Retry, HoldsPermit, NoQuery
  <2>3. Running /\ Running' /\ query[t] \in QueryRecord
    BY <2>1, <2>2 DEF LookupTypes, Querying, world, Running
  <2>4. free' \in [Semaphores -> Nat] /\ pool' \in Nat
    <3>1. CASE AcquirePermit(t)
      BY <2>3, <3>1 DEF AcquirePermit, WorldTypes, QueryRecord
    <3>2. CASE Connect(t)
      BY <3>2 DEF Connect, TakeBuffer, WorldTypes
    <3>3. CASE Retry(t)
      BY <2>3, <3>3, RunningConfig DEF Retry, ReturnBuffer, Least, WorldTypes
    <3> QED
      BY <1>18, <3>1, <3>2, <3>3 DEF Network, QueryStep
  <2>5. WorldTypes'
    BY <2>1, <2>4 DEF world, lookup, WorldTypes
  <2>6. \E q \in QueryRecord : query' = [query EXCEPT ![t] = q]
    <3>1. CASE AcquirePermit(t)
      <4>1. [query[t] EXCEPT !.stage = "connect"] \in QueryRecord
        BY <2>3 DEF QueryRecord
      <4> QED
        BY <3>1, <4>1 DEF AcquirePermit
    <3>2. CASE Connect(t)
      <4>1. [query[t] EXCEPT !.stage = "read"] \in QueryRecord
        BY <2>3 DEF QueryRecord
      <4> QED
        BY <3>2, <4>1 DEF Connect
    <3>3. CASE Retry(t)
      <4>1. query[t].tries + 1 \in 0..MaxRetryAttempts
        BY <2>3, <3>3, QueryAssumption DEF QueryRecord, Retry, Retries
      <4>2. [query[t] EXCEPT !.stage = "connect", !.tries = @ + 1] \in QueryRecord
        BY <2>3, <4>1 DEF QueryRecord
      <4> QED
        BY <3>3, <4>2 DEF Retry
    <3> QED
      BY <1>18, <3>1, <3>2, <3>3 DEF Network, QueryStep
  <2>7. spent' \in [Tasks -> Nat]
    <3>1. CASE Retry(t)
      BY <3>1, StepTimeType DEF Retry, LookupTypes
    <3>2. CASE Connect(t)
      BY <3>2, StepTimeType DEF Connect, HoldsPermit, LookupTypes
    <3>3. CASE AcquirePermit(t)
      BY <3>3 DEF AcquirePermit, LookupTypes
    <3> QED
      BY <1>18, <3>1, <3>2, <3>3 DEF Network, QueryStep
  <2>8. \A q \in QueryRecord : q # NoQuery
    BY DEF QueryRecord, NoQuery
  <2>9. LookupTypes'
    <3>1. PICK q \in QueryRecord : query' = [query EXCEPT ![t] = q]
      BY <2>6
    <3> QED
      BY <2>1, <2>2, <2>7, <2>8, <3>1 DEF lookup, LookupTypes
  <2> QED
    BY <2>3, <2>5, <2>9
<1>19. CASE UNCHANGED vars
  <2>1. WorldTypes' /\ LookupTypes'
    BY <1>19 DEF vars, world, lookup, queryVars, WorldTypes, LookupTypes
  <2> QED
    BY <1>19, <2>1 DEF vars, world, lookup, Running
<1> QED
  BY <1>1, <1>2, <1>3, <1>4, <1>5, <1>6, <1>7, <1>8, <1>9, <1>10, <1>11, <1>12, <1>13,
     <1>14, <1>15, <1>16, <1>17, <1>18, <1>19
  DEF Next, LookupStep

\* Every variable keeps its type, whatever the hosts, the referrals and the accepted
\* configuration, and a lookup has a query exactly in the stages that wait for one.
THEOREM TypeCorrect == Spec => []TypeOK
<1>1. Spec => []TypeInv
  BY TypeInvInit, TypeInvNext, PTL DEF Spec
<1> QED
  BY <1>1, TypeInvImpliesTypeOK, PTL

-------------------------------------------------------------------------------
(* The defaults *)

\* With no variable set, what is loaded are the defaults of the machine.
LEMMA NothingOverridden ==
    ASSUME NEW defaults \in Configuration
    PROVE  apply_env_overrides(defaults, <<>>) = defaults
<1>1. \A f : Overrides(f, <<>>) = {}
  BY DEF Overrides
<1> QED
  BY <1>1 DEF apply_env_overrides, Configuration

\* With no variable set, the port is the default one.
LEMMA NoPortSet ==
    ASSUME NEW env, \A v : v \notin DOMAIN env
    PROVE  get_default_port(env) = 3000
BY DEF get_default_port

\* The defaults of a machine pass every test that load makes.
LEMMA DefaultsAccepted ==
    ASSUME NEW sys \in System
    PROVE  load(sys, <<>>) # Rejected
<1> DEFINE d == Defaults(sys, <<>>)
<1>1. d \in Configuration
  BY DefaultsType
<1>2. d.port = 3000
  <2>1. get_default_port(<<>>) = 3000
    <3>1. \A v : v \notin DOMAIN <<>>
      OBVIOUS
    <3> QED
      BY <3>1, NoPortSet
  <2> QED
    BY <2>1 DEF Defaults
<1>3. /\ calculate_max_response_size(sys.memory) \in Nat \ {0}
      /\ calculate_buffer_size(sys.memory) \in Nat \ {0}
      /\ calculate_buffer_pool_size(sys.memory) \in Nat \ {0}
      /\ default_concurrency(sys.cores) \in Nat \ {0}
  BY DEF System, calculate_max_response_size, calculate_buffer_size,
         calculate_buffer_pool_size, default_concurrency, Clamp, MemoryClass
<1>4. /\ d.whois_timeout_seconds # 0 /\ d.buffer_size # 0 /\ d.buffer_pool_size # 0
      /\ d.max_response_size # 0 /\ d.concurrent_whois_queries # 0
  BY <1>3 DEF Defaults
<1> HIDE DEF d
<1>5. validate(d)
  BY <1>2, <1>4 DEF validate
<1>6. Deserializes(d)
  BY <1>1, <1>2, PortsAreNumbers DEF Deserializes, Configuration, Unparsable
<1>7. d # Rejected
  BY <1>1, <1>2 DEF Configuration, Rejected, ConfigFields
<1>8. apply_env_overrides(d, <<>>) = d
  BY <1>1, NothingOverridden
<1> QED
  BY <1>5, <1>6, <1>7, <1>8 DEF load, d

\* Whatever the machine, a service with no variable set starts: the defaults never
\* have to be corrected (config.rs 33-61).
THEOREM DefaultsAlwaysStart == Spec => []DefaultsStart
<1>1. DefaultsStart
  BY DefaultsAccepted, ServiceAssumption DEF DefaultsStart
<1> QED
  BY <1>1, PTL

-------------------------------------------------------------------------------
(* Permits and buffers *)

\* The step leaves the queries of all other lookups as they are.
OthersKeepTheirQueries(t) == \A u \in Tasks \ {t} : query'[u] = query[u]

\* The task gives back what it holds for its query, if it has one.
GivesBack(t) ==
    /\ ReleasePermit(t) /\ ReturnBuffer(t)
    /\ ~HoldsPermit(t)'
    /\ OthersKeepTheirQueries(t)
    /\ UNCHANGED config

\* What a step does to the permits and the buffers: nothing, give out the permits of
\* a service that starts, give back those of one task, or carry on with a query.
QueryEffect ==
    \/ UNCHANGED <<config, free, pool, query>>
    \/ Start
    \/ \E t \in Tasks : GivesBack(t)
    \/ \E t \in Tasks : QueryStep(t) /\ UNCHANGED config

\* A lookup that waits for no query holds neither a permit nor a buffer.
LEMMA NothingHeld ==
    ASSUME TypeInv, NEW t \in Tasks, stage[t] \notin Querying
    PROVE  ~HoldsPermit(t) /\ ~Reading(t)
BY DEF TypeInv, LookupTypes, HoldsPermit, Reading, NoQuery

\* A query begins by waiting for its permit.
LEMMA NewQueryHoldsNothing ==
    ASSUME LookupTypes, NEW t \in Tasks, NEW s, NEW semaphore, NEW once,
           Ask(t, s, semaphore, once)
    PROVE  ~HoldsPermit(t)' /\ OthersKeepTheirQueries(t)
BY DEF Ask, NewQuery, HoldsPermit, OthersKeepTheirQueries, LookupTypes

\* And nothing is held without a query.
LEMMA NoQueryHoldsNothing ==
    ASSUME LookupTypes, NEW t \in Tasks, NoQueryNow(t)
    PROVE  ~HoldsPermit(t)' /\ OthersKeepTheirQueries(t)
BY DEF NoQueryNow, NoQuery, HoldsPermit, OthersKeepTheirQueries, LookupTypes

\* After an answer a lookup is done or waits for its next permit; it holds none.
LEMMA DigestHoldsNothing ==
    ASSUME LookupTypes, NEW t \in Tasks, NEW s, NEW asked, NEW seconds,
           Digest(t, s, asked, seconds)
    PROVE  ~HoldsPermit(t)' /\ OthersKeepTheirQueries(t)
BY NewQueryHoldsNothing, NoQueryHoldsNothing DEF Digest, Finish

\* Every step has one of these effects.
LEMMA EffectOfStep == TypeInv /\ [Next]_vars => QueryEffect
<1> SUFFICES ASSUME TypeInv, [Next]_vars PROVE QueryEffect
  OBVIOUS
<1>1. LookupTypes
  BY DEF TypeInv
<1>2. CASE Start
  BY <1>2 DEF QueryEffect
<1>3. CASE Move \/ UNCHANGED vars
  BY <1>3 DEF QueryEffect, Move, vars, world, queryVars
<1>4. ASSUME NEW t \in Tasks, Begin(t) PROVE QueryEffect
  <2>1. ReleasePermit(t) /\ ReturnBuffer(t) /\ UNCHANGED config
    BY <1>4, NothingHeld DEF Begin, Querying, ReleasePermit, ReturnBuffer, world
  <2>2. ~HoldsPermit(t)' /\ OthersKeepTheirQueries(t)
    BY <1>1, <1>4, NewQueryHoldsNothing DEF Begin
  <2> QED
    BY <2>1, <2>2 DEF QueryEffect, GivesBack
<1>5. ASSUME NEW t \in Tasks,
             \/ RootAnswers(t) \/ RootFails(t) \/ ServerFails(t) \/ NewServerAnswers(t)
             \/ NewServerFails(t) \/ HopFails(t) \/ TimeOut(t) \/ Disconnect(t)
      PROVE  QueryEffect
  <2>1. ReleasePermit(t) /\ ReturnBuffer(t) /\ UNCHANGED config /\ NoQueryNow(t)
    BY <1>5 DEF RootAnswers, RootFails, ServerFails, NewServerAnswers, NewServerFails,
        HopFails, TimeOut, Disconnect, Answers, Fails, CutOff, Finish, world
  <2> QED
    BY <1>1, <2>1, NoQueryHoldsNothing DEF QueryEffect, GivesBack
<1>6. ASSUME NEW t \in Tasks, ServerAnswers(t) \/ HopAnswers(t) PROVE QueryEffect
  <2>1. ReleasePermit(t) /\ ReturnBuffer(t) /\ UNCHANGED config
    BY <1>6 DEF ServerAnswers, HopAnswers, Answers, world
  <2>2. ~HoldsPermit(t)' /\ OthersKeepTheirQueries(t)
    BY <1>1, <1>6, DigestHoldsNothing DEF ServerAnswers, HopAnswers
  <2> QED
    BY <2>1, <2>2 DEF QueryEffect, GivesBack
<1>7. ASSUME NEW t \in Tasks,
             TestHolds(t) \/ TestFails(t) \/ Insert(t) \/ Purge(t) \/ Keep(t)
      PROVE  QueryEffect
  <2>1. ReleasePermit(t) /\ ReturnBuffer(t) /\ UNCHANGED <<config, free, pool>>
    BY <1>7, NothingHeld DEF TestHolds, TestFails, Insert, Purge, Keep, Querying,
        ReleasePermit, ReturnBuffer, world
  <2>2. CASE UNCHANGED query
    BY <2>1, <2>2 DEF QueryEffect
  <2>3. CASE ~UNCHANGED query
    <3>1. ~HoldsPermit(t)' /\ OthersKeepTheirQueries(t)
      BY <1>1, <1>7, <2>3, NewQueryHoldsNothing, NoQueryHoldsNothing, DigestHoldsNothing
      DEF TestHolds, TestFails, Insert, Purge, Keep, Finish
    <3> QED
      BY <2>1, <3>1 DEF QueryEffect, GivesBack
  <2> QED
    BY <2>2, <2>3
<1>8. ASSUME NEW t \in Tasks, Network(t) PROVE QueryEffect
  BY <1>8 DEF Network, QueryEffect, world
<1> QED
  BY <1>2, <1>3, <1>4, <1>5, <1>6, <1>7, <1>8 DEF Next, LookupStep

\* The lookups that hold a permit of a semaphore, and those that read an answer.
Holders(s) == {t \in Tasks : HoldsPermit(t) /\ query[t].semaphore = s}
Readers == {t \in Tasks : Reading(t)}

\* Only the task that makes a step takes or gives back a permit of a semaphore, ...
LEMMA HoldersChange ==
    ASSUME NEW t \in Tasks, OthersKeepTheirQueries(t), NEW s \in Semaphores
    PROVE  /\ Cardinality(Holders(s)) \in Nat
           /\ (t \in Holders(s) <=> t \in Holders(s)')
                => Cardinality(Holders(s)') = Cardinality(Holders(s))
           /\ t \in Holders(s) /\ t \notin Holders(s)'
                => Cardinality(Holders(s)') = Cardinality(Holders(s)) - 1
           /\ t \notin Holders(s) /\ t \in Holders(s)'
                => Cardinality(Holders(s)') = Cardinality(Holders(s)) + 1
<1> DEFINE A == Holders(s)
           B == Holders(s)'
<1>1. A \in SUBSET Tasks /\ B \in SUBSET Tasks
  BY DEF Holders
<1>2. A \ {t} = B \ {t}
  BY DEF Holders, HoldsPermit, OthersKeepTheirQueries
<1> HIDE DEF A, B
<1>3. /\ Cardinality(A) \in Nat
      /\ (t \in A <=> t \in B) => Cardinality(B) = Cardinality(A)
      /\ t \in A /\ t \notin B => Cardinality(B) = Cardinality(A) - 1
      /\ t \notin A /\ t \in B => Cardinality(B) = Cardinality(A) + 1
  BY <1>1, <1>2, OneChanges, QueryAssumption
<1> QED
  BY <1>3 DEF A, B

\* ... or a buffer.
LEMMA ReadersChange ==
    ASSUME NEW t \in Tasks, OthersKeepTheirQueries(t)
    PROVE  /\ Cardinality(Readers) \in Nat
           /\ (t \in Readers <=> t \in Readers')
                => Cardinality(Readers') = Cardinality(Readers)
           /\ t \in Readers /\ t \notin Readers'
                => Cardinality(Readers') = Cardinality(Readers) - 1
           /\ t \notin Readers /\ t \in Readers'
                => Cardinality(Readers') = Cardinality(Readers) + 1
<1> DEFINE A == Readers
           B == Readers'
<1>1. A \in SUBSET Tasks /\ B \in SUBSET Tasks
  BY DEF Readers
<1>2. A \ {t} = B \ {t}
  BY DEF Readers, Reading, OthersKeepTheirQueries
<1> HIDE DEF A, B
<1>3. /\ Cardinality(A) \in Nat
      /\ (t \in A <=> t \in B) => Cardinality(B) = Cardinality(A)
      /\ t \in A /\ t \notin B => Cardinality(B) = Cardinality(A) - 1
      /\ t \notin A /\ t \in B => Cardinality(B) = Cardinality(A) + 1
  BY <1>1, <1>2, OneChanges, QueryAssumption
<1> QED
  BY <1>3 DEF A, B

\* A step of a query concerns one task.
LEMMA QueryStepOfOne ==
    ASSUME TypeInv, NEW t \in Tasks, QueryStep(t)
    PROVE  /\ OthersKeepTheirQueries(t)
           /\ query[t] \in QueryRecord
           /\ query'[t].semaphore = query[t].semaphore
           /\ query'[t].stage = IF Connect(t) THEN "read" ELSE "connect"
           /\ query'[t].server = query[t].server /\ query'[t].once = query[t].once
<1>1. query[t] # NoQuery
  BY DEF QueryStep, AcquirePermit, Connect, Retry, HoldsPermit, NoQuery
<1>2. query[t] \in QueryRecord /\ query \in [Tasks -> QueryRecord \cup {NoQuery}]
  BY <1>1 DEF TypeInv, LookupTypes
<1>3. CASE Connect(t)
  BY <1>2, <1>3 DEF Connect, OthersKeepTheirQueries, QueryRecord
<1>4. CASE AcquirePermit(t)
  BY <1>2, <1>4 DEF AcquirePermit, Connect, OthersKeepTheirQueries, QueryRecord
<1>5. CASE Retry(t)
  BY <1>2, <1>5 DEF Retry, Retries, Connect, OthersKeepTheirQueries, QueryRecord
<1> QED
  BY <1>3, <1>4, <1>5 DEF QueryStep

\* Every step keeps the free permits of a semaphore and those held at their sum.
LEMMA PermitsKept == TypeInv /\ PermitsConserved /\ [Next]_vars => PermitsConserved'
<1> SUFFICES ASSUME TypeInv, PermitsConserved, [Next]_vars, Running', NEW s \in Semaphores
             PROVE  free'[s] + Cardinality(Holders(s)') = Permits(s)'
  BY DEF PermitsConserved, Holders
<1>1. Running => free[s] + Cardinality(Holders(s)) = Permits(s)
  BY DEF PermitsConserved, Holders
<1>2. free \in [Semaphores -> Nat]
  BY DEF TypeInv, WorldTypes
<1>3. CASE UNCHANGED <<config, free, pool, query>>
  BY <1>1, <1>3 DEF Running, Permits, Holders, HoldsPermit
<1>4. CASE Start
  <2>1. Holders(s)' = {}
    BY <1>4, NothingHeld DEF Start, TypeInv, Querying, queryVars, Holders, HoldsPermit
  <2>2. Permits(s)' \in Nat
    <3>1. TypeInv'
      BY TypeInvNext
    <3>2. config'.concurrent_whois_queries \in Nat
      BY <3>1 DEF TypeInv, WorldTypes, Running, Configuration, ConfigFields
    <3> QED
      BY <3>2 DEF Permits
  <2>3. free'[s] = Permits(s)'
    BY <1>4 DEF Start
  <2> QED
    BY <2>1, <2>2, <2>3, FS_EmptySet
<1>5. ASSUME NEW t \in Tasks, GivesBack(t)
      PROVE  free'[s] + Cardinality(Holders(s)') = Permits(s)'
  <2>1. t \notin Holders(s)' /\ Permits(s)' = Permits(s) /\ Running
    BY <1>5 DEF GivesBack, Holders, Permits, Running
  <2>2. CASE t \in Holders(s)
    <3>1. free'[s] = free[s] + 1
      BY <1>2, <1>5, <2>2 DEF GivesBack, ReleasePermit, Holders
    <3> QED
      BY <1>1, <1>2, <1>5, <2>1, <2>2, <3>1, HoldersChange DEF GivesBack
  <2>3. CASE t \notin Holders(s)
    <3>1. free'[s] = free[s]
      BY <1>2, <1>5, <2>3 DEF GivesBack, ReleasePermit, Holders
    <3> QED
      BY <1>1, <1>2, <1>5, <2>1, <2>3, <3>1, HoldersChange DEF GivesBack
  <2> QED
    BY <2>2, <2>3
<1>6. ASSUME NEW t \in Tasks, QueryStep(t), UNCHANGED config
      PROVE  free'[s] + Cardinality(Holders(s)') = Permits(s)'
  <2>1. OthersKeepTheirQueries(t) /\ query'[t].semaphore = query[t].semaphore
    BY <1>6, QueryStepOfOne
  <2>2. Permits(s)' = Permits(s) /\ Running
    BY <1>6 DEF Permits, Running
  <2>3. CASE AcquirePermit(t) /\ query[t].semaphore = s
    <3>1. t \notin Holders(s) /\ t \in Holders(s)'
      BY <2>1, <2>3 DEF AcquirePermit, Holders, HoldsPermit, TypeInv, LookupTypes
    <3>2. free'[s] = free[s] - 1
      BY <1>2, <2>3 DEF AcquirePermit
    <3> QED
      BY <1>1, <1>2, <2>1, <2>2, <3>1, <3>2, HoldersChange
  <2>4. CASE ~(AcquirePermit(t) /\ query[t].semaphore = s)
    <3>1. t \in Holders(s) <=> t \in Holders(s)'
      <4>1. CASE AcquirePermit(t)
        BY <2>1, <2>4, <4>1 DEF Holders
      <4>2. CASE Connect(t) \/ Retry(t)
        <5>1. HoldsPermit(t) /\ HoldsPermit(t)'
          BY <1>6, <4>2, QueryStepOfOne DEF Connect, Retry, HoldsPermit
        <5> QED
          BY <2>1, <5>1 DEF Holders
      <4> QED
        BY <1>6, <4>1, <4>2 DEF QueryStep
    <3>2. free'[s] = free[s]
      BY <1>2, <1>6, <2>4 DEF QueryStep, AcquirePermit, Connect, Retry
    <3> QED
      BY <1>1, <1>2, <2>1, <2>2, <3>1, <3>2, HoldersChange
  <2> QED
    BY <2>3, <2>4
<1> QED
  BY <1>3, <1>4, <1>5, <1>6, EffectOfStep DEF QueryEffect

\* No permit is lost and none is given out twice, however many lookups run, fail, are
\* retried and are dropped, and whatever number of permits was configured.
THEOREM PermitsAreConserved == Spec => []PermitsConserved
<1>1. Init => TypeInv /\ PermitsConserved
  BY TypeInvInit DEF Init, PermitsConserved, Running
<1>2. TypeInv /\ PermitsConserved /\ [Next]_vars => (TypeInv /\ PermitsConserved)'
  BY TypeInvNext, PermitsKept
<1> QED
  BY <1>1, <1>2, PTL DEF Spec

\* The pool of a service that has not started is empty, and one that has started has
\* no more buffers than it may keep, than there are permits, and than there are tasks.
BufferInv ==
    LET buffers == pool + Cardinality(Readers)
    IN IF Running
       THEN /\ pool <= config.buffer_pool_size
            /\ buffers <= Permits("domain") + Permits("discovery")
            /\ buffers <= Cardinality(Tasks)
       ELSE pool = 0

\* There are no more readers than permits, nor than tasks.
ReadersFit ==
    /\ Cardinality(Readers) \in Nat
    /\ Cardinality(Readers) <= Permits("domain") + Permits("discovery")
    /\ Cardinality(Readers) <= Cardinality(Tasks)

\* Since a reader holds a permit, there are no more of them than permits.
LEMMA ReadersHavePermits == TypeInv /\ PermitsConserved /\ Running => ReadersFit
<1> SUFFICES ASSUME TypeInv, PermitsConserved, Running PROVE ReadersFit
  OBVIOUS
<1> DEFINE A == Holders("domain")
           B == Holders("discovery")
           R == Readers
<1>1. Readers \subseteq A \cup B
  BY HolderQueries DEF Readers, Reading, Holders, HoldsPermit, QueryRecord, Semaphores
<1>2. A \subseteq Tasks /\ B \subseteq Tasks /\ R \subseteq Tasks
  BY DEF Holders, Readers
<1>3. /\ free["domain"] + Cardinality(A) = Permits("domain")
      /\ free["discovery"] + Cardinality(B) = Permits("discovery")
      /\ free["domain"] \in Nat /\ free["discovery"] \in Nat
  BY DEF PermitsConserved, Holders, TypeInv, WorldTypes, Semaphores
<1> HIDE DEF A, B, R
<1>4. /\ IsFiniteSet(A) /\ IsFiniteSet(B) /\ IsFiniteSet(A \cup B) /\ IsFiniteSet(R)
      /\ Cardinality(R) <= Cardinality(Tasks)
  BY <1>2, FS_Subset, FS_Union, QueryAssumption
<1>5. Cardinality(R) <= Cardinality(A \cup B)
  BY <1>1, <1>4, FS_Subset DEF R
<1>6. /\ Cardinality(A \cup B) = Cardinality(A) + Cardinality(B) - Cardinality(A \cap B)
      /\ IsFiniteSet(A \cap B)
  BY <1>4, FS_Union, FS_Intersection
<1>7. /\ Cardinality(A) \in Nat /\ Cardinality(B) \in Nat /\ Cardinality(A \cap B) \in Nat
      /\ Cardinality(R) \in Nat
  BY <1>4, <1>6, FS_CardinalityType
<1>8. Cardinality(R) <= Permits("domain") + Permits("discovery")
  BY <1>3, <1>5, <1>6, <1>7
<1> QED
  BY <1>4, <1>7, <1>8 DEF R, ReadersFit

\* A buffer that is given back goes to the pool, or is dropped when the pool is full.
LEMMA BufferReturned ==
    ASSUME TypeInv, PermitsConserved, BufferInv, UNCHANGED config,
           NEW t \in Tasks, OthersKeepTheirQueries(t), ReturnBuffer(t), t \notin Readers'
    PROVE  BufferInv'
<1>1. pool \in Nat
  BY DEF TypeInv, WorldTypes
<1>2. CASE t \in Readers
  <2>1. Running
    BY <1>2, HolderQueries DEF Readers, Reading, HoldsPermit
  <2>2. pool' = Least(pool + 1, config.buffer_pool_size)
    BY <1>2 DEF ReturnBuffer, Readers
  <2>3. pool' <= pool + 1 /\ pool' <= config.buffer_pool_size
    BY <1>1, <2>1, <2>2, RunningConfig DEF Least
  <2>4. Cardinality(Readers') = Cardinality(Readers) - 1 /\ Cardinality(Readers) \in Nat
    BY <1>2, ReadersChange
  <2>5. pool' + Cardinality(Readers') <= pool + Cardinality(Readers)
    <3>1. pool' \in Int
      BY <1>1, <2>1, <2>2, RunningConfig DEF Least
    <3> QED
      BY <1>1, <2>3, <2>4, <3>1
  <2>6. pool' \in Int
    BY <1>1, <2>1, <2>2, RunningConfig DEF Least
  <2> DEFINE P == Permits("domain") + Permits("discovery")
             C == Cardinality(Tasks)
  <2>7. P \in Nat /\ C \in Nat /\ P' = P
    BY <2>1, RunningConfig, FS_CardinalityType, QueryAssumption DEF Permits
  <2>8. pool + Cardinality(Readers) <= P /\ pool + Cardinality(Readers) <= C
    BY <2>1 DEF BufferInv
  <2> HIDE DEF P, C
  <2>9. pool' + Cardinality(Readers') <= P' /\ pool' + Cardinality(Readers') <= C
    BY <1>1, <2>4, <2>5, <2>6, <2>7, <2>8
  <2> QED
    BY <2>1, <2>3, <2>9 DEF BufferInv, Running, P, C
<1>3. CASE t \notin Readers
  <2>1. pool' = pool
    BY <1>3 DEF ReturnBuffer, Readers
  <2>2. Cardinality(Readers') = Cardinality(Readers)
    BY <1>3, ReadersChange
  <2> QED
    BY <2>1, <2>2 DEF BufferInv, Running, Permits
<1> QED
  BY <1>2, <1>3

\* Every step keeps the pool within its bounds.
LEMMA BuffersKept ==
    TypeInv /\ PermitsConserved /\ BufferInv /\ [Next]_vars => BufferInv'
<1> SUFFICES ASSUME TypeInv, PermitsConserved, BufferInv, [Next]_vars
             PROVE  BufferInv'
  OBVIOUS
<1>1. TypeInv' /\ PermitsConserved'
  BY TypeInvNext, PermitsKept
<1>2. pool \in Nat
  BY DEF TypeInv, WorldTypes
<1>3. Running' => ReadersFit'
  BY <1>1, ReadersHavePermits, PTL
<1>4. CASE UNCHANGED <<config, free, pool, query>>
  BY <1>4 DEF BufferInv, Running, Permits, Readers, Reading
<1>5. CASE Start
  <2>1. pool' = 0
    BY <1>5 DEF Start, BufferInv
  <2>2. Running' => config'.buffer_pool_size \in Nat
    BY <1>1 DEF TypeInv, WorldTypes, Running, Configuration, ConfigFields
  <2> QED
    BY <1>3, <2>1, <2>2 DEF BufferInv, ReadersFit
<1>6. ASSUME NEW t \in Tasks, GivesBack(t) PROVE BufferInv'
  <2>1. t \notin Readers'
    BY <1>6 DEF GivesBack, Readers, Reading, HoldsPermit
  <2> QED
    BY <1>6, <2>1, BufferReturned DEF GivesBack
<1>7. ASSUME NEW t \in Tasks, QueryStep(t), UNCHANGED config PROVE BufferInv'
  <2>1. OthersKeepTheirQueries(t)
    BY <1>7, QueryStepOfOne
  <2>2. CASE Connect(t)
    <3>1. Running /\ Running'
      BY <1>7, <2>2, HolderQueries DEF Connect, HoldsPermit, Running
    <3>2. t \in Readers' /\ t \notin Readers
      BY <1>7, <2>2, QueryStepOfOne DEF Connect, Readers, Reading
    <3>3. Cardinality(Readers') = Cardinality(Readers) + 1 /\ Cardinality(Readers) \in Nat
      BY <2>1, <3>2, ReadersChange
    <3>4. pool' = IF pool > 0 THEN pool - 1 ELSE pool
      BY <2>2 DEF Connect, TakeBuffer
    <3>5. pool' <= config'.buffer_pool_size
      BY <1>2, <1>7, <3>1, <3>4, RunningConfig DEF BufferInv
    <3>6. CASE pool > 0
      BY <1>2, <1>7, <3>1, <3>3, <3>4, <3>5, <3>6 DEF BufferInv, Permits
    <3>7. CASE ~(pool > 0)
      BY <1>2, <1>3, <3>1, <3>4, <3>5, <3>7 DEF BufferInv, ReadersFit
    <3> QED
      BY <3>6, <3>7
  <2>3. CASE ~Connect(t)
    <3>1. t \notin Readers'
      BY <1>7, <2>3, QueryStepOfOne DEF Readers, Reading
    <3>2. ReturnBuffer(t)
      BY <1>7, <2>3 DEF QueryStep, AcquirePermit, Retry, ReturnBuffer, Reading
    <3> QED
      BY <1>7, <2>1, <3>1, <3>2, BufferReturned
  <2> QED
    BY <2>2, <2>3
<1> QED
  BY <1>4, <1>5, <1>6, <1>7, EffectOfStep DEF QueryEffect

\* The pool keeps to its capacity, and no more buffers are ever in use or kept than there
\* are permits, or than there are lookups.
THEOREM BuffersAreBounded == Spec => []BuffersBounded
<1> DEFINE Inv == TypeInv /\ PermitsConserved /\ BufferInv
<1>1. Init => Inv
  BY TypeInvInit DEF Init, PermitsConserved, BufferInv, Running
<1>2. Inv /\ [Next]_vars => Inv'
  BY TypeInvNext, PermitsKept, BuffersKept
<1>3. Inv => BuffersBounded
  BY DEF BufferInv, BuffersBounded, Readers
<1> QED
  BY <1>1, <1>2, <1>3, PTL DEF Spec

-------------------------------------------------------------------------------
(* One lookup at a time *)

\* The step leaves the lookup of task u as it is.
Same(u) ==
    /\ stage'[u] = stage[u] /\ server'[u] = server[u] /\ failed'[u] = failed[u]
    /\ candidates'[u] = candidates[u] /\ visited'[u] = visited[u]
    /\ failure'[u] = failure[u] /\ sinceSettled'[u] = sinceSettled[u]
    /\ query'[u] = query[u] /\ spent'[u] = spent[u]

\* The steps of one lookup.
StepOf(t) == Begin(t) \/ LookupStep(t) \/ Network(t) \/ Disconnect(t)

\* Ending a lookup, or carrying on with its answer, leaves the others as they are.
LEMMA FinishOfOne ==
    ASSUME NEW t, NEW fault, Finish(t, fault), NEW u \in Tasks \ {t}, LookupTypes
    PROVE  Same(u)
BY DEF Finish, GoTo, NoQueryNow, Same, LookupTypes

\* An answer moves the lookup that got it and no other.
LEMMA DigestOfOne ==
    ASSUME NEW t, NEW s, NEW asked, NEW seconds, Digest(t, s, asked, seconds),
           NEW u \in Tasks \ {t}, LookupTypes
    PROVE  Same(u)
BY FinishOfOne DEF Digest, Ask, GoTo, SpendStep, Same, LookupTypes

\* A step of one lookup leaves the others as they are.
LEMMA OthersStaySame ==
    ASSUME TypeInv, NEW t \in Tasks, StepOf(t), NEW u \in Tasks \ {t}
    PROVE  Same(u)
<1>1. LookupTypes
  BY DEF TypeInv
<1>2. CASE Begin(t)
  BY <1>1, <1>2 DEF Begin, Ask, GoTo, Same, LookupTypes
<1>3. CASE RootAnswers(t) \/ RootFails(t) \/ ServerFails(t) \/ NewServerAnswers(t)
  BY <1>1, <1>3 DEF RootAnswers, RootFails, ServerFails, NewServerAnswers, NoQueryNow, GoTo,
      SpendStep, Same, LookupTypes
<1>4. CASE TestHolds(t)
  <2>1. CASE Head(candidates[t]) = failed[t]
    BY <1>1, <1>4, <2>1, FinishOfOne DEF TestHolds
  <2>2. CASE Head(candidates[t]) # failed[t]
    <3>1. /\ server' = [server EXCEPT ![t] = Head(candidates[t])]
          /\ candidates' = [candidates EXCEPT ![t] = <<>>]
          /\ \E seconds : spent' = [spent EXCEPT ![t] = @ + seconds]
          /\ \E next : stage' = [stage EXCEPT ![t] = next]
          /\ query' = query \/ \E q : query' = [query EXCEPT ![t] = q]
          /\ UNCHANGED <<failed, visited, failure, sinceSettled>>
      BY <1>4, <2>2 DEF TestHolds, Ask, GoTo, SpendStep
    <3> QED
      BY <1>1, <3>1 DEF Same, LookupTypes
  <2> QED
    BY <2>1, <2>2
<1>5. CASE TestFails(t)
  BY <1>1, <1>5, FinishOfOne DEF TestFails, GoTo, SpendStep, Same, LookupTypes
<1>6. CASE Insert(t) \/ Purge(t)
  BY <1>1, <1>6 DEF Insert, Purge, Ask, GoTo, Same, LookupTypes
<1>7. CASE ServerAnswers(t) \/ Keep(t) \/ HopAnswers(t)
  BY <1>1, <1>7, DigestOfOne DEF ServerAnswers, Keep, HopAnswers
<1>8. CASE NewServerFails(t) \/ HopFails(t) \/ TimeOut(t) \/ Disconnect(t)
  BY <1>1, <1>8, FinishOfOne DEF NewServerFails, HopFails, TimeOut, Disconnect, CutOff
<1>9. CASE Network(t)
  <2>1. spent'[u] = spent[u]
    BY <1>1, <1>9 DEF Network, QueryStep, AcquirePermit, Connect, Retry, LookupTypes
  <2>2. query'[u] = query[u]
    BY <1>9, QueryStepOfOne DEF Network, OthersKeepTheirQueries
  <2> QED
    BY <1>9, <2>1, <2>2 DEF Network, lookup, Same
<1> QED
  BY <1>2, <1>3, <1>4, <1>5, <1>6, <1>7, <1>8, <1>9 DEF StepOf, LookupStep

\* It leaves the world as it is, too.
LEMMA StepKeepsWorld ==
    ASSUME NEW t \in Tasks, StepOf(t)
    PROVE  UNCHANGED world
BY DEF StepOf, LookupStep, Begin, RootAnswers, RootFails, TestHolds, TestFails, Insert,
    ServerAnswers, ServerFails, Purge, NewServerAnswers, NewServerFails, Keep, HopAnswers,
    HopFails, TimeOut, Network, Disconnect

-------------------------------------------------------------------------------
(* The chain of referrals *)

\* The servers a lookup has visited are those it has asked in a chain, with the one it
\* asks now, and they are finitely many; a lookup out of a chain has visited none.
Chain(t) ==
    IF stage[t] = "hop"
    THEN /\ query[t].server \in visited[t] /\ IsFiniteSet(visited[t])
         /\ Cardinality(visited[t]) <= config.max_referrals + 1
         /\ config.max_referrals >= 1
    ELSE visited[t] = {}

ChainInv == \A t \in Tasks : Chain(t)

\* What ChainBounded says of one lookup.
ChainStep(t) ==
    stage'[t] = "hop" /\ query'[t] # query[t] /\ query'[t].stage = "permit" =>
        /\ query'[t].server \notin (visited[t] \cup {server'[t]})
        /\ Cardinality(visited'[t]) <= config.max_referrals + 1

\* The next server of a chain is one that was not visited, within the limit.
LEMMA NextInChain ==
    ASSUME TypeInv, NEW t \in Tasks, UNCHANGED config, Running, stage[t] # "idle",
           NEW asked \in SUBSET Servers, IsFiniteSet(asked), visited[t] \subseteq asked,
           NEW s \in asked, NEW seconds, Digest(t, s, asked, seconds)
    PROVE  Chain(t)' /\ ChainStep(t)
<1>1. CASE MayFollow(s, asked)
  <2> DEFINE q == NewQuery(refers[s], "domain", TRUE)
             next == refers[s]
  <2>1. next \notin asked /\ Cardinality(asked) - 1 < config.max_referrals
    BY <1>1 DEF MayFollow
  <2>2. /\ Cardinality(asked \cup {next}) = Cardinality(asked) + 1
        /\ IsFiniteSet(asked \cup {next}) /\ Cardinality(asked) \in Nat
    BY <2>1, FS_AddElement, FS_CardinalityType
  <2>3. Cardinality(asked \cup {next}) <= config.max_referrals + 1
    BY <2>1, <2>2, RunningConfig
  <2>4. /\ stage'[t] = "hop" /\ query'[t] = q /\ server'[t] = s
        /\ visited'[t] = asked \cup {next}
    BY <1>1 DEF Digest, Ask, GoTo, TypeInv, LookupTypes
  <2>5. q.server = next
    BY DEF NewQuery
  <2>6. config.max_referrals >= 1
    <3>1. Cardinality(asked) # 0
      BY FS_EmptySet
    <3> QED
      BY <2>1, <2>2, <3>1, RunningConfig
  <2> QED
    BY <2>1, <2>2, <2>3, <2>4, <2>5, <2>6 DEF Chain, ChainStep
<1>2. CASE ~MayFollow(s, asked)
  BY <1>2 DEF Digest, Finish, GoTo, Chain, ChainStep, TypeInv, LookupTypes
<1> QED
  BY <1>1, <1>2

\* The end of a lookup is the end of its chain.
LEMMA FinishEndsChain ==
    ASSUME TypeInv, NEW t \in Tasks, NEW fault, Finish(t, fault)
    PROVE  Chain(t)' /\ ChainStep(t)
BY DEF Finish, GoTo, Chain, ChainStep, TypeInv, LookupTypes

\* Every step keeps the referral chain in its bounds, and visits at most one more server.
LEMMA ChainKept ==
    TypeInv /\ ChainInv /\ [Next]_vars => ChainInv' /\ \A t \in Tasks : ChainStep(t)
<1> SUFFICES ASSUME TypeInv, ChainInv, [Next]_vars, NEW u \in Tasks
             PROVE  Chain(u)' /\ ChainStep(u)
  BY DEF ChainInv
<1>1. Chain(u)
  BY DEF ChainInv
<1>2. ASSUME UNCHANGED <<stage, query, visited>>, UNCHANGED config \/ stage[u] = "idle"
      PROVE  Chain(u)' /\ ChainStep(u)
  BY <1>1, <1>2 DEF Chain, ChainStep
<1>3. ASSUME NEW t \in Tasks, StepOf(t) PROVE Chain(u)' /\ ChainStep(u)
  <2>1. UNCHANGED config
    BY <1>3, StepKeepsWorld DEF world
  <2>2. CASE u # t
    BY <1>1, <1>3, <2>1, <2>2, OthersStaySame DEF Same, Chain, ChainStep
  <2>3. CASE u = t
    <3>1. CASE Begin(t)
      BY <1>1, <2>3, <3>1 DEF Begin, Ask, GoTo, Chain, ChainStep, TypeInv, LookupTypes
    <3>2. CASE \/ RootAnswers(t) \/ RootFails(t) \/ Insert(t) \/ ServerFails(t) \/ Purge(t)
               \/ NewServerAnswers(t)
      BY <1>1, <2>3, <3>2 DEF RootAnswers, RootFails, Insert, ServerFails, Purge,
          NewServerAnswers, GoTo, Chain, ChainStep, TypeInv, LookupTypes
    <3>3. CASE TestHolds(t) \/ TestFails(t)
      BY <1>1, <2>3, <3>3, FinishEndsChain
      DEF TestHolds, TestFails, GoTo, Chain, ChainStep, TypeInv, LookupTypes
    <3>4. CASE ServerAnswers(t) \/ Keep(t)
      <4>1. server[t] \in Servers /\ visited[t] = {} /\ stage[t] # "idle"
        BY <1>1, <2>3, <3>4 DEF ServerAnswers, Keep, Chain, TypeInv, LookupTypes, WithServer
      <4>2. IsFiniteSet({server[t]})
        BY FS_Singleton
      <4>3. \E seconds : Digest(t, server[t], {server[t]}, seconds)
        BY <3>4 DEF ServerAnswers, Keep
      <4> QED
        BY <2>1, <2>3, <4>1, <4>2, <4>3, NextInChain, BusyMeansRunning
    <3>5. CASE HopAnswers(t)
      <4>1. /\ query[t].server \in visited[t] /\ IsFiniteSet(visited[t])
            /\ stage[t] # "idle" /\ visited[t] \in SUBSET Servers
        BY <1>1, <2>3, <3>5 DEF HopAnswers, Chain, TypeInv, LookupTypes
      <4>2. Digest(t, query[t].server, visited[t], StepTime(t))
        BY <3>5 DEF HopAnswers
      <4> QED
        BY <2>1, <2>3, <4>1, <4>2, NextInChain, BusyMeansRunning
    <3>6. CASE NewServerFails(t) \/ HopFails(t) \/ TimeOut(t) \/ Disconnect(t)
      BY <2>3, <3>6, FinishEndsChain DEF NewServerFails, HopFails, TimeOut, Disconnect, CutOff
    <3>7. CASE Network(t)
      <4>1. UNCHANGED <<stage, visited>>
        BY <3>7 DEF Network, lookup
      <4>2. query'[t].server = query[t].server /\ query'[t].stage # "permit"
        <5>1. QueryStep(t) /\ query[t] \in QueryRecord
          BY <3>7, QueryStepOfOne DEF Network
        <5> QED
          BY <5>1, QueryStepOfOne
      <4> QED
        BY <1>1, <2>1, <2>3, <4>1, <4>2 DEF Chain, ChainStep
    <3> QED
      BY <1>3, <3>1, <3>2, <3>3, <3>4, <3>5, <3>6, <3>7 DEF StepOf, LookupStep
  <2> QED
    BY <2>2, <2>3
<1>4. CASE Start
  BY <1>2, <1>4 DEF Start, lookup, TypeInv
<1>5. CASE Move \/ UNCHANGED vars
  BY <1>2, <1>5 DEF Move, vars, world, lookup, queryVars
<1> QED
  BY <1>3, <1>4, <1>5 DEF Next, StepOf

\* However the servers refer to each other, a lookup asks none of them twice, and no more
\* of them than max_referrals besides the first.
THEOREM ChainsAreBounded == Spec => ChainBounded
<1>1. Init => TypeInv /\ ChainInv
  BY TypeInvInit DEF Init, ChainInv, Chain
<1>2. TypeInv /\ ChainInv /\ [Next]_vars => (TypeInv /\ ChainInv)'
  BY TypeInvNext, ChainKept
<1>3. TypeInv /\ ChainInv /\ [Next]_vars => [\A t \in Tasks : ChainStep(t)]_vars
  BY ChainKept
<1> QED
  BY <1>1, <1>2, <1>3, PTL DEF Spec, ChainBounded, ChainStep

-------------------------------------------------------------------------------
(* The time of a lookup *)

\* The longest attempt, the time of a query before its attempt number tries + 1, what the
\* connection of an attempt that reads may have taken, and the time of a discovery with so
\* many candidates left.
Attempt == config.whois_timeout_seconds + DripTime(config.whois_timeout_seconds)
Used(tries) == tries * Attempt + 2 ^ tries - 1
ConnectUsed(t) == IF Reading(t) THEN config.whois_timeout_seconds ELSE 0
UsedBy(t) == Used(query[t].tries) + ConnectUsed(t)
Tested(left) == (Len(Patterns) + 1 - left) * DiscoveryTimeout
Discovery == (Len(Patterns) + 1) * DiscoveryTimeout

\* The product of naturals is one: the only fact about products the proofs below need
\* besides the next.
LEMMA ProductOfNaturals == \A m, n \in Nat : m * n \in Nat
OBVIOUS

\* A product of naturals grows with its first factor.
LEMMA ProductGrows ==
    ASSUME NEW m \in Nat, NEW n \in Nat, NEW a \in Nat, m <= n
    PROVE  m * a <= n * a
<1>1. (n - m) * a \in Nat
  BY ProductOfNaturals
<1>2. n * a = m * a + (n - m) * a
  OBVIOUS
<1>3. m * a \in Nat /\ n * a \in Nat
  BY ProductOfNaturals
<1> QED
  BY <1>1, <1>2, <1>3

\* A query has spent its attempts and its pauses, and its last attempt fits.
LEMMA TimeOfQuery ==
    ASSUME TypeInv, Running
    PROVE  /\ Attempt \in Nat /\ LongestQuery \in Nat
           /\ config.whois_timeout_seconds \in Nat
           /\ config.whois_timeout_seconds <= Attempt
           /\ Used(0) = 0
           /\ \A k \in 0..MaxRetryAttempts :
                 /\ Used(k) \in Nat
                 /\ Used(k) + Attempt <= LongestQuery
                 /\ Used(k) + Attempt + Backoff(k) = Used(k + 1)
<1> DEFINE T == config.whois_timeout_seconds
           R == MaxRetryAttempts
           M == TotalTimeoutMultiplier
           A == Attempt
<1>1. T \in Nat /\ R \in Nat /\ M \in Nat
  BY RunningConfig, QueryAssumption
<1>2. A = T + T * (M + 1)
  BY DEF Attempt, DripTime
<1>3. A \in Nat /\ T <= A
  <2>1. T * M \in Nat /\ A = T * M + T + T
    <3> HIDE DEF T, M, A
    <3> QED
      BY <1>1, <1>2, ProductOfNaturals
  <2> HIDE DEF A, T
  <2> QED
    BY <1>1, <2>1
<1>4. LongestQuery = (R + 1) * A + 2 ^ R - 1
  <2>1. ((R + 1) * (M + 2)) * T = (R + 1) * (T + T * (M + 1))
    <3> HIDE DEF T, M, R
    <3> QED
      BY <1>1
  <2> QED
    BY <1>2, <2>1 DEF LongestQuery
<1>5. Used(0) = 0
  BY <1>3, PowerOfZero DEF Used
<1>6. ASSUME NEW k \in 0..R
      PROVE  /\ Used(k) \in Nat /\ Used(k) + A <= LongestQuery
             /\ Used(k) + A + Backoff(k) = Used(k + 1)
  <2>1. k \in Nat /\ k <= R
    BY <1>1
  <2>2. 2 ^ k \in Nat /\ 2 ^ R \in Nat /\ 2 ^ k <= 2 ^ R /\ 2 ^ k >= 1
    BY <1>1, <2>1, PowerMonotone, PowerPositive
  <2>3. k * A \in Nat /\ (k + 1) * A = k * A + A /\ (k + 1) * A <= (R + 1) * A
    <3> HIDE DEF A, R
    <3>1. (k + 1) * A <= (R + 1) * A
      BY <1>1, <1>3, <2>1, ProductGrows
    <3> QED
      BY <1>3, <2>1, <3>1, ProductOfNaturals
  <2>4. 2 ^ (k + 1) = 2 ^ k + 2 ^ k
    BY <2>1, PowerDoubles
  <2>5. (R + 1) * A \in Nat
    <3> HIDE DEF A, R
    <3> QED
      BY <1>1, <1>3, ProductOfNaturals
  <2> DEFINE p == 2 ^ k
             ka == k * A
             k1a == (k + 1) * A
             ra == (R + 1) * A
  <2>6. /\ Used(k) = ka + p - 1 /\ Used(k + 1) = k1a + 2 ^ (k + 1) - 1
        /\ Backoff(k) = p
    BY DEF Used, Backoff
  <2> HIDE DEF p, ka, k1a, ra, A
  <2> QED
    BY <1>3, <1>4, <2>2, <2>3, <2>4, <2>5, <2>6 DEF p, ka, k1a, ra
<1>7. LongestQuery \in Nat
  <2>1. LongestQuery \in Int
    <3>1. (R + 1) * A \in Nat
      <4> HIDE DEF A, R
      <4> QED
        BY <1>1, <1>3, ProductOfNaturals
    <3> HIDE DEF A, R
    <3> QED
      BY <1>1, <1>4, <3>1, PowerIsCardinality
  <2>2. Used(0) + A <= LongestQuery
    BY <1>1, <1>6
  <2> HIDE DEF A
  <2> QED
    BY <1>3, <1>5, <2>1, <2>2
<1> QED
  BY <1>1, <1>3, <1>5, <1>6, <1>7

\* Each candidate that is tested takes its share of a discovery.
LEMMA TimeOfDiscovery ==
    ASSUME TypeInv, Running
    PROVE  /\ DiscoveryTimeout \in Nat /\ Discovery \in Nat
           /\ \A n \in 0..(Len(Patterns) + 1) :
                 Tested(n) \in Nat /\ Tested(n) <= Discovery
           /\ \A n \in 1..(Len(Patterns) + 1) :
                 Tested(n - 1) = Tested(n) + DiscoveryTimeout
<1> DEFINE L == Len(Patterns) + 1
           DT == DiscoveryTimeout
<1>1. L \in Nat
  BY ServiceAssumption
<1>2. DT \in Nat
  BY RunningConfig, ServiceAssumption DEF DiscoveryTimeout, Least
<1>3. Discovery = L * DT /\ \A n \in Nat : Tested(n) = (L - n) * DT
  BY DEF Discovery, Tested
<1> HIDE DEF L, DT
<1>4. Discovery \in Nat
  BY <1>1, <1>2, <1>3, ProductOfNaturals
<1>5. ASSUME NEW n \in 0..L PROVE Tested(n) \in Nat /\ Tested(n) <= Discovery
  <2>1. L - n \in Nat /\ L - n <= L
    BY <1>1
  <2>2. (L - n) * DT \in Nat /\ (L - n) * DT <= L * DT
    BY <1>1, <1>2, <2>1, ProductGrows, ProductOfNaturals
  <2> QED
    BY <1>3, <2>2
<1>6. ASSUME NEW n \in 1..L PROVE Tested(n - 1) = Tested(n) + DT
  <2>1. (L - (n - 1)) * DT = (L - n) * DT + DT
    BY <1>1, <1>2
  <2> QED
    BY <1>3, <2>1
<1> QED
  BY <1>2, <1>4, <1>5, <1>6 DEF L, DT

\* What a lookup had spent when it began to heal.
Healing(t) == IF failed[t] = None THEN 0 ELSE 2 * LongestQuery + Discovery

\* The referrals of a lookup in a chain that have been answered.
Answered(t) == Cardinality(visited[t]) - 2

\* What a lookup can have spent in each of its stages.
TimeOf(t) ==
    /\ stage[t] = "idle" => spent[t] = 0
    /\ stage[t] = "root" => spent[t] <= Healing(t) + UsedBy(t)
    /\ stage[t] = "test" =>
          /\ Len(candidates[t]) <= Len(Patterns) + 1
          /\ spent[t] <= Healing(t) + LongestQuery + Tested(Len(candidates[t]))
    /\ stage[t] = "insert" => spent[t] <= LongestQuery + Discovery
    /\ stage[t] = "ask" => spent[t] <= LongestQuery + Discovery + UsedBy(t)
    /\ stage[t] = "purge" => failed[t] # None /\ spent[t] <= 2 * LongestQuery + Discovery
    /\ stage[t] = "askNew" => spent[t] <= 3 * LongestQuery + 2 * Discovery + UsedBy(t)
    /\ stage[t] = "keep" => spent[t] <= 4 * LongestQuery + 2 * Discovery
    /\ stage[t] = "hop" =>
          /\ query[t].once
          /\ spent[t] <= 4 * LongestQuery + 2 * Discovery + Answered(t) * ReferralBudget

TimeInv == \A t \in Tasks : TimeOf(t)

\* The number of attempts that a query has behind it.
LEMMA TriesOfQuery ==
    ASSUME TypeInv, NEW t \in Tasks, stage[t] \in Querying
    PROVE  query[t].tries \in 0..MaxRetryAttempts /\ query[t] \in QueryRecord
BY DEF TypeInv, LookupTypes, QueryRecord

\* What a query has used is within its time.
LEMMA UsedFits ==
    ASSUME TypeInv, Running, NEW t \in Tasks, stage[t] \in Querying
    PROVE  /\ ConnectUsed(t) \in Nat /\ UsedBy(t) \in Nat /\ UsedBy(t) <= LongestQuery
           /\ UsedBy(t) = Used(query[t].tries) + ConnectUsed(t)
<1> DEFINE k == query[t].tries
           T == config.whois_timeout_seconds
<1>1. k \in 0..MaxRetryAttempts
  BY TriesOfQuery
<1>2. /\ Used(k) \in Nat /\ Used(k) + Attempt <= LongestQuery /\ T <= Attempt
      /\ T \in Nat /\ Attempt \in Nat /\ LongestQuery \in Nat
  BY <1>1, TimeOfQuery
<1>3. ConnectUsed(t) \in {0, T} /\ UsedBy(t) = Used(k) + ConnectUsed(t)
  BY DEF ConnectUsed, UsedBy
<1> HIDE DEF k, T
<1>4. ConnectUsed(t) \in Nat /\ UsedBy(t) \in Nat /\ UsedBy(t) <= LongestQuery
  BY <1>2, <1>3
<1> QED
  BY <1>3, <1>4 DEF k

\* A step that ends a query ends it within its time, one that makes a connection leaves
\* what the connection took, and one that repeats the attempt the time of the next.
LEMMA TimeOfQueryStep ==
    ASSUME TypeInv, NEW t \in Tasks, HoldsPermit(t), NEW b \in Nat,
           spent[t] <= b + UsedBy(t)
    PROVE  /\ spent[t] + StepTime(t) <= b + LongestQuery
           /\ ~Reading(t) /\ ~Retries(query[t], Fault(t)) =>
                 spent[t] + StepTime(t) <=
                     b + Used(query[t].tries) + config.whois_timeout_seconds
           /\ Retries(query[t], Fault(t)) =>
                 spent[t] + StepTime(t) <= b + Used(query[t].tries + 1)
<1> DEFINE k == query[t].tries
           n == NetworkTime(query[t])
           c == ConnectUsed(t)
           T == config.whois_timeout_seconds
<1>1. Running /\ stage[t] \in Querying /\ k \in 0..MaxRetryAttempts
  BY HolderQueries, TriesOfQuery
<1>2. /\ Attempt \in Nat /\ LongestQuery \in Nat /\ T \in Nat /\ T <= Attempt
      /\ Used(k) \in Nat /\ Used(k) + Attempt <= LongestQuery
      /\ Used(k) + Attempt + Backoff(k) = Used(k + 1)
  BY <1>1, TimeOfQuery
<1>3. /\ n \in Nat /\ DripTime(T) \in Nat /\ Attempt = T + DripTime(T)
      /\ ~Reading(t) => n <= T /\ c = 0
      /\ Reading(t) => n <= DripTime(T) /\ c = T
  BY NetworkTimes DEF Attempt, ConnectUsed
<1>4. spent[t] \in Nat /\ Backoff(k) \in Nat
  <2>1. k \in Nat
    BY <1>1, QueryAssumption
  <2>2. spent[t] \in Nat
    BY DEF TypeInv, LookupTypes
  <2> HIDE DEF k
  <2> QED
    BY <2>1, <2>2, PowerIsCardinality DEF Backoff
<1>5. /\ ~Retries(query[t], Fault(t)) => StepTime(t) = n
      /\ Retries(query[t], Fault(t)) => StepTime(t) = n + Backoff(k)
  BY <1>3 DEF StepTime
<1>6. spent[t] <= b + (Used(k) + c)
  BY DEF UsedBy
<1>7. ASSUME Retries(query[t], Fault(t)) PROVE Used(k + 1) <= LongestQuery
  <2>1. k < MaxRetryAttempts
    BY <1>7 DEF Retries
  <2> HIDE DEF k
  <2>2. k + 1 \in 0..MaxRetryAttempts
    BY <1>1, <2>1, QueryAssumption
  <2>3. Used(k + 1) \in Nat /\ Used(k + 1) + Attempt <= LongestQuery
    BY <1>1, <2>2, TimeOfQuery
  <2> QED
    BY <1>2, <2>3
<1> DEFINE r == Retries(query[t], Fault(t))
           drip == DripTime(T)
           pause == Backoff(k)
           used == Used(k)
           next == Used(k + 1)
<1>8. /\ used \in Nat /\ drip \in Nat /\ pause \in Nat /\ T \in Nat /\ n \in Nat
      /\ next = used + Attempt + pause /\ Attempt = T + drip
      /\ used + Attempt <= LongestQuery /\ spent[t] <= b + (used + c)
      /\ ~r => StepTime(t) = n
      /\ r => StepTime(t) = n + pause /\ next <= LongestQuery
      /\ ~Reading(t) => n <= T /\ c = 0
      /\ Reading(t) => n <= drip /\ c = T
      /\ spent[t] \in Nat /\ LongestQuery \in Nat /\ Attempt \in Nat
  BY <1>2, <1>3, <1>4, <1>5, <1>6, <1>7
<1> HIDE DEF k, n, c, T, drip, pause, used, next, r
<1>9. /\ spent[t] + StepTime(t) <= b + LongestQuery
      /\ ~Reading(t) /\ ~r => spent[t] + StepTime(t) <= b + used + T
      /\ r => spent[t] + StepTime(t) <= b + next
  BY <1>8
<1> QED
  BY <1>9 DEF r, used, next, k, T

\* A step of a referral query keeps to its budget, and takes none of it to connect.
LEMMA TimeOfReferral ==
    ASSUME TypeInv, NEW t \in Tasks, HoldsPermit(t), query[t].once
    PROVE  /\ StepTime(t) \in Nat /\ StepTime(t) <= ReferralBudget
           /\ ~Reading(t) /\ Fault(t) = "none" => StepTime(t) = 0
<1>1. ~Retries(query[t], Fault(t))
  BY DEF Retries
<1>2. /\ NetworkTime(query[t]) \in Nat /\ NetworkTime(query[t]) <= ReferralBudget
      /\ ~Reading(t) /\ Fault(t) = "none" => NetworkTime(query[t]) = 0
  BY NetworkTimes
<1>3. StepTime(t) = NetworkTime(query[t])
  BY <1>1, <1>2 DEF StepTime
<1> QED
  BY <1>2, <1>3

\* The numbers of seconds that the time of a lookup is made of.
LEMMA TimesAreNumbers ==
    ASSUME TypeInv, Running, NEW t \in Tasks
    PROVE  /\ LongestQuery \in Nat /\ Discovery \in Nat /\ Healing(t) \in Nat
           /\ spent[t] \in Nat
           /\ config.max_referrals \in Nat /\ ReferralBudget \in Nat
           /\ config.max_referrals * ReferralBudget \in Nat
           /\ LongestLookup = 4 * LongestQuery + 2 * Discovery +
                config.max_referrals * ReferralBudget
<1>1. LongestQuery \in Nat /\ Discovery \in Nat
  BY TimeOfQuery, TimeOfDiscovery
<1>2. Healing(t) \in Nat
  BY <1>1 DEF Healing
<1>3. config.max_referrals \in Nat /\ ReferralBudget \in Nat
  BY RunningConfig, QueryAssumption DEF ReferralBudget, Least
<1>4. config.max_referrals * ReferralBudget \in Nat
  BY <1>3, ProductOfNaturals
<1>5. (2 * (Len(Patterns) + 1)) * DiscoveryTimeout = 2 * Discovery
  <2>1. Len(Patterns) + 1 \in Nat /\ DiscoveryTimeout \in Nat
    BY ServiceAssumption, TimeOfDiscovery
  <2> QED
    BY <2>1 DEF Discovery
<1> QED
  BY <1>1, <1>2, <1>3, <1>4, <1>5 DEF LongestLookup, TypeInv, LookupTypes

\* The referrals that were answered, and one more, have their budgets in the longest lookup.
LEMMA ReferralsFit ==
    ASSUME TypeInv, Running, NEW t \in Tasks, stage[t] = "hop", Chain(t)
    PROVE  /\ Answered(t) * ReferralBudget + ReferralBudget <=
                 config.max_referrals * ReferralBudget
           /\ Answered(t) * ReferralBudget + ReferralBudget =
                 (Cardinality(visited[t]) - 1) * ReferralBudget
           /\ Answered(t) * ReferralBudget \in Int
<1> DEFINE n == Cardinality(visited[t]) - 1
           H == ReferralBudget
           M == config.max_referrals
<1>1. Cardinality(visited[t]) \in Nat /\ Cardinality(visited[t]) # 0
  BY FS_CardinalityType, FS_EmptySet DEF Chain
<1>2. n \in Nat /\ n <= M /\ M \in Nat /\ H \in Nat
  BY <1>1, TimesAreNumbers DEF Chain
<1>3. Answered(t) = n - 1
  BY <1>1 DEF Answered
<1> HIDE DEF n, H, M
<1>4. n * H <= M * H
  BY <1>2, ProductGrows
<1>5. (n - 1) * H + H = n * H /\ (n - 1) * H \in Int
  BY <1>2
<1> QED
  BY <1>3, <1>4, <1>5 DEF n, H, M

\* In every stage a lookup is within the longest time of a lookup.
LEMMA WithinLongestLookup ==
    ASSUME TypeInv, Running, NEW t \in Tasks, TimeOf(t), Chain(t)
    PROVE  spent[t] <= LongestLookup
<1> DEFINE Q == LongestQuery
           D == Discovery
           H == config.max_referrals * ReferralBudget
           A == Answered(t) * ReferralBudget
<1>1. /\ Q \in Nat /\ D \in Nat /\ spent[t] \in Nat /\ H \in Nat
      /\ LongestLookup = 4 * Q + 2 * D + H
  BY TimesAreNumbers
<1>2. Healing(t) = 0 \/ Healing(t) = 2 * Q + D
  BY DEF Healing
<1>3. stage[t] \in {"root", "ask", "askNew"} => UsedBy(t) \in Nat /\ UsedBy(t) <= Q
  BY UsedFits DEF Querying
<1>4. stage[t] = "test" => /\ Tested(Len(candidates[t])) \in Nat
                           /\ Tested(Len(candidates[t])) <= D
  BY TimeOfDiscovery, ServiceAssumption DEF TimeOf, TypeInv, LookupTypes
<1>5. stage[t] \in Stages
  BY DEF TypeInv, LookupTypes
<1>6. stage[t] = "hop" => A \in Int /\ A <= H
  <2>1. ReferralBudget \in Nat
    BY TimesAreNumbers
  <2>2. stage[t] = "hop" => A \in Int /\ A + ReferralBudget <= H
    BY ReferralsFit
  <2> HIDE DEF A, H
  <2> QED
    BY <1>1, <2>1, <2>2
<1>7. stage[t] = "hop" => spent[t] <= 4 * Q + 2 * D + A
  BY DEF TimeOf
<1> HIDE DEF Q, D, H, A
<1>8. CASE stage[t] = "hop"
  BY <1>1, <1>6, <1>7, <1>8
<1>9. CASE stage[t] # "hop"
  BY <1>1, <1>2, <1>3, <1>4, <1>5, <1>9 DEF TimeOf, Stages, Q, D
<1> QED
  BY <1>8, <1>9

\* While the configuration is the same, so are the times.
LEMMA TimesStaySame ==
    ASSUME UNCHANGED config, NEW t \in Tasks
    PROVE  /\ LongestQuery' = LongestQuery /\ Discovery' = Discovery
           /\ LongestLookup' = LongestLookup
           /\ ReferralBudget' = ReferralBudget
           /\ Used(query[t].tries)' = Used(query'[t].tries)
           /\ UsedBy(t)' = Used(query'[t].tries) +
                IF query'[t].stage = "read" THEN config.whois_timeout_seconds ELSE 0
           /\ query'[t] = query[t] => UsedBy(t)' = UsedBy(t)
           /\ visited'[t] = visited[t] => Answered(t)' = Answered(t)
           /\ Tested(Len(candidates[t]))' = Tested(Len(candidates'[t]))
           /\ failed'[t] = failed[t] => Healing(t)' = Healing(t)
BY DEF LongestQuery, Discovery, LongestLookup, Used, Attempt, UsedBy, ConnectUsed, Reading,
    Tested, DripTime, DiscoveryTimeout, Healing, ReferralBudget, Answered

\* A query that is only asked for has used nothing.
LEMMA NothingUsed ==
    ASSUME TypeInv, UNCHANGED config, Running, NEW t \in Tasks,
           query'[t].stage = "permit", query'[t].tries = 0
    PROVE  UsedBy(t)' = 0
<1>1. Used(0) = 0
  BY TimeOfQuery
<1>2. UsedBy(t)' = Used(query'[t].tries) +
          IF query'[t].stage = "read" THEN config.whois_timeout_seconds ELSE 0
  BY TimesStaySame
<1> QED
  BY <1>1, <1>2

\* A lookup that takes a step is served by a service that runs.
LEMMA StepRuns ==
    ASSUME TypeInv, NEW t \in Tasks, StepOf(t)
    PROVE  Running
<1>1. CASE Begin(t)
  BY <1>1 DEF Begin
<1>2. CASE Network(t)
  <2>1. query[t] # NoQuery
    BY <1>2, QueryStepOfOne DEF Network, QueryRecord, NoQuery
  <2> QED
    BY <2>1 DEF TypeInv, LookupTypes, Querying
<1>3. CASE LookupStep(t) \/ Disconnect(t)
  <2>1. CASE QueryOverruns(t)
    BY <2>1, HolderQueries DEF QueryOverruns
  <2>2. CASE ~QueryOverruns(t)
    <3>1. stage[t] # "idle"
      BY <1>3, <2>2 DEF Disconnect, LookupStep, RootAnswers, RootFails, TestHolds, TestFails,
          Insert, ServerAnswers, ServerFails, Purge, NewServerAnswers, NewServerFails, Keep,
          HopAnswers, HopFails, TimeOut
    <3> QED
      BY <3>1, BusyMeansRunning
  <2> QED
    BY <2>1, <2>2
<1> QED
  BY <1>1, <1>2, <1>3 DEF StepOf

\* The end of a lookup takes back its time.
LEMMA FinishTakesTimeBack ==
    ASSUME LookupTypes, NEW t \in Tasks, NEW fault, Finish(t, fault)
    PROVE  TimeOf(t)'
BY DEF Finish, GoTo, TimeOf, LookupTypes

\* What follows an answer has its own time, and a referral that was answered its budget.
LEMMA DigestTakesItsTime ==
    ASSUME TypeInv, UNCHANGED config, NEW t \in Tasks, NEW s, NEW asked, NEW seconds,
           Digest(t, s, asked, seconds), IsFiniteSet(asked),
           spent[t] + seconds <= 4 * LongestQuery + 2 * Discovery +
                                     (Cardinality(asked) - 1) * ReferralBudget
    PROVE  TimeOf(t)'
<1>1. LookupTypes
  BY DEF TypeInv
<1>2. CASE MayFollow(s, asked)
  <2>1. /\ stage'[t] = "hop" /\ spent'[t] = spent[t] + seconds
        /\ query'[t] = NewQuery(refers[s], "domain", TRUE)
        /\ visited'[t] = asked \cup {refers[s]}
    BY <1>1, <1>2 DEF Digest, Ask, GoTo, SpendStep, LookupTypes
  <2>2. query'[t].once
    BY <2>1 DEF NewQuery
  <2>3. Answered(t)' = Cardinality(asked) - 1
    <3>1. Cardinality(asked \cup {refers[s]}) = Cardinality(asked) + 1
      BY <1>2, FS_AddElement DEF MayFollow
    <3>2. Cardinality(asked) \in Nat
      BY FS_CardinalityType
    <3> QED
      BY <2>1, <3>1, <3>2 DEF Answered
  <2>4. /\ (4 * LongestQuery + 2 * Discovery + Answered(t) * ReferralBudget)' =
              4 * LongestQuery + 2 * Discovery + (Cardinality(asked) - 1) * ReferralBudget
    BY <2>3, TimesStaySame
  <2> QED
    BY <2>1, <2>2, <2>4 DEF TimeOf
<1>3. CASE ~MayFollow(s, asked)
  BY <1>1, <1>3, FinishTakesTimeBack DEF Digest
<1> QED
  BY <1>2, <1>3

\* The answer of a lookup's own server begins the chain.
LEMMA FirstOfChain ==
    ASSUME TypeInv, UNCHANGED config, Running, NEW t \in Tasks, NEW s, NEW seconds,
           Digest(t, s, {s}, seconds),
           spent[t] + seconds <= 4 * LongestQuery + 2 * Discovery
    PROVE  TimeOf(t)'
<1>1. Cardinality({s}) = 1 /\ IsFiniteSet({s})
  BY FS_Singleton
<1>2. ReferralBudget \in Nat /\ LongestQuery \in Nat /\ Discovery \in Nat
  BY TimesAreNumbers
<1>3. 4 * LongestQuery + 2 * Discovery + (Cardinality({s}) - 1) * ReferralBudget =
          4 * LongestQuery + 2 * Discovery
  BY <1>1, <1>2
<1> QED
  BY <1>1, <1>3, DigestTakesItsTime

\* A lookup that waits for a query keeps within its time, whether the query gets its
\* permit, makes its connection or repeats its attempt.
LEMMA TimeOfNetwork ==
    ASSUME TypeInv, UNCHANGED config, NEW t \in Tasks, Network(t), TimeOf(t)
    PROVE  TimeOf(t)'
<1>1. /\ QueryStep(t) /\ stage[t] \in Querying /\ Running
      /\ UNCHANGED <<stage, failed, candidates, visited>>
  <2>1. query[t] # NoQuery
    BY QueryStepOfOne DEF Network, QueryRecord, NoQuery
  <2> QED
    BY <2>1, StepRuns DEF Network, StepOf, lookup, TypeInv, LookupTypes
<1>2. query'[t].once = query[t].once /\ query[t] \in QueryRecord
  BY <1>1, QueryStepOfOne
<1> DEFINE b == IF stage[t] = "root" THEN Healing(t)
                ELSE IF stage[t] = "ask" THEN LongestQuery + Discovery
                ELSE 3 * LongestQuery + 2 * Discovery
           k == query[t].tries
           T == config.whois_timeout_seconds
<1>3. b \in Nat /\ LongestQuery \in Nat /\ Discovery \in Nat /\ spent[t] \in Nat
  BY <1>1, TimesAreNumbers
<1>4. T \in Nat /\ Used(k) \in Nat
  BY <1>1, TimeOfQuery, TriesOfQuery
<1>5. stage[t] # "hop" => spent[t] <= b + UsedBy(t)
  BY <1>1 DEF TimeOf, Querying
<1>6. UsedBy(t)' = Used(query'[t].tries) + IF query'[t].stage = "read" THEN T ELSE 0
  BY TimesStaySame
<1>7. ASSUME stage[t] # "hop", spent'[t] <= b + UsedBy(t)' PROVE TimeOf(t)'
  BY <1>1, <1>7, TimesStaySame DEF TimeOf, Querying
<1>8. ASSUME stage[t] = "hop", spent'[t] = spent[t] PROVE TimeOf(t)'
  BY <1>1, <1>2, <1>8, TimesStaySame DEF TimeOf, Querying
<1>9. CASE AcquirePermit(t)
  <2>1. /\ spent'[t] = spent[t] /\ query'[t].tries = k /\ query'[t].stage = "connect"
        /\ ~Reading(t)
    BY <1>2, <1>9 DEF AcquirePermit, Reading, QueryRecord, TypeInv, LookupTypes
  <2>2. UsedBy(t)' = Used(k) /\ UsedBy(t) = Used(k)
    BY <1>4, <1>6, <2>1 DEF UsedBy, ConnectUsed
  <2> HIDE DEF b
  <2> QED
    BY <1>5, <1>7, <1>8, <2>1, <2>2
<1>10. CASE Connect(t)
  <2>1. /\ spent'[t] = spent[t] + StepTime(t) /\ query'[t].tries = k
        /\ query'[t].stage = "read" /\ ~Reading(t) /\ Fault(t) = "none" /\ HoldsPermit(t)
    BY <1>2, <1>10 DEF Connect, HoldsPermit, Reading, QueryRecord, TypeInv, LookupTypes
  <2>2. ~Retries(query[t], Fault(t))
    BY <2>1 DEF Retries
  <2>3. CASE stage[t] # "hop"
    <3>1. spent'[t] <= b + Used(k) + T
      <4> HIDE DEF b
      <4> QED
        BY <1>3, <1>5, <2>1, <2>2, <2>3, TimeOfQueryStep
    <3>2. UsedBy(t)' = Used(k) + T
      BY <1>6, <2>1
    <3> HIDE DEF b, T, k
    <3>3. spent'[t] <= b + UsedBy(t)'
      BY <1>3, <1>4, <3>1, <3>2
    <3> QED
      BY <1>7, <2>3, <3>3
  <2>4. CASE stage[t] = "hop"
    <3>1. query[t].once
      BY <2>4 DEF TimeOf
    <3>2. StepTime(t) = 0
      BY <2>1, <3>1, TimeOfReferral
    <3> QED
      BY <1>3, <1>8, <2>1, <2>4, <3>2
  <2> QED
    BY <2>3, <2>4
<1>11. CASE Retry(t)
  <2>1. /\ HoldsPermit(t) /\ Retries(query[t], Fault(t)) /\ ~query[t].once
        /\ spent'[t] = spent[t] + StepTime(t) /\ query'[t].tries = k + 1
        /\ query'[t].stage = "connect"
    BY <1>2, <1>11 DEF Retry, Retries, QueryRecord, TypeInv, LookupTypes
  <2>2. stage[t] # "hop"
    BY <2>1 DEF TimeOf
  <2>3. spent'[t] <= b + Used(k + 1)
    <3> HIDE DEF b
    <3> QED
      BY <1>3, <1>5, <2>1, <2>2, TimeOfQueryStep
  <2>4. UsedBy(t)' = Used(k + 1)
    <3>1. Used(k + 1) \in Int
      <4>1. k \in 0..MaxRetryAttempts
        BY <1>1, TriesOfQuery
      <4>2. Used(k + 1) = Used(k) + Attempt + Backoff(k) /\ Attempt \in Nat
        BY <1>1, <4>1, TimeOfQuery
      <4>3. k \in Nat
        BY <4>1, QueryAssumption
      <4>4. Backoff(k) \in Nat
        <5> HIDE DEF k
        <5> QED
          BY <4>3, PowerIsCardinality DEF Backoff
      <4> QED
        BY <1>4, <4>2, <4>4
    <3> QED
      BY <1>6, <2>1, <3>1
  <2> HIDE DEF b, k
  <2> QED
    BY <1>7, <2>2, <2>3, <2>4
<1> QED
  BY <1>1, <1>9, <1>10, <1>11 DEF QueryStep

\* A step of a lookup keeps it within its time: one step for each of its stages.
LEMMA TimeOfStep ==
    ASSUME TypeInv, UNCHANGED config, NEW t \in Tasks, TimeOf(t), Chain(t), StepOf(t)
    PROVE  TimeOf(t)'
<1> DEFINE Q == LongestQuery
           D == Discovery
           L == Len(Patterns)
<1>1. /\ Running /\ LookupTypes
      /\ Q \in Nat /\ D \in Nat /\ Healing(t) \in Nat /\ spent[t] \in Nat
  BY StepRuns, TimesAreNumbers DEF TypeInv
<1>2. L \in Nat /\ DiscoveryTimeout \in Nat
  BY <1>1, ServiceAssumption, TimeOfDiscovery
<1>3. stage[t] \in Querying => UsedBy(t) \in Nat /\ UsedBy(t) <= Q
  BY <1>1, UsedFits
<1>4. /\ \A n \in 0..(L + 1) : Tested(n) \in Nat /\ Tested(n) <= D
      /\ \A n \in 1..(L + 1) : Tested(n - 1) = Tested(n) + DiscoveryTimeout
  BY <1>1, TimeOfDiscovery
<1>5. ASSUME Begin(t) PROVE TimeOf(t)'
  <2>1. /\ spent'[t] = 0 /\ query'[t].tries = 0 /\ query'[t].stage = "permit"
        /\ stage'[t] \in {"root", "ask"} /\ UNCHANGED failed
    BY <1>1, <1>5 DEF Begin, Ask, GoTo, NewQuery, TimeOf, LookupTypes
  <2>2. UsedBy(t)' = 0
    BY <1>1, <2>1, NothingUsed
  <2> QED
    BY <1>1, <2>1, <2>2, TimesStaySame DEF TimeOf
<1>6. ASSUME RootAnswers(t) \/ RootFails(t) PROVE TimeOf(t)'
  <2>1. /\ stage'[t] = "test" /\ UNCHANGED failed
        /\ \/ candidates'[t] = Patterns
           \/ rootSays # None /\ candidates'[t] = <<rootSays>> \o Patterns
    BY <1>1, <1>6 DEF RootAnswers, RootFails, GoTo, LookupTypes
  <2>2. Len(candidates'[t]) \in 0..(L + 1)
    <3>1. rootSays # None => Len(<<rootSays>> \o Patterns) = L + 1
      BY ServiceAssumption DEF TypeInv, WorldTypes
    <3> QED
      BY <1>2, <2>1, <3>1
  <2>3. spent'[t] <= Healing(t) + Q
    <3>1. spent'[t] = spent[t] + StepTime(t)
      BY <1>1, <1>6 DEF RootAnswers, RootFails, SpendStep, LookupTypes
    <3>2. HoldsPermit(t) /\ spent[t] <= Healing(t) + UsedBy(t)
      BY <1>6 DEF RootAnswers, RootFails, Answers, Fails, Reading, HoldsPermit, TimeOf
    <3> QED
      BY <1>1, <3>1, <3>2, TimeOfQueryStep
  <2>4. spent'[t] \in Nat
    BY TypeInvNext, <1>6 DEF TypeInv, LookupTypes, Next, LookupStep
  <2>5. spent'[t] <= Healing(t) + Q + Tested(Len(candidates'[t]))
    BY <1>1, <1>4, <2>2, <2>3, <2>4
  <2> QED
    BY <2>1, <2>2, <2>5, TimesStaySame DEF TimeOf
<1>7. ASSUME TestHolds(t) PROVE TimeOf(t)'
  <2> DEFINE n == Len(candidates[t])
             T == TestTime(Head(candidates[t]))
  <2>1. stage[t] = "test" /\ n \in 1..(L + 1)
    BY <1>1, <1>2, <1>7 DEF TestHolds, TimeOf, LookupTypes
  <2>2. spent[t] + T <= Healing(t) + Q + D
    <3>1. spent[t] <= Healing(t) + Q + Tested(n)
      BY <2>1 DEF TimeOf
    <3>2. T \in Nat /\ T <= DiscoveryTimeout
      BY <1>1, TestTimes
    <3> HIDE DEF T, n, Q, D, L
    <3>3. /\ Tested(n) \in Nat /\ Tested(n - 1) = Tested(n) + DiscoveryTimeout
          /\ Tested(n - 1) <= D
      BY <1>2, <1>4, <2>1
    <3> QED
      BY <1>1, <1>2, <3>1, <3>2, <3>3
  <2>3. CASE Head(candidates[t]) = failed[t]
    BY <1>1, <1>7, <2>3, FinishTakesTimeBack DEF TestHolds
  <2>4. CASE Head(candidates[t]) # failed[t] /\ failed[t] = None
    <3>1. stage'[t] = "insert" /\ spent'[t] = spent[t] + T /\ Healing(t) = 0
      BY <1>1, <1>7, <2>4 DEF TestHolds, SpendStep, GoTo, Healing, LookupTypes
    <3> QED
      BY <1>1, <2>2, <3>1, TimesStaySame DEF TimeOf
  <2>5. CASE Head(candidates[t]) # failed[t] /\ failed[t] # None
    <3>1. /\ stage'[t] = "askNew" /\ spent'[t] = spent[t] + T /\ query'[t].tries = 0
          /\ query'[t].stage = "permit" /\ Healing(t) = 2 * Q + D
      BY <1>1, <1>7, <2>5
      DEF TestHolds, SpendStep, GoTo, Ask, NewQuery, Healing, LookupTypes
    <3>2. UsedBy(t)' = 0
      BY <1>1, <3>1, NothingUsed
    <3> QED
      BY <1>1, <2>2, <3>1, <3>2, TimesStaySame DEF TimeOf
  <2> QED
    BY <2>3, <2>4, <2>5
<1>8. ASSUME TestFails(t) PROVE TimeOf(t)'
  <2> DEFINE n == Len(candidates[t])
  <2>1. CASE candidates[t] = <<>>
    BY <1>1, <1>8, <2>1, FinishTakesTimeBack DEF TestFails
  <2>2. CASE candidates[t] # <<>>
    <3>1. /\ stage[t] = "test" /\ stage'[t] = "test" /\ UNCHANGED failed
          /\ spent'[t] = spent[t] + TestTime(Head(candidates[t]))
          /\ candidates'[t] = Tail(candidates[t])
      BY <1>1, <1>8, <2>2 DEF TestFails, SpendStep, LookupTypes
    <3>2. n \in 1..(L + 1) /\ Len(candidates'[t]) = n - 1
      BY <1>1, <1>2, <2>2, <3>1 DEF TimeOf, LookupTypes
    <3>3. TestTime(Head(candidates[t])) \in 0..DiscoveryTimeout
      <4>1. /\ TestTime(Head(candidates[t])) \in Nat
            /\ TestTime(Head(candidates[t])) <= DiscoveryTimeout
        BY <1>1, TestTimes
      <4> QED
        BY <1>2, <4>1
    <3>4. spent[t] <= Healing(t) + Q + Tested(n)
      BY <3>1 DEF TimeOf
    <3> HIDE DEF n, Q, D, L
    <3>5. Tested(n) \in Nat /\ Tested(n - 1) = Tested(n) + DiscoveryTimeout /\ n - 1 <= L + 1
      BY <1>2, <1>4, <3>2
    <3>6. spent'[t] <= Healing(t) + Q + Tested(n - 1)
      BY <1>1, <1>2, <3>1, <3>3, <3>4, <3>5
    <3> QED
      BY <3>1, <3>2, <3>5, <3>6, TimesStaySame DEF TimeOf, Q, L
  <2> QED
    BY <2>1, <2>2
<1>9. ASSUME Insert(t) PROVE TimeOf(t)'
  <2>1. /\ stage[t] = "insert" /\ stage'[t] = "ask" /\ query'[t].tries = 0
        /\ query'[t].stage = "permit" /\ spent'[t] = spent[t]
    BY <1>1, <1>9 DEF Insert, Ask, GoTo, NewQuery, LookupTypes
  <2>2. UsedBy(t)' = 0
    BY <1>1, <2>1, NothingUsed
  <2> QED
    BY <1>1, <2>1, <2>2, TimesStaySame DEF TimeOf
<1>10. ASSUME ServerFails(t) PROVE TimeOf(t)'
  <2>1. /\ stage'[t] = "purge" /\ spent'[t] = spent[t] + StepTime(t)
        /\ failed'[t] = server[t]
    BY <1>1, <1>10 DEF ServerFails, SpendStep, GoTo, LookupTypes
  <2>2. failed'[t] # None
    BY <1>1, <1>10, <2>1, QueryAssumption DEF ServerFails, LookupTypes, WithServer
  <2>3. HoldsPermit(t) /\ spent[t] <= (Q + D) + UsedBy(t) /\ Q + D \in Nat
    BY <1>1, <1>10 DEF ServerFails, Fails, TimeOf
  <2>4. spent[t] + StepTime(t) <= (Q + D) + Q
    BY <2>3, TimeOfQueryStep
  <2> QED
    BY <1>1, <2>1, <2>2, <2>4, TimesStaySame DEF TimeOf
<1>11. ASSUME Purge(t) PROVE TimeOf(t)'
  <2>1. /\ stage[t] = "purge" /\ stage'[t] = "root" /\ query'[t].tries = 0
        /\ query'[t].stage = "permit" /\ spent'[t] = spent[t] /\ UNCHANGED failed
    BY <1>1, <1>11 DEF Purge, Ask, GoTo, NewQuery, LookupTypes
  <2>2. Healing(t) = 2 * Q + D
    BY <2>1 DEF TimeOf, Healing
  <2>3. UsedBy(t)' = 0
    BY <1>1, <2>1, NothingUsed
  <2> QED
    BY <1>1, <2>1, <2>2, <2>3, TimesStaySame DEF TimeOf
<1>12. ASSUME NewServerAnswers(t) PROVE TimeOf(t)'
  <2>1. stage[t] = "askNew" /\ stage'[t] = "keep" /\ spent'[t] = spent[t] + StepTime(t)
    BY <1>1, <1>12 DEF NewServerAnswers, SpendStep, GoTo, LookupTypes
  <2>2. /\ HoldsPermit(t) /\ spent[t] <= (3 * Q + 2 * D) + UsedBy(t)
        /\ 3 * Q + 2 * D \in Nat
    BY <1>1, <1>12, <2>1 DEF NewServerAnswers, Answers, Reading, HoldsPermit, TimeOf
  <2>3. spent[t] + StepTime(t) <= (3 * Q + 2 * D) + Q
    BY <2>2, TimeOfQueryStep
  <2>4. spent[t] + StepTime(t) <= 4 * Q + 2 * D
    <3>1. StepTime(t) \in Nat
      BY <2>2, StepTimeType
    <3> HIDE DEF Q, D
    <3> QED
      BY <1>1, <2>3, <3>1
  <2> QED
    BY <2>1, <2>4, TimesStaySame DEF TimeOf
<1>13. ASSUME ServerAnswers(t) \/ Keep(t) \/ HopAnswers(t) PROVE TimeOf(t)'
  <2>1. CASE ServerAnswers(t)
    <3>1. /\ HoldsPermit(t) /\ spent[t] <= (Q + D) + UsedBy(t) /\ Q + D \in Nat
      BY <1>1, <2>1 DEF ServerAnswers, Answers, Reading, HoldsPermit, TimeOf
    <3>2. spent[t] + StepTime(t) <= (Q + D) + Q /\ StepTime(t) \in Nat
      BY <3>1, TimeOfQueryStep, StepTimeType
    <3>3. spent[t] + StepTime(t) <= 4 * Q + 2 * D
      <4> HIDE DEF Q, D
      <4> QED
        BY <1>1, <3>2
    <3>4. Digest(t, server[t], {server[t]}, StepTime(t))
      BY <2>1 DEF ServerAnswers
    <3> QED
      BY <1>1, <3>3, <3>4, FirstOfChain
  <2>2. CASE Keep(t)
    <3>1. spent[t] + 0 <= 4 * Q + 2 * D
      BY <1>1, <2>2 DEF Keep, TimeOf
    <3>2. Digest(t, server[t], {server[t]}, 0)
      BY <2>2 DEF Keep
    <3> QED
      BY <1>1, <3>1, <3>2, FirstOfChain
  <2>3. CASE HopAnswers(t)
    <3> DEFINE A == Answered(t) * ReferralBudget
               N == (Cardinality(visited[t]) - 1) * ReferralBudget
    <3>1. /\ stage[t] = "hop" /\ HoldsPermit(t) /\ query[t].once
          /\ spent[t] <= 4 * Q + 2 * D + A
      BY <2>3 DEF HopAnswers, Answers, Reading, HoldsPermit, TimeOf
    <3>2. StepTime(t) \in Nat /\ StepTime(t) <= ReferralBudget /\ ReferralBudget \in Nat
      BY <1>1, <3>1, TimeOfReferral, TimesAreNumbers
    <3>3. A + ReferralBudget = N /\ A \in Int
      BY <1>1, <3>1, ReferralsFit
    <3>4. spent[t] + StepTime(t) <= 4 * Q + 2 * D + N
      <4> HIDE DEF A, N, Q, D
      <4> QED
        BY <1>1, <3>1, <3>2, <3>3
    <3>5. Digest(t, query[t].server, visited[t], StepTime(t)) /\ IsFiniteSet(visited[t])
      BY <2>3, <3>1 DEF HopAnswers, Chain
    <3> QED
      BY <3>4, <3>5, DigestTakesItsTime
  <2> QED
    BY <1>13, <2>1, <2>2, <2>3
<1>14. ASSUME NewServerFails(t) \/ HopFails(t) \/ TimeOut(t) \/ Disconnect(t)
       PROVE  TimeOf(t)'
  <2>1. \E fault : Finish(t, fault)
    BY <1>14 DEF NewServerFails, HopFails, TimeOut, Disconnect, CutOff
  <2> QED
    BY <1>1, <2>1, FinishTakesTimeBack
<1>15. ASSUME Network(t) PROVE TimeOf(t)'
  BY <1>15, TimeOfNetwork
<1> QED
  BY <1>5, <1>6, <1>7, <1>8, <1>9, <1>10, <1>11, <1>12, <1>13, <1>14, <1>15
  DEF StepOf, LookupStep

\* Every step keeps every lookup within the budget of the stage it has reached.
LEMMA TimeKept == TypeInv /\ ChainInv /\ TimeInv /\ [Next]_vars => TimeInv'
<1> SUFFICES ASSUME TypeInv, ChainInv, TimeInv, [Next]_vars, NEW u \in Tasks
             PROVE  TimeOf(u)'
  BY DEF TimeInv
<1>1. TimeOf(u) /\ LookupTypes /\ Chain(u)
  BY DEF TimeInv, ChainInv, TypeInv
<1>2. ASSUME UNCHANGED config, Same(u) PROVE TimeOf(u)'
  BY <1>1, <1>2, TimesStaySame DEF TimeOf, Same
<1>3. ASSUME NEW t \in Tasks, StepOf(t) PROVE TimeOf(u)'
  <2>1. UNCHANGED config
    BY <1>3, StepKeepsWorld DEF world
  <2> QED
    BY <1>1, <1>2, <1>3, <2>1, OthersStaySame, TimeOfStep
<1>4. CASE Start
  BY <1>1, <1>4 DEF Start, lookup, TypeInv, TimeOf
<1>5. CASE Move \/ UNCHANGED vars
  BY <1>2, <1>5 DEF Move, vars, world, lookup, queryVars, Same
<1> QED
  BY <1>3, <1>4, <1>5 DEF Next, StepOf

\* No server, however late it connects, drips, stalls, fails or refers, and no setting of
\* the limits keeps a lookup longer than the sum of its limits.
THEOREM LookupTimeIsBounded == Spec => []LookupTimeBounded
<1> DEFINE Inv == TypeInv /\ ChainInv /\ TimeInv
<1>1. Init => Inv
  BY TypeInvInit DEF Init, ChainInv, Chain, TimeInv, TimeOf
<1>2. Inv /\ [Next]_vars => Inv'
  BY TypeInvNext, ChainKept, TimeKept
<1>3. Inv => LookupTimeBounded
  BY WithinLongestLookup DEF TimeInv, ChainInv, LookupTimeBounded
<1> QED
  BY <1>1, <1>2, <1>3, PTL DEF Spec

-------------------------------------------------------------------------------
(* Lookups that succeed *)

\* The longest lookup has the time for whatever a query does next ...
LEMMA QueryStepFits ==
    ASSUME TypeInv, NEW t \in Tasks, TimeOf(t), Chain(t), HoldsPermit(t)
    PROVE  spent[t] + StepTime(t) <= LongestLookup
<1> DEFINE Q == LongestQuery
           D == Discovery
           H == config.max_referrals * ReferralBudget
           A == Answered(t) * ReferralBudget
<1>1. Running /\ stage[t] \in Querying
  BY HolderQueries
<1>2. /\ Q \in Nat /\ D \in Nat /\ spent[t] \in Nat /\ Healing(t) \in Nat
      /\ H \in Nat /\ ReferralBudget \in Nat /\ StepTime(t) \in Nat
      /\ LongestLookup = 4 * Q + 2 * D + H
      /\ Healing(t) = 0 \/ Healing(t) = 2 * Q + D
  BY <1>1, TimesAreNumbers, StepTimeType DEF Healing
<1>3. CASE stage[t] = "hop"
  <2>1. spent[t] <= 4 * Q + 2 * D + A /\ query[t].once
    BY <1>3 DEF TimeOf
  <2>2. StepTime(t) <= ReferralBudget
    BY <2>1, TimeOfReferral
  <2>3. A + ReferralBudget <= H /\ A \in Int
    BY <1>1, <1>3, ReferralsFit
  <2> HIDE DEF Q, D, H, A
  <2> QED
    BY <1>2, <2>1, <2>2, <2>3
<1>4. CASE stage[t] # "hop"
  <2> DEFINE b == IF stage[t] = "root" THEN Healing(t)
                  ELSE IF stage[t] = "ask" THEN Q + D ELSE 3 * Q + 2 * D
  <2>1. b \in Nat /\ spent[t] <= b + UsedBy(t)
    BY <1>1, <1>2, <1>4 DEF TimeOf, Querying
  <2>2. b + Q <= 4 * Q + 2 * D
    <3> HIDE DEF Q, D
    <3> QED
      BY <1>2
  <2>3. spent[t] + StepTime(t) <= b + Q
    <3> HIDE DEF b
    <3> QED
      BY <2>1, TimeOfQueryStep
  <2> HIDE DEF Q, D, H, b
  <2> QED
    BY <1>2, <2>1, <2>2, <2>3
<1> QED
  BY <1>3, <1>4

\* ... and for the next candidate of a discovery.
LEMMA TestFits ==
    ASSUME TypeInv, NEW t \in Tasks, TimeOf(t), stage[t] = "test", candidates[t] # <<>>, NEW s
    PROVE  TestTime(s) \in Nat /\ spent[t] + TestTime(s) <= LongestLookup
<1> DEFINE Q == LongestQuery
           D == Discovery
           H == config.max_referrals * ReferralBudget
           n == Len(candidates[t])
           L == Len(Patterns)
           T == TestTime(s)
<1>1. Running
  BY BusyMeansRunning
<1>2. /\ Q \in Nat /\ D \in Nat /\ spent[t] \in Nat /\ H \in Nat
      /\ LongestLookup = 4 * Q + 2 * D + H
      /\ Healing(t) = 0 \/ Healing(t) = 2 * Q + D
  BY <1>1, TimesAreNumbers DEF Healing
<1>3. n \in 1..(L + 1) /\ spent[t] <= Healing(t) + Q + Tested(n)
  BY ServiceAssumption DEF TimeOf, TypeInv, LookupTypes
<1>4. T \in Nat /\ DiscoveryTimeout \in Nat /\ T <= DiscoveryTimeout
  BY <1>1, TestTimes
<1>5. Tested(n) \in Nat /\ Tested(n) + DiscoveryTimeout <= D
  <2>1. n \in 0..(L + 1) /\ n - 1 \in 0..(L + 1)
    BY <1>3, ServiceAssumption
  <2> HIDE DEF n, L
  <2>2. /\ Tested(n) \in Nat /\ Tested(n - 1) <= D
        /\ Tested(n - 1) = Tested(n) + DiscoveryTimeout
    BY <1>1, <1>3, <2>1, TimeOfDiscovery DEF L
  <2> QED
    BY <2>2
<1> HIDE DEF Q, D, H, n, L, T
<1>6. spent[t] + T <= 4 * Q + 2 * D + H
  <2>1. spent[t] + T <= Healing(t) + Q + D
    BY <1>2, <1>3, <1>4, <1>5
  <2>2. Healing(t) + Q + D <= 4 * Q + 2 * D + H
    BY <1>2
  <2>3. spent[t] + T \in Nat /\ Healing(t) + Q + D \in Nat /\ 4 * Q + 2 * D + H \in Nat
    BY <1>2, <1>4
  <2> QED
    BY <2>1, <2>2, <2>3
<1> QED
  BY <1>2, <1>4, <1>6 DEF T

\* So a caller with the patience for the longest lookup never cuts one off.
LEMMA PatientNeverCutsOff ==
    ASSUME TypeInv, Patient, NEW t \in Tasks, TimeOf(t), Chain(t)
    PROVE  ~TimeOut(t)
<1>1. /\ LongestLookup \in Nat /\ LongestLookup < RequestTimeout
      /\ RequestTimeout \in Nat /\ spent[t] \in Nat
  BY TimesAreNumbers, QueryAssumption DEF Patient
<1>2. ASSUME QueryOverruns(t) PROVE FALSE
  <2>1. HoldsPermit(t) /\ ~(spent[t] + StepTime(t) < RequestTimeout)
    BY <1>2 DEF QueryOverruns, WithinLimit
  <2>2. StepTime(t) \in Nat /\ spent[t] + StepTime(t) <= LongestLookup
    BY <2>1, StepTimeType, QueryStepFits
  <2> QED
    BY <1>1, <2>1, <2>2
<1>3. ASSUME stage[t] = "test", candidates[t] # <<>>, NEW s, ~WithinLimit(t, TestTime(s))
      PROVE  FALSE
  <2>1. TestTime(s) \in Nat /\ spent[t] + TestTime(s) <= LongestLookup
    BY <1>3, TestFits
  <2> QED
    BY <1>1, <1>3, <2>1 DEF WithinLimit
<1> QED
  BY <1>2, <1>3 DEF TimeOut

\* The host that each query of a lookup asks.
QueryOf(t) ==
    /\ stage[t] = "idle" => failed[t] = None
    /\ stage[t] = "root" => query[t].server = Root /\ ~query[t].once
    /\ stage[t] \in {"ask", "askNew"} => query[t].server = server[t] /\ ~query[t].once

\* What a lookup knows when it began in a settled world with a registry that works: the
\* server it heals from is not the one the root names, which it tests and asks next.
SettledOf(t) ==
    /\ sinceSettled[t] => Settled /\ Running
    /\ RegistryWorks /\ Patient /\ sinceSettled[t] =>
          /\ failure[t] = "none" /\ failed[t] # rootSays
          /\ stage[t] = "test" => candidates[t] # <<>> /\ Head(candidates[t]) = rootSays
          /\ stage[t] = "askNew" => server[t] = rootSays

SettledInv == \A t \in Tasks : QueryOf(t) /\ SettledOf(t)

\* The root's query, and one to the server the root names, do not fail.
LEMMA NoFaultOfWorkingServers ==
    ASSUME RegistryWorks, NEW t \in Tasks, ~query[t].once, query[t].server \in {Root, rootSays}
    PROVE  Fault(t) = "none"
BY DEF RegistryWorks, Serving, Fault, ConnectFailure, ReadFailure

\* The end of a lookup that did not fail keeps what it knows.
LEMMA FinishSettled ==
    ASSUME TypeInv, UNCHANGED world, NEW t \in Tasks, QueryOf(t), SettledOf(t),
           NEW fault, Finish(t, fault),
           RegistryWorks /\ Patient /\ sinceSettled[t] => fault = "none"
    PROVE  QueryOf(t)' /\ SettledOf(t)'
<1>1. /\ stage'[t] = "idle" /\ failed'[t] = None /\ failure'[t] = fault
      /\ sinceSettled' = sinceSettled
  BY DEF Finish, GoTo, TypeInv, LookupTypes
<1>2. (RegistryWorks' <=> RegistryWorks) /\ (Patient' <=> Patient)
  BY TimesStaySame DEF world, RegistryWorks, DiscoveryTimeout, Patient, Running
<1>3. RegistryWorks => rootSays # None
  BY DEF RegistryWorks
<1> QED
  BY <1>1, <1>2, <1>3 DEF QueryOf, SettledOf, Settled, Running, world

\* So does following a referral.
LEMMA DigestSettled ==
    ASSUME TypeInv, UNCHANGED world, NEW t \in Tasks, QueryOf(t), SettledOf(t),
           NEW s, NEW asked, NEW seconds, Digest(t, s, asked, seconds)
    PROVE  QueryOf(t)' /\ SettledOf(t)'
<1>1. CASE MayFollow(s, asked)
  <2>1. /\ stage'[t] = "hop"
        /\ UNCHANGED <<failed, failure, sinceSettled>>
    BY <1>1 DEF Digest, GoTo, TypeInv, LookupTypes
  <2>2. (RegistryWorks' <=> RegistryWorks) /\ (Patient' <=> Patient)
    BY TimesStaySame DEF world, RegistryWorks, DiscoveryTimeout, Patient, Running
  <2> QED
    BY <2>1, <2>2 DEF QueryOf, SettledOf, Settled, Running, world
<1>2. CASE ~MayFollow(s, asked)
  BY <1>2, FinishSettled DEF Digest
<1> QED
  BY <1>1, <1>2

\* A step of a lookup keeps what it knows.
LEMMA SettledOfStep ==
    ASSUME TypeInv, NEW t \in Tasks, TimeOf(t), Chain(t), QueryOf(t), SettledOf(t), StepOf(t)
    PROVE  QueryOf(t)' /\ SettledOf(t)'
<1>1. /\ UNCHANGED world /\ Running /\ Running' /\ LookupTypes
      /\ (RegistryWorks' <=> RegistryWorks) /\ (Patient' <=> Patient)
      /\ (Settled' <=> Settled) /\ rootSays' = rootSays
  <2>1. UNCHANGED world /\ Running
    BY StepKeepsWorld, StepRuns
  <2> QED
    BY <2>1, TimesStaySame
    DEF world, RegistryWorks, DiscoveryTimeout, Patient, Running, Settled, TypeInv
<1>2. RegistryWorks => rootSays # None
  BY DEF RegistryWorks
<1>3. ASSUME Begin(t) PROVE QueryOf(t)' /\ SettledOf(t)'
  <2>1. /\ stage'[t] \in {"root", "ask"} /\ failed'[t] = None /\ failure'[t] = "none"
        /\ sinceSettled'[t] = Settled
        /\ stage'[t] = "root" => query'[t].server = Root /\ ~query'[t].once
        /\ stage'[t] = "ask" => query'[t].server = server'[t] /\ ~query'[t].once
    BY <1>1, <1>3 DEF Begin, QueryOf, Ask, NewQuery, GoTo, LookupTypes
  <2> QED
    BY <1>1, <1>2, <2>1 DEF QueryOf, SettledOf
<1>4. ASSUME RootAnswers(t) PROVE QueryOf(t)' /\ SettledOf(t)'
  <2>1. /\ stage'[t] = "test" /\ UNCHANGED <<failed, failure, sinceSettled>>
        /\ rootSays # None => candidates'[t] = <<rootSays>> \o Patterns
    BY <1>1, <1>4 DEF RootAnswers, GoTo, LookupTypes
  <2>2. rootSays # None =>
            <<rootSays>> \o Patterns # <<>> /\ Head(<<rootSays>> \o Patterns) = rootSays
    BY ServiceAssumption DEF TypeInv, WorldTypes
  <2> QED
    BY <1>1, <1>2, <2>1, <2>2 DEF QueryOf, SettledOf
<1>5. ASSUME RootFails(t) PROVE QueryOf(t)' /\ SettledOf(t)'
  <2>1. ~RegistryWorks
    BY <1>5, NoFaultOfWorkingServers DEF RootFails, Fails, QueryOf
  <2>2. stage'[t] = "test" /\ UNCHANGED <<failed, failure, sinceSettled>>
    BY <1>1, <1>5 DEF RootFails, GoTo, LookupTypes
  <2> QED
    BY <1>1, <2>1, <2>2 DEF QueryOf, SettledOf
<1>6. ASSUME TestHolds(t) PROVE QueryOf(t)' /\ SettledOf(t)'
  <2> DEFINE s == Head(candidates[t])
  <2>1. CASE s = failed[t]
    <3>1. Finish(t, "error") /\ stage[t] = "test"
      BY <1>6, <2>1 DEF TestHolds
    <3>2. ~(RegistryWorks /\ Patient /\ sinceSettled[t])
      BY <2>1, <3>1 DEF SettledOf
    <3> QED
      BY <1>1, <3>1, <3>2, FinishSettled
  <2>2. CASE s # failed[t]
    <3>1. /\ stage[t] = "test" /\ stage'[t] \in {"insert", "askNew"} /\ server'[t] = s
          /\ stage'[t] = "askNew" => query'[t].server = s /\ ~query'[t].once
          /\ UNCHANGED <<failed, failure, sinceSettled>>
      BY <1>1, <1>6, <2>2 DEF TestHolds, Ask, NewQuery, GoTo, LookupTypes
    <3> QED
      BY <1>1, <3>1 DEF QueryOf, SettledOf
  <2> QED
    BY <2>1, <2>2
<1>7. ASSUME TestFails(t) PROVE QueryOf(t)' /\ SettledOf(t)'
  <2>1. ~(RegistryWorks /\ Patient /\ sinceSettled[t])
    BY <1>7 DEF TestFails, SettledOf, RegistryWorks, Serving, Connectable
  <2>2. CASE candidates[t] = <<>>
    BY <1>1, <1>7, <2>1, <2>2, FinishSettled DEF TestFails
  <2>3. CASE candidates[t] # <<>>
    <3>1. stage[t] = "test" /\ UNCHANGED <<stage, failed, failure, sinceSettled>>
      BY <1>7, <2>3 DEF TestFails
    <3> QED
      BY <1>1, <2>1, <3>1 DEF QueryOf, SettledOf
  <2> QED
    BY <2>2, <2>3
<1>8. ASSUME Insert(t) \/ Purge(t) PROVE QueryOf(t)' /\ SettledOf(t)'
  <2>1. /\ stage'[t] = "root" => query'[t].server = Root /\ ~query'[t].once
        /\ stage'[t] = "ask" => query'[t].server = server'[t] /\ ~query'[t].once
        /\ stage'[t] \in {"root", "ask"} /\ UNCHANGED <<failed, failure, sinceSettled>>
    BY <1>1, <1>8 DEF Insert, Purge, Ask, NewQuery, GoTo, LookupTypes
  <2> QED
    BY <1>1, <2>1 DEF QueryOf, SettledOf
<1>9. ASSUME ServerFails(t) PROVE QueryOf(t)' /\ SettledOf(t)'
  <2>1. RegistryWorks => server[t] # rootSays
    BY <1>9, NoFaultOfWorkingServers DEF ServerFails, Fails, QueryOf
  <2>2. /\ stage'[t] = "purge" /\ failed'[t] = server[t]
        /\ UNCHANGED <<failure, sinceSettled>>
    BY <1>1, <1>9 DEF ServerFails, GoTo, LookupTypes
  <2> QED
    BY <1>1, <2>1, <2>2 DEF QueryOf, SettledOf
<1>10. ASSUME NewServerAnswers(t) PROVE QueryOf(t)' /\ SettledOf(t)'
  <2>1. stage'[t] = "keep" /\ UNCHANGED <<failed, failure, sinceSettled>>
    BY <1>1, <1>10 DEF NewServerAnswers, GoTo, LookupTypes
  <2> QED
    BY <1>1, <2>1 DEF QueryOf, SettledOf
<1>11. ASSUME NewServerFails(t) PROVE QueryOf(t)' /\ SettledOf(t)'
  <2>1. ~(RegistryWorks /\ Patient /\ sinceSettled[t])
    BY <1>11, NoFaultOfWorkingServers DEF NewServerFails, Fails, QueryOf, SettledOf
  <2> QED
    BY <1>1, <1>11, <2>1, FinishSettled DEF NewServerFails
<1>12. ASSUME ServerAnswers(t) \/ Keep(t) \/ HopAnswers(t) PROVE QueryOf(t)' /\ SettledOf(t)'
  <2>1. \E s, asked, seconds : Digest(t, s, asked, seconds)
    BY <1>12 DEF ServerAnswers, Keep, HopAnswers
  <2> QED
    BY <1>1, <2>1, DigestSettled
<1>13. ASSUME HopFails(t) \/ Disconnect(t) PROVE QueryOf(t)' /\ SettledOf(t)'
  BY <1>1, <1>13, FinishSettled DEF HopFails, Disconnect, CutOff
<1>14. ASSUME TimeOut(t) PROVE QueryOf(t)' /\ SettledOf(t)'
  <2>1. ~Patient
    BY <1>14, PatientNeverCutsOff
  <2> QED
    BY <1>1, <1>14, <2>1, FinishSettled DEF TimeOut, CutOff
<1>15. ASSUME Network(t) PROVE QueryOf(t)' /\ SettledOf(t)'
  <2>1. UNCHANGED lookup
    BY <1>15 DEF Network
  <2>2. query'[t].server = query[t].server /\ query'[t].once = query[t].once
    BY <1>15, QueryStepOfOne DEF Network
  <2> QED
    BY <1>1, <2>1, <2>2 DEF lookup, QueryOf, SettledOf
<1> QED
  BY <1>3, <1>4, <1>5, <1>6, <1>7, <1>8, <1>9, <1>10, <1>11, <1>12, <1>13, <1>14, <1>15
  DEF StepOf, LookupStep

\* Every step keeps a lookup in a world that stands still on the way to its answer.
LEMMA SettledKept ==
    TypeInv /\ ChainInv /\ TimeInv /\ SettledInv /\ [Next]_vars => SettledInv'
<1> SUFFICES ASSUME TypeInv, ChainInv, TimeInv, SettledInv, [Next]_vars, NEW u \in Tasks
             PROVE  QueryOf(u)' /\ SettledOf(u)'
  BY DEF SettledInv
<1>1. QueryOf(u) /\ SettledOf(u) /\ TimeOf(u) /\ Chain(u)
  BY DEF SettledInv, TimeInv, ChainInv
<1>2. ASSUME UNCHANGED world, Same(u) PROVE QueryOf(u)' /\ SettledOf(u)'
  <2>1. (RegistryWorks' <=> RegistryWorks) /\ (Patient' <=> Patient)
    BY <1>2, TimesStaySame DEF world, RegistryWorks, DiscoveryTimeout, Patient, Running
  <2> QED
    BY <1>1, <1>2, <2>1 DEF QueryOf, SettledOf, Settled, Running, Same, world
<1>3. ASSUME NEW t \in Tasks, StepOf(t) PROVE QueryOf(u)' /\ SettledOf(u)'
  BY <1>1, <1>2, <1>3, OthersStaySame, SettledOfStep, StepKeepsWorld
<1>4. CASE Start
  <2>1. /\ ~Running /\ stage[u] = "idle" /\ stage'[u] = "idle"
        /\ UNCHANGED <<failed, sinceSettled>>
    BY <1>4 DEF Start, lookup, TypeInv
  <2> QED
    BY <1>1, <2>1 DEF QueryOf, SettledOf
<1>5. CASE Move
  <2>1. ~Settled /\ UNCHANGED lookup /\ UNCHANGED query
    BY <1>5, ServiceAssumption DEF Move, Settled, queryVars, TypeInv, WorldTypes
  <2>2. ~sinceSettled[u]
    BY <1>1, <2>1 DEF SettledOf
  <2> QED
    BY <1>1, <2>1, <2>2 DEF QueryOf, SettledOf, lookup
<1>6. CASE UNCHANGED vars
  BY <1>2, <1>6 DEF vars, lookup, queryVars, Same
<1> QED
  BY <1>3, <1>4, <1>5, <1>6 DEF Next, StepOf

\* Once servers have stopped dying and moving, every lookup that begins gets its answer,
\* whatever earlier and other lookups leave in the cache.
THEOREM SettledLookupsDoSucceed == Spec => []SettledLookupsSucceed
<1> DEFINE Inv == TypeInv /\ ChainInv /\ TimeInv /\ SettledInv
<1>1. Init => Inv
  BY TypeInvInit DEF Init, ChainInv, Chain, TimeInv, TimeOf, SettledInv, QueryOf, SettledOf
<1>2. Inv /\ [Next]_vars => Inv'
  BY TypeInvNext, ChainKept, TimeKept, SettledKept
<1>3. Inv => SettledLookupsSucceed
  BY DEF SettledInv, SettledOf, SettledLookupsSucceed
<1> QED
  BY <1>1, <1>2, <1>3, PTL DEF Spec
===============================================================================
