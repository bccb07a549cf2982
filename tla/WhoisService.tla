----------------------------- MODULE WhoisService ------------------------------
(***************************************************************************)
(* WhoisService (src/src/whois.rs) for the domains of one TLD: the cache   *)
(* of the TLD's WHOIS server behind a RwLock, its discovery, its healing   *)
(* when the server fails, and the referrals a lookup follows.  Every query *)
(* is a WhoisQuery.  The service is started with a Config that may have    *)
(* been rejected; lookups can be dropped at every await.                   *)
(***************************************************************************)
EXTENDS WhoisQuery, Sequences

CONSTANTS
    Root,           \* the host in ROOT_WHOIS_SERVERS
    Patterns,       \* generate_whois_patterns of the TLD, a sequence of hosts
    MaxDiscoveryTimeout,    \* MAX_DISCOVERY_TIMEOUT_SECS
    Systems,        \* machines the service may be started on
    Environments,   \* settings of the environment variables
    MaxPermits,     \* bound on concurrent_whois_queries of a started service
    InitialKinds,   \* bound: how hosts may behave, ...
    InitialNames,   \* ... and what the root may answer, at the start
    Incidents,      \* bound: what may happen to a host and to the root's answer
    ReferChoices,   \* bound: the referrals that hosts may give
    MaxMoves,       \* bound on the changes of the world
    MaxDisconnects  \* bound on the clients that go away

INSTANCE ServiceConfig

ASSUME ServiceAssumption ==
    /\ Root \in Servers
    /\ Patterns \in Seq(Servers)
    /\ MaxDiscoveryTimeout \in Nat /\ MaxMoves \in Nat /\ MaxDisconnects \in Nat
    /\ InitialKinds \subseteq [Servers -> Kinds]
    /\ Incidents \subseteq [host : Servers, kind : Kinds,
                            named : (Servers \ {Root}) \cup {None}]
    /\ InitialNames \subseteq (Servers \ {Root}) \cup {None}
    /\ ReferChoices \subseteq [Servers -> Servers \cup {None}]
    /\ Systems \subseteq System
    /\ \A env \in Environments : \A v \in DOMAIN env : env[v] \in Nat \cup {Unparsable}

VARIABLES
    tldServer,      \* the TLD's entry in tld_servers
    rootSays,       \* the server the root names for the TLD at present
    refers,         \* the referral in each host's answers
    stage,          \* what each lookup waits for
    server,         \* the server whose answer it has, or that it asks
    failed,         \* failed_server of a lookup that heals
    candidates,     \* the hosts a discovery has still to test
    visited,        \* visited of follow_referrals
    failure,        \* how the task's last lookup failed, if it did
    sinceSettled,   \* the lookup began after the world had stopped changing
    moves, disconnects      \* counters for the bounds

world == <<config, reach, rootSays, refers, moves>>
lookup == <<stage, server, failed, candidates, visited, failure, sinceSettled, disconnects>>
vars == <<world, tldServer, lookup, queryVars>>

\* root, ask, askNew and hop wait for a query, test for a connection, and insert,
\* purge and keep for the write lock.
Stages == {"idle", "root", "test", "insert", "ask", "purge", "askNew", "keep", "hop"}
Failures == {"none", "error", "timeout"}

\* What the root may answer.
Named == (Servers \ {Root}) \cup {None}

Settled == moves = MaxMoves

Init ==
    /\ config = Stopped
    /\ reach \in InitialKinds
    /\ refers \in ReferChoices
    /\ rootSays \in InitialNames
    /\ tldServer = None
    /\ free = [s \in Semaphores |-> 0]
    /\ pool = 0
    /\ query = [t \in Tasks |-> NoQuery]
    /\ spent = [t \in Tasks |-> 0]
    /\ stage = [t \in Tasks |-> "idle"]
    /\ server = [t \in Tasks |-> None]
    /\ failed = [t \in Tasks |-> None]
    /\ candidates = [t \in Tasks |-> <<>>]
    /\ visited = [t \in Tasks |-> {}]
    /\ failure = [t \in Tasks |-> "none"]
    /\ sinceSettled = [t \in Tasks |-> FALSE]
    /\ moves = 0
    /\ disconnects = 0

\* Config::load and WhoisService::new; after a rejection the operator tries again.
Start ==
    /\ ~Running
    /\ \E sys \in Systems, env \in Environments :
          config' = IF load(sys, env) = Rejected THEN Stopped ELSE load(sys, env)
    /\ Running' => config'.concurrent_whois_queries <= MaxPermits
    /\ free' = [s \in Semaphores |-> IF Running' THEN Permits(s)' ELSE 0]
    /\ UNCHANGED <<reach, rootSays, refers, moves, tldServer, lookup, pool, query, spent>>

-------------------------------------------------------------------------------
(* Shared by the steps of a lookup *)

Ask(t, s, semaphore, isReferral) ==
    query' = [query EXCEPT ![t] = NewQuery(s, semaphore, isReferral)]

\* Mutant: a query that has ended is left behind.
KeepQuery(t) == UNCHANGED query

NoQueryNow(t) == query' = [query EXCEPT ![t] = NoQuery]
GoTo(t, next) == stage' = [stage EXCEPT ![t] = next]
SpendStep(t, seconds) == spent' = [spent EXCEPT ![t] = @ + seconds]

\* The end of a lookup: nothing is left of it but its failure.
Finish(t, fault) ==
    /\ failure' = [failure EXCEPT ![t] = fault]
    /\ GoTo(t, "idle")
    /\ NoQueryNow(t)
    /\ spent' = [spent EXCEPT ![t] = 0]
    /\ server' = [server EXCEPT ![t] = None]
    /\ failed' = [failed EXCEPT ![t] = None]
    /\ candidates' = [candidates EXCEPT ![t] = <<>>]
    /\ visited' = [visited EXCEPT ![t] = {}]
    /\ UNCHANGED sinceSettled

\* Mutant: a server may be asked again.
MayFollowAgain(s, asked) ==
    refers[s] # None /\ Cardinality(asked) - 1 < config.max_referrals

\* follow_referrals with the answer of s in hand; every server but the first that
\* was asked has answered a referral query.
MayFollow(s, asked) ==
    /\ refers[s] # None
    /\ refers[s] \notin asked
    /\ Cardinality(asked) - 1 < config.max_referrals

\* The answer of s, which took so long, is followed by its referral, or is the result.
Digest(t, s, asked, seconds) ==
    IF MayFollow(s, asked)
    THEN /\ SpendStep(t, seconds)
         /\ Ask(t, refers[s], "domain", TRUE)
         /\ GoTo(t, "hop")
         /\ server' = [server EXCEPT ![t] = s]
         /\ visited' = [visited EXCEPT ![t] = asked \cup {refers[s]}]
         /\ UNCHANGED <<failed, candidates, failure, sinceSettled>>
    ELSE Finish(t, "none")

-------------------------------------------------------------------------------
(* find_whois_server *)

\* The entry under the read lock, or else discovery, which asks the root.
Begin(t) ==
    /\ Running /\ stage[t] = "idle"
    /\ sinceSettled' = [sinceSettled EXCEPT ![t] = Settled]
    /\ failure' = [failure EXCEPT ![t] = "none"]
    /\ IF tldServer # None
       THEN /\ server' = [server EXCEPT ![t] = tldServer]
            /\ Ask(t, tldServer, "domain", FALSE)
            /\ GoTo(t, "ask")
       ELSE /\ Ask(t, Root, "discovery", FALSE)
            /\ GoTo(t, "root")
            /\ UNCHANGED server
    /\ UNCHANGED <<world, tldServer, failed, candidates, visited, disconnects, free, pool,
                   spent>>

\* discover_whois_server_dynamic: the host the root names comes first, if it answers
\* and names one, and then the patterns.
RootAnswers(t) ==
    /\ stage[t] = "root"
    /\ Answers(t)
    /\ SpendStep(t, StepTime(t))
    /\ candidates' = [candidates EXCEPT ![t] =
            IF rootSays # None THEN <<rootSays>> \o Patterns ELSE Patterns]
    /\ NoQueryNow(t) /\ GoTo(t, "test")
    /\ UNCHANGED <<world, tldServer, server, failed, visited, failure, sinceSettled,
                   disconnects>>

RootFails(t) ==
    /\ stage[t] = "root"
    /\ Fails(t)
    /\ SpendStep(t, StepTime(t))
    /\ candidates' = [candidates EXCEPT ![t] = Patterns]
    /\ NoQueryNow(t) /\ GoTo(t, "test")
    /\ UNCHANGED <<world, tldServer, server, failed, visited, failure, sinceSettled,
                   disconnects>>

DiscoveryTimeout == Least(config.discovery_timeout_seconds, MaxDiscoveryTimeout)

\* test_whois_server: a connection is all that is asked for.
Connectable(s) == DiscoveryTimeout > 0 /\ reach[s] \notin {"unroutable", "refuses"}
TestTime(s) == IF reach[s] \in SlowToConnect THEN DiscoveryTimeout ELSE 0

\* The first host that takes a connection is the discovered server.  A healing
\* lookup that is given the failed server again returns its original error.
TestHolds(t) ==
    /\ stage[t] = "test" /\ candidates[t] # <<>>
    /\ LET s == Head(candidates[t])
       IN /\ Connectable(s)
          /\ WithinLimit(t, TestTime(s))
          /\ IF s = failed[t] THEN Finish(t, "error")
             ELSE /\ SpendStep(t, TestTime(s))
                  /\ server' = [server EXCEPT ![t] = s]
                  /\ candidates' = [candidates EXCEPT ![t] = <<>>]
                  /\ IF failed[t] = None THEN GoTo(t, "insert") /\ UNCHANGED query
                     ELSE GoTo(t, "askNew") /\ Ask(t, s, "domain", FALSE)
                  /\ UNCHANGED <<failed, visited, failure, sinceSettled>>
    /\ UNCHANGED <<world, tldServer, disconnects, free, pool>>

\* Past the last candidate: UnsupportedTld, or the original error.
TestFails(t) ==
    /\ stage[t] = "test"
    /\ LET s == Head(candidates[t])
       IN IF candidates[t] = <<>> THEN Finish(t, "error")
          ELSE /\ ~Connectable(s)
               /\ WithinLimit(t, TestTime(s))
               /\ SpendStep(t, TestTime(s))
               /\ candidates' = [candidates EXCEPT ![t] = Tail(@)]
               /\ UNCHANGED <<stage, server, failed, visited, failure, sinceSettled, query>>
    /\ UNCHANGED <<world, tldServer, disconnects, free, pool>>

\* Under the write lock, unless another task was first; the lookup goes on with
\* the server it found itself.
Insert(t) ==
    /\ stage[t] = "insert"
    /\ tldServer' = IF tldServer = None THEN server[t] ELSE tldServer
    /\ Ask(t, server[t], "domain", FALSE)
    /\ GoTo(t, "ask")
    /\ UNCHANGED <<world, server, failed, candidates, visited, failure, sinceSettled,
                   disconnects, free, pool, spent>>

-------------------------------------------------------------------------------
(* lookup and rediscover_and_retry *)

ServerAnswers(t) ==
    /\ stage[t] = "ask"
    /\ Answers(t)
    /\ Digest(t, server[t], {server[t]}, StepTime(t))
    /\ UNCHANGED <<world, tldServer, disconnects>>

\* Mutant: a server that is only silent is given another chance.
HealClosedOnly(t) ==
    /\ stage[t] = "ask"
    /\ Fails(t)
    /\ IF Fault(t) = "Timeout" THEN Finish(t, "error")
       ELSE /\ SpendStep(t, StepTime(t))
            /\ failed' = [failed EXCEPT ![t] = server[t]]
            /\ NoQueryNow(t) /\ GoTo(t, "purge")
            /\ UNCHANGED <<server, candidates, visited, failure, sinceSettled>>
    /\ UNCHANGED <<world, tldServer, disconnects>>

ServerFails(t) ==
    /\ stage[t] = "ask"
    /\ Fails(t)
    /\ SpendStep(t, StepTime(t))
    /\ failed' = [failed EXCEPT ![t] = server[t]]
    /\ NoQueryNow(t) /\ GoTo(t, "purge")
    /\ UNCHANGED <<world, tldServer, server, candidates, visited, failure, sinceSettled,
                   disconnects>>

\* The entry goes, whichever server it names by now, and discovery begins.
Purge(t) ==
    /\ stage[t] = "purge"
    /\ tldServer' = None
    /\ Ask(t, Root, "discovery", FALSE)
    /\ GoTo(t, "root")
    /\ UNCHANGED <<world, server, failed, candidates, visited, failure, sinceSettled,
                   disconnects, free, pool, spent>>

NewServerAnswers(t) ==
    /\ stage[t] = "askNew"
    /\ Answers(t)
    /\ SpendStep(t, StepTime(t))
    /\ NoQueryNow(t) /\ GoTo(t, "keep")
    /\ UNCHANGED <<world, tldServer, server, failed, candidates, visited, failure,
                   sinceSettled, disconnects>>

NewServerFails(t) ==
    /\ stage[t] = "askNew"
    /\ Fails(t)
    /\ Finish(t, "error")
    /\ UNCHANGED <<world, tldServer, disconnects>>

\* The server that healed the lookup replaces whatever entry there is.
Keep(t) ==
    /\ stage[t] = "keep"
    /\ tldServer' = server[t]
    /\ Digest(t, server[t], {server[t]}, 0)
    /\ UNCHANGED <<world, disconnects, free, pool>>

-------------------------------------------------------------------------------
(* follow_referrals *)

HopAnswers(t) ==
    /\ stage[t] = "hop"
    /\ Answers(t)
    /\ Digest(t, query[t].server, visited[t], StepTime(t))
    /\ UNCHANGED <<world, tldServer, disconnects>>

\* The last good answer is the result.
HopFails(t) ==
    /\ stage[t] = "hop"
    /\ Fails(t)
    /\ Finish(t, "none")
    /\ UNCHANGED <<world, tldServer, disconnects>>

-------------------------------------------------------------------------------
(* Lookups that are cut off, and the world *)

CutOff(t, fault) ==
    /\ ReleasePermit(t) /\ ReturnBuffer(t)
    /\ Finish(t, fault)

Disconnect(t) ==
    /\ stage[t] # "idle" /\ disconnects < MaxDisconnects
    /\ disconnects' = disconnects + 1
    /\ CutOff(t, "none")
    /\ UNCHANGED <<world, tldServer>>

\* The HTTP layer's time limit drops the lookup's future.
TimeOut(t) ==
    /\ \/ QueryOverruns(t)
       \/ /\ stage[t] = "test" /\ candidates[t] # <<>>
          /\ ~WithinLimit(t, TestTime(Head(candidates[t])))
    /\ CutOff(t, "timeout")
    /\ UNCHANGED <<world, tldServer, disconnects>>

\* A host changes its behaviour and the root may name another: a registry that
\* moves, goes away or comes back.
Move ==
    /\ moves < MaxMoves
    /\ moves' = moves + 1
    /\ \E i \in Incidents : /\ reach' = [reach EXCEPT ![i.host] = i.kind]
                            /\ rootSays' = i.named
    /\ UNCHANGED <<config, refers, tldServer, lookup, queryVars>>

LookupStep(t) ==
    \/ RootAnswers(t) \/ RootFails(t) \/ TestHolds(t) \/ TestFails(t) \/ Insert(t)
    \/ ServerAnswers(t) \/ ServerFails(t) \/ Purge(t)
    \/ NewServerAnswers(t) \/ NewServerFails(t) \/ Keep(t)
    \/ HopAnswers(t) \/ HopFails(t)
    \/ TimeOut(t)

\* The query a lookup waits for.
Network(t) == QueryStep(t) /\ UNCHANGED <<world, tldServer, lookup>>

Next ==
    \/ Start \/ Move
    \/ \E t \in Tasks : Begin(t) \/ LookupStep(t) \/ Network(t) \/ Disconnect(t)

Spec == Init /\ [][Next]_vars

\* A lookup whose future is polled makes its steps.  tokio's semaphores are FIFO,
\* so that a lookup that waits for a permit is not passed over for ever.  Begin
\* stands for a TLD that goes on being asked for.
Fairness ==
    \A t \in Tasks : WF_vars(Begin(t)) /\ SF_vars(LookupStep(t) \/ Network(t))

FairSpec == Spec /\ Fairness

-------------------------------------------------------------------------------
(* Properties *)

\* Every variable has its type, and a lookup has a query exactly in the stages
\* that wait for one.
TypeOK ==
    /\ reach \in [Servers -> Kinds]
    /\ tldServer \in Servers \cup {None}
    /\ rootSays \in Servers \cup {None}
    /\ refers \in [Servers -> Servers \cup {None}]
    /\ free \in [Semaphores -> Nat] /\ pool \in Nat
    /\ spent \in [Tasks -> Nat]
    /\ stage \in [Tasks -> Stages] /\ failure \in [Tasks -> Failures]
    /\ server \in [Tasks -> Servers \cup {None}]
    /\ failed \in [Tasks -> Servers \cup {None}]
    /\ visited \in [Tasks -> SUBSET Servers]
    /\ candidates \in [Tasks -> Seq(Servers)]
    /\ sinceSettled \in [Tasks -> BOOLEAN]
    /\ moves \in 0..MaxMoves /\ disconnects \in 0..MaxDisconnects
    /\ \A t \in Tasks :
          (query[t] = NoQuery) <=> stage[t] \notin {"root", "ask", "askNew", "hop"}

\* The defaults never have to be corrected: whatever the machine, a service with no
\* variable set that bears on its configuration starts (config.rs 33-61).
DefaultsStart ==
    \A sys \in Systems : ~Running => load(sys, <<>>) # Rejected

\* The longest a query and a lookup can take.  Each attempt has the limit of the
\* connection, the total of the response and the one read that overruns it.  There are
\* four queries (root and server, and both again to heal), two discoveries, and the
\* referrals.
LongestQuery ==
    (MaxRetryAttempts + 1) * (TotalTimeoutMultiplier + 2) * config.whois_timeout_seconds
        + 2 ^ MaxRetryAttempts - 1

LongestLookup ==
    4 * LongestQuery + 2 * (Len(Patterns) + 1) * DiscoveryTimeout
        + config.max_referrals * ReferralBudget

\* No server, however late it connects, drips, stalls, fails or refers, keeps a lookup
\* longer than that: each connection, read, attempt, retry, discovery and referral has
\* its limit.
LookupTimeBounded ==
    Running => \A t \in Tasks : spent[t] <= LongestLookup

\* The caller lets a lookup run to its end.
Patient == Running /\ RequestTimeout > LongestLookup

\* Hosts that answer, in time if late, whoever is not sent to them by a referral.
Serving == {"answers", "private", "late"}

\* The registry has a server that answers, and the root names it.
RegistryWorks ==
    /\ Running /\ DiscoveryTimeout > 0
    /\ reach[Root] \in Serving
    /\ rootSays # None /\ reach[rootSays] \in Serving

\* Once servers have stopped dying and moving, one lookup is enough: whatever other
\* lookups left or are about to leave in the cache, a lookup that begins then gets
\* its answer, if need be by healing the entry (whois.rs 94-101, 229-252).
SettledLookupsSucceed ==
    Settled /\ RegistryWorks /\ Patient =>
        \A t \in Tasks : sinceSettled[t] => failure[t] = "none"

\* In its chain of referrals a lookup asks no server twice, and no more than
\* max_referrals besides the first (whois.rs 568-602).
ChainBounded ==
    [][\A t \in Tasks :
          stage'[t] = "hop" /\ query'[t] # query[t] /\ query'[t].stage = "permit" =>
              /\ query'[t].server \notin (visited[t] \cup {server'[t]})
              /\ Cardinality(visited'[t]) <= config.max_referrals + 1]_vars

\* Whatever configuration was accepted, no lookup waits for ever: not for a permit,
\* not in a cycle of referrals, not in discovery.
EveryLookupEnds == \A t \in Tasks : stage[t] # "idle" ~> stage[t] = "idle"

Recoverable == Settled /\ RegistryWorks
Healthy == tldServer = None \/ reach[tldServer] \in Serving

\* A server that stops answering is not kept: while the TLD is asked for by callers
\* with patience, its entry is removed or replaced (whois.rs 229-252).
TldRecovers == Recoverable /\ Patient ~> Healthy

\* "A cached (or previously discovered) server that stops answering must not
\* permanently break the TLD" (whois.rs 231-232), whoever asks.
TldNotBrokenForGood == Recoverable ~> Healthy
===============================================================================
