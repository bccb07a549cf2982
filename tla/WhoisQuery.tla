------------------------------ MODULE WhoisQuery -------------------------------
(***************************************************************************)
(* One WHOIS query over TCP (src/src/whois.rs 416-566): the permit it      *)
(* waits for and keeps through all its attempts, connecting and reading    *)
(* with their time limits, the retries with back-off, and the buffer it    *)
(* borrows from the pool (src/src/buffer_pool.rs) while it reads.          *)
(*                                                                         *)
(* Time is what a task has spent on its own waiting for the network, in    *)
(* seconds; waiting for a permit is not counted.                           *)
(***************************************************************************)
EXTENDS Integers, FiniteSets

CONSTANTS
    Tasks,              \* concurrent lookups
    Servers,            \* WHOIS hosts
    None,               \* no server
    MaxRetryAttempts,   \* MAX_RETRY_ATTEMPTS
    ReferralTimeout,    \* REFERRAL_TIMEOUT_SECS
    TotalTimeoutMultiplier,     \* TOTAL_TIMEOUT_MULTIPLIER
    RequestTimeout      \* what the caller allows a lookup to take

\* How a host behaves: it answers; it resolves to private addresses only, and
\* answers; it makes every connection and ends every answer as late as the limits
\* let it; no connection can be made before the time limit; the connection is
\* refused, or reset while the response is read; it accepts and stays silent; it
\* sends a byte now and then and never ends; it makes the connection as late as it
\* can and then drips; its answer is too large or is not UTF-8.
Kinds == {"answers", "private", "late", "unroutable", "refuses", "resets", "silent",
          "drips", "drags", "unusable"}

\* The connection takes all the time there is for it, whether it is made or not.
SlowToConnect == {"unroutable", "late", "drags"}

Semaphores == {"domain", "discovery"}

ASSUME QueryAssumption ==
    /\ None \notin Servers /\ IsFiniteSet(Tasks)
    /\ MaxRetryAttempts \in Nat /\ ReferralTimeout \in Nat
    /\ TotalTimeoutMultiplier \in Nat /\ RequestTimeout \in Nat

VARIABLES
    config,     \* the service's Config
    reach,      \* how every host behaves at present
    free,       \* the permits left in each semaphore
    pool,       \* the number of buffers in the pool
    query,      \* the query each task is making
    spent       \* seconds each lookup has spent

Stopped == [rejected |-> TRUE]      \* in place of a Config: none was accepted
Running == config # Stopped

queryVars == <<free, pool, query, spent>>

NoQuery == [stage |-> "none"]

\* A query not yet begun; once marks a referral query: one attempt, own budget.
NewQuery(s, semaphore, isReferral) ==
    [stage |-> "permit", server |-> s, semaphore |-> semaphore,
     once |-> isReferral, tries |-> 0]

HoldsPermit(t) == query[t].stage \in {"connect", "read"}
Reading(t) == query[t].stage = "read"

\* The sizes of domain_query_semaphore and discovery_semaphore.
Permits(semaphore) ==
    IF semaphore = "domain" THEN config.concurrent_whois_queries
    ELSE config.concurrent_whois_queries * 2

Least(a, b) == IF a < b THEN a ELSE b

-------------------------------------------------------------------------------
(* What an attempt comes to, and what it takes *)

ConnectFailure(q) ==
    CASE reach[q.server] = "unroutable" -> "Timeout"
      [] reach[q.server] = "refuses" -> "IoError"
      [] q.once /\ reach[q.server] = "private" -> "Internal"
      [] OTHER -> "none"

ReadFailure(q) ==
    CASE reach[q.server] \in {"silent", "drips", "drags"} -> "Timeout"
      [] reach[q.server] = "resets" -> "IoError"
      [] reach[q.server] = "unusable" -> "Unusable"
      [] OTHER -> "none"

\* Making a connection has the limit of one read, and the clock of the response
\* starts after it.
ConnectTime(s) ==
    IF reach[s] \in SlowToConnect THEN config.whois_timeout_seconds ELSE 0

\* The total is tested before a read and a read may take the whole limit again.
DripTime(timeout) == timeout * (TotalTimeoutMultiplier + 1)

ReadTime(s) ==
    CASE reach[s] = "silent" -> config.whois_timeout_seconds
      [] reach[s] \in {"late", "drips", "drags"} -> DripTime(config.whois_timeout_seconds)
      [] OTHER -> 0

\* The one budget of a referral query.
ReferralBudget == Least(config.whois_timeout_seconds, ReferralTimeout)

\* What connecting or reading takes, whether it fails or not.  A referral query has
\* its budget for both, and is charged for its connection when it reads.
NetworkTime(q) ==
    LET natural == IF q.stage = "read" THEN ReadTime(q.server) ELSE ConnectTime(q.server)
    IN IF ~q.once THEN natural
       ELSE IF q.stage = "read" \/ reach[q.server] = "unroutable"
       THEN Least(natural, ReferralBudget)
       ELSE 0

\* The delays of ExponentialBuilder: 1, 2, 4, ... seconds.
Backoff(tries) == 2 ^ tries

\* Mutant: transient errors are retried for as long as they last.
RetriesForever(q, error) == ~q.once /\ error \in {"Timeout", "IoError"}

Retries(q, error) ==
    ~q.once /\ error \in {"Timeout", "IoError"} /\ q.tries < MaxRetryAttempts

\* What is wrong with the attempt a task is making, at its present stage.
Fault(t) == IF Reading(t) THEN ReadFailure(query[t]) ELSE ConnectFailure(query[t])

StepTime(t) ==
    NetworkTime(query[t]) +
        IF Retries(query[t], Fault(t)) THEN Backoff(query[t].tries) ELSE 0

-------------------------------------------------------------------------------
(* The steps of a query *)

\* Mutant: the permit of a query that ends or is dropped is lost.
KeepPermit(t) == UNCHANGED free

\* The permit and, below, the buffer are given back by Drop, also when the future
\* of the lookup is dropped.
ReleasePermit(t) ==
    free' = IF HoldsPermit(t) THEN [free EXCEPT ![query[t].semaphore] = @ + 1] ELSE free

ReturnBuffer(t) ==
    pool' = IF Reading(t) THEN Least(pool + 1, config.buffer_pool_size) ELSE pool

WithinLimit(t, seconds) == spent[t] + seconds < RequestTimeout

AcquirePermit(t) ==
    LET q == query[t]
    IN /\ q.stage = "permit"
       /\ free[q.semaphore] > 0
       /\ free' = [free EXCEPT ![q.semaphore] = @ - 1]
       /\ query' = [query EXCEPT ![t].stage = "connect"]
       /\ UNCHANGED <<pool, spent>>

\* Mutant: the buffer stays in the pool while it is in use.
TakeBufferShared(t) == UNCHANGED pool

\* PooledBuffer::new: from the pool, or a new one when the pool is empty.
TakeBuffer(t) == pool' = IF pool > 0 THEN pool - 1 ELSE pool

Connect(t) ==
    /\ query[t].stage = "connect" /\ Fault(t) = "none"
    /\ WithinLimit(t, StepTime(t))
    /\ spent' = [spent EXCEPT ![t] = @ + StepTime(t)]
    /\ TakeBuffer(t)
    /\ query' = [query EXCEPT ![t].stage = "read"]
    /\ UNCHANGED free

\* An attempt that fails is repeated after a pause, with the permit in hand.
Retry(t) ==
    /\ HoldsPermit(t) /\ Retries(query[t], Fault(t))
    /\ WithinLimit(t, StepTime(t))
    /\ spent' = [spent EXCEPT ![t] = @ + StepTime(t)]
    /\ ReturnBuffer(t)
    /\ query' = [query EXCEPT ![t].stage = "connect", ![t].tries = @ + 1]
    /\ UNCHANGED free

QueryStep(t) == AcquirePermit(t) \/ Connect(t) \/ Retry(t)

\* The two ends of a query; what the task does next is the caller's, to its next
\* await, and to account for the time of the step.
Answers(t) ==
    /\ Reading(t) /\ Fault(t) = "none"
    /\ WithinLimit(t, StepTime(t))
    /\ ReleasePermit(t) /\ ReturnBuffer(t)

Fails(t) ==
    /\ HoldsPermit(t) /\ Fault(t) # "none" /\ ~Retries(query[t], Fault(t))
    /\ WithinLimit(t, StepTime(t))
    /\ ReleasePermit(t) /\ ReturnBuffer(t)

\* Connecting or reading would take the lookup past RequestTimeout.
QueryOverruns(t) == HoldsPermit(t) /\ ~WithinLimit(t, StepTime(t))

-------------------------------------------------------------------------------
(* Properties of the permits and the buffers *)

\* Every permit is either free or held by one task: none is lost when a query
\* fails, is retried or is dropped, and none is given out twice.
PermitsConserved ==
    Running =>
    \A s \in Semaphores :
        free[s] + Cardinality({t \in Tasks : HoldsPermit(t) /\ query[t].semaphore = s})
            = Permits(s)

\* A buffer is in the pool or with one reader.  The pool keeps to its capacity, and
\* since readers hold permits no more buffers ever exist than there are permits, or
\* than there have been lookups at a time.
BuffersBounded ==
    LET readers == Cardinality({t \in Tasks : Reading(t)})
    IN Running =>
        /\ pool <= config.buffer_pool_size
        /\ pool + readers <= Permits("domain") + Permits("discovery")
        /\ pool + readers <= Cardinality(Tasks)
===============================================================================
