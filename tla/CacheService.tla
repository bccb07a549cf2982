----------------------------- MODULE CacheService -----------------------------
(***************************************************************************)
(* The two-tier response cache of src/src/cache.rs, for ONE normalised key *)
(* of a fleet of service instances.  Every instance owns an in-process     *)
(* cache (L1, a moka Cache); all of them share one backend (L2, normally   *)
(* Redis).  A caller is one asynchronous call of CacheService: it may be   *)
(* suspended at every await, and its future may be dropped there, which is *)
(* what the HTTP timeout layer and a client that disconnects do.           *)
(*                                                                         *)
(* Entries of different keys never touch each other except through the     *)
(* capacity of L1, and that is the nondeterministic Evict.  A response is  *)
(* reduced to its lookup status and to the time the registry gave it.      *)
(***************************************************************************)
EXTENDS Integers, FiniteSets

CONSTANTS
    Instances,      \* processes of the service, each with an L1 of its own
    Callers,        \* concurrent calls
    Home,           \* the instance a caller runs in
    Ops,            \* the operations of CacheService that are called
    HasBackend,     \* built by with_backend (TRUE) or by new (FALSE)
    PositiveTtl,    \* cache_ttl_seconds
    NegativeTtl,    \* negative_cache_ttl_seconds, 0 disables
    Timeout,        \* REQUEST_TIMEOUT of the HTTP layer
    MaxTime,        \* bound on the clock
    NoCaller        \* nobody is running the init future

Status == {"Found", "NotFound", "RateLimited"}

ASSUME HomeAssumption == Home \in [Callers -> Instances]
ASSUME OpsAssumption == Ops \subseteq {"get_or_fetch", "get", "set"}
ASSUME NoCallerAssumption == NoCaller \notin Callers
ASSUME TimeAssumption ==
    /\ PositiveTtl \in Nat
    /\ NegativeTtl \in Nat
    /\ Timeout \in Nat
    /\ MaxTime \in Nat
    /\ HasBackend \in BOOLEAN

VARIABLES
    now,        \* the clock, in units of which every duration is a multiple
    l1,         \* the entry of the key in the moka cache of each instance
    l2,         \* the entry of the key in the shared backend
    leader,     \* the caller whose init future each instance is running
    pc,         \* where each call is suspended
    op,         \* the operation of each call
    start,      \* the time each call began
    val,        \* the response a call holds, or its result when it is "done"
    cached      \* the flag of that response

vars == <<now, l1, l2, leader, pc, op, start, val, cached>>

-------------------------------------------------------------------------------
(* Responses and entries *)

Answer == [status : Status \cup {"None", "Error"}, born : Nat]
Nothing == [status |-> "None", born |-> 0]
Failure == [status |-> "Error", born |-> 0]

Entry == [status : Status \cup {"None"}, born : Nat, expires : Nat]
Empty == [status |-> "None", born |-> 0, expires |-> 0]
AnswerOf(e) == [status |-> e.status, born |-> e.born]

\* Mutant: a throttle banner lives like a negative answer.
ExpireAfterCreateBanner(s) == IF s = "Found" THEN PositiveTtl ELSE NegativeTtl

\* StatusExpiry: only the creation of an entry sets its expiry.
ExpireAfterCreate(s) ==
    IF s = "Found" THEN PositiveTtl
    ELSE IF s = "NotFound" THEN NegativeTtl
    ELSE 0

\* Mutant: the backend stores everything for the positive TTL.
BackendTtlFlat(s) == PositiveTtl

\* The lifetime a response earns in L2; 0 stands for "do not store".
BackendTtl(s) ==
    IF s = "Found" THEN PositiveTtl
    ELSE IF s = "NotFound" THEN NegativeTtl
    ELSE 0

EntryUntil(a, t) ==
    IF now < t THEN [status |-> a.status, born |-> a.born, expires |-> t] ELSE Empty

\* moka: an insert over a live entry is an update, and expire_after_update,
\* which StatusExpiry leaves at its default, keeps the time that is left.
Inserted(e, a) ==
    EntryUntil(a, IF e # Empty THEN e.expires ELSE now + ExpireAfterCreate(a.status))

\* set_ex of the backend replaces value and expiry; a failing one changes nothing.
StoreOutcomes(a) ==
    IF HasBackend /\ BackendTtl(a.status) > 0
    THEN {l2, EntryUntil(a, now + BackendTtl(a.status))}
    ELSE {l2}

-------------------------------------------------------------------------------
(* Bookkeeping of a call *)

Idle(c) == pc[c] = "idle"
InFlight == {"backend", "fetch", "store", "insert"}
Waiters(i) == {c \in Callers : Home[c] = i /\ pc[c] = "wait"}

Begin(c, o) ==
    /\ o \in Ops
    /\ Idle(c)
    /\ now + Timeout <= MaxTime
    /\ op' = [op EXCEPT ![c] = o]
    /\ start' = [start EXCEPT ![c] = now]

Goto(c, p) == pc' = [pc EXCEPT ![c] = p]

Hold(c, a, flag) ==
    /\ val' = [val EXCEPT ![c] = a]
    /\ cached' = [cached EXCEPT ![c] = flag]

Reply(c, a, flag) == Goto(c, "done") /\ Hold(c, a, flag)

\* Mutant: the waiters are not told that the flight is over.
LandSilently(c, a, flag) ==
    /\ leader' = [leader EXCEPT ![Home[c]] = NoCaller]
    /\ Reply(c, a, flag)

\* The init future of c is over: c has its result, and moka hands the same
\* value, or the same error, to everyone who waited for it.
Land(c, a, flag) ==
    LET shared == {c} \cup Waiters(Home[c]) IN
    /\ leader' = [leader EXCEPT ![Home[c]] = NoCaller]
    /\ pc' = [x \in Callers |-> IF x = c THEN "done"
                                ELSE IF x \in shared THEN "wake" ELSE pc[x]]
    /\ val' = [x \in Callers |-> IF x \in shared THEN a ELSE val[x]]
    /\ cached' = [x \in Callers |-> IF x \in shared THEN flag ELSE cached[x]]

Init ==
    /\ now = 0
    /\ l1 = [i \in Instances |-> Empty]
    /\ l2 = Empty
    /\ leader = [i \in Instances |-> NoCaller]
    /\ pc = [c \in Callers |-> "idle"]
    /\ op = [c \in Callers |-> "none"]
    /\ start = [c \in Callers |-> 0]
    /\ val = [c \in Callers |-> Nothing]
    /\ cached = [c \in Callers |-> FALSE]

-------------------------------------------------------------------------------
(* get_or_fetch *)

\* Mutant: a hit restarts the clock of the entry (time to idle).
GetOrFetchToIdle(c) ==
    /\ Begin(c, "get_or_fetch")
    /\ \/ /\ l1[Home[c]] # Empty
          /\ Reply(c, AnswerOf(l1[Home[c]]), TRUE)
          /\ l1' = [l1 EXCEPT ![Home[c]].expires = now + ExpireAfterCreate(l1[Home[c]].status)]
       \/ /\ l1[Home[c]] = Empty
          /\ Goto(c, "join")
          /\ UNCHANGED <<l1, val, cached>>
    /\ UNCHANGED <<now, l2, leader>>

\* entry().or_try_insert_with looks into L1 before anything else.
GetOrFetch(c) ==
    /\ Begin(c, "get_or_fetch")
    /\ \/ /\ l1[Home[c]] # Empty
          /\ Reply(c, AnswerOf(l1[Home[c]]), TRUE)
       \/ /\ l1[Home[c]] = Empty
          /\ Goto(c, "join")
          /\ UNCHANGED <<val, cached>>
    /\ UNCHANGED <<now, l1, l2, leader>>

\* On a miss the caller waits for the init future that is already running.
JoinFlight(c) ==
    /\ pc[c] = "join"
    /\ leader[Home[c]] # NoCaller
    /\ Goto(c, "wait")
    /\ UNCHANGED <<now, l1, l2, leader, op, start, val, cached>>

\* Mutant: every caller that missed runs an init future of its own.
LeadAlone(c) ==
    /\ pc[c] = "join"
    /\ l1[Home[c]] = Empty
    /\ leader' = [leader EXCEPT ![Home[c]] = c]
    /\ Goto(c, "backend")
    /\ UNCHANGED <<now, l1, l2, op, start, val, cached>>

\* Mutant: the new leader does not look into L1 again.
LeadBlindly(c) ==
    /\ pc[c] = "join"
    /\ leader[Home[c]] = NoCaller
    /\ leader' = [leader EXCEPT ![Home[c]] = c]
    /\ Goto(c, "backend")
    /\ UNCHANGED <<now, l1, l2, op, start, val, cached>>

\* Nobody is running one: the caller looks into L1 again and then leads.
Lead(c) ==
    /\ pc[c] = "join"
    /\ leader[Home[c]] = NoCaller
    /\ \/ /\ l1[Home[c]] # Empty
          /\ Reply(c, AnswerOf(l1[Home[c]]), TRUE)
          /\ UNCHANGED leader
       \/ /\ l1[Home[c]] = Empty
          /\ leader' = [leader EXCEPT ![Home[c]] = c]
          /\ Goto(c, "backend")
          /\ UNCHANGED <<val, cached>>
    /\ UNCHANGED <<now, l1, l2, op, start>>

\* Mutant: response.cached = true is forgotten.
BackendHitUnmarked(c) ==
    /\ pc[c] = "backend"
    /\ l2 # Empty
    /\ Goto(c, "insert")
    /\ Hold(c, AnswerOf(l2), FALSE)
    /\ UNCHANGED <<now, l1, l2, leader, op, start>>

\* Mutant: lookup_status is not stored and comes back as its serde default.
BackendHitDefault(c) ==
    /\ pc[c] = "backend"
    /\ l2 # Empty
    /\ Goto(c, "insert")
    /\ Hold(c, [AnswerOf(l2) EXCEPT !.status = "Found"], TRUE)
    /\ UNCHANGED <<now, l1, l2, leader, op, start>>

BackendHit(c) ==
    /\ pc[c] = "backend"
    /\ l2 # Empty
    /\ Goto(c, "insert")
    /\ Hold(c, AnswerOf(l2), TRUE)
    /\ UNCHANGED <<now, l1, l2, leader, op, start>>

\* A miss, or an error of the backend, which counts as one.
BackendMiss(c) ==
    /\ pc[c] = "backend"
    /\ \/ op[c] = "get_or_fetch" /\ Goto(c, "fetch") /\ UNCHANGED <<val, cached>>
       \/ op[c] = "get" /\ Reply(c, Nothing, FALSE)
    /\ UNCHANGED <<now, l1, l2, leader, op, start>>

FetchOk(c) ==
    /\ pc[c] = "fetch"
    /\ \E s \in Status : Hold(c, [status |-> s, born |-> now], FALSE)
    /\ Goto(c, "store")
    /\ UNCHANGED <<now, l1, l2, leader, op, start>>

\* Mutant: the error of the fetch is stored like a response.
FetchErrStored(c) ==
    /\ pc[c] = "fetch"
    /\ l1' = [l1 EXCEPT ![Home[c]] =
                [status |-> "Error", born |-> now, expires |-> now + PositiveTtl]]
    /\ Land(c, Failure, FALSE)
    /\ UNCHANGED <<now, l2, op, start>>

FetchErr(c) ==
    /\ pc[c] = "fetch"
    /\ Land(c, Failure, FALSE)
    /\ UNCHANGED <<now, l1, l2, op, start>>

BackendSet(c) ==
    /\ pc[c] = "store"
    /\ l2' \in StoreOutcomes(val[c])
    /\ \/ op[c] = "get_or_fetch" /\ Goto(c, "insert") /\ UNCHANGED <<val, cached>>
       \/ op[c] = "set" /\ Reply(c, Nothing, FALSE)
    /\ UNCHANGED <<now, l1, leader, op, start>>

\* moka stores what the init future returned and wakes the waiters.
FinishFlight(c) ==
    /\ pc[c] = "insert"
    /\ op[c] = "get_or_fetch"
    /\ l1' = [l1 EXCEPT ![Home[c]] = Inserted(@, val[c])]
    /\ Land(c, val[c], cached[c])
    /\ UNCHANGED <<now, l2, op, start>>

\* A waiter's entry is not is_fresh(): a value comes back with cached = true.
Wake(c) ==
    /\ pc[c] = "wake"
    /\ Reply(c, val[c], val[c].status \in Status)
    /\ UNCHANGED <<now, l1, l2, leader, op, start>>

-------------------------------------------------------------------------------
(* get and set, the rest of the public interface *)

Get(c) ==
    /\ Begin(c, "get")
    /\ \/ l1[Home[c]] # Empty /\ Reply(c, AnswerOf(l1[Home[c]]), TRUE)
       \/ l1[Home[c]] = Empty /\ Goto(c, "backend") /\ UNCHANGED <<val, cached>>
    /\ UNCHANGED <<now, l1, l2, leader>>

\* Mutant: the promoted entry gets a TTL on top of what L2 has left.
PromoteLonger(c) ==
    /\ pc[c] = "insert"
    /\ op[c] = "get"
    /\ l1' = [l1 EXCEPT ![Home[c]] =
                EntryUntil(val[c], l2.expires + ExpireAfterCreate(val[c].status))]
    /\ Reply(c, val[c], TRUE)
    /\ UNCHANGED <<now, l2, leader, op, start>>

\* get found the key in L2 and promotes it; its clock in L1 starts anew.
Promote(c) ==
    /\ pc[c] = "insert"
    /\ op[c] = "get"
    /\ l1' = [l1 EXCEPT ![Home[c]] = Inserted(@, val[c])]
    /\ Reply(c, val[c], TRUE)
    /\ UNCHANGED <<now, l2, leader, op, start>>

\* set stores a response the caller has just obtained: L1 first, L2 later.
Set(c) ==
    /\ Begin(c, "set")
    /\ \E s \in Status :
          LET a == [status |-> s, born |-> now] IN
          /\ l1' = [l1 EXCEPT ![Home[c]] = Inserted(@, a)]
          /\ Hold(c, a, FALSE)
    /\ Goto(c, "store")
    /\ UNCHANGED <<now, l2, leader>>

-------------------------------------------------------------------------------
(* The environment *)

\* The caller of the operation takes the result.
Return(c) ==
    /\ pc[c] = "done"
    /\ Goto(c, "idle")
    /\ Hold(c, Nothing, FALSE)
    /\ op' = [op EXCEPT ![c] = "none"]
    /\ start' = [start EXCEPT ![c] = 0]
    /\ UNCHANGED <<now, l1, l2, leader>>

\* Mutant: nobody releases the waiters of a leader that is dropped.
AbandonAlone(c) ==
    /\ pc[c] \notin {"idle", "done"}
    /\ leader' = [i \in Instances |-> IF leader[i] = c THEN NoCaller ELSE leader[i]]
    /\ Goto(c, "idle")
    /\ Hold(c, Nothing, FALSE)
    /\ op' = [op EXCEPT ![c] = "none"]
    /\ start' = [start EXCEPT ![c] = 0]
    /\ UNCHANGED <<now, l1, l2>>

\* The future of the call is dropped.  If it was running the init future, moka
\* drops that too, and each waiter tries again to join or to lead.
Abandon(c) ==
    /\ pc[c] \notin {"idle", "done"}
    /\ LET led == {i \in Instances : leader[i] = c} IN
       /\ leader' = [i \in Instances |-> IF i \in led THEN NoCaller ELSE leader[i]]
       /\ pc' = [x \in Callers |-> IF x = c THEN "idle"
                                   ELSE IF pc[x] = "wait" /\ Home[x] \in led
                                        THEN "join" ELSE pc[x]]
    /\ Hold(c, Nothing, FALSE)
    /\ op' = [op EXCEPT ![c] = "none"]
    /\ start' = [start EXCEPT ![c] = 0]
    /\ UNCHANGED <<now, l1, l2>>

\* moka makes room, or an instance is replaced by one with a cold cache.
Evict(i) ==
    /\ l1[i] # Empty
    /\ l1' = [l1 EXCEPT ![i] = Empty]
    /\ UNCHANGED <<now, l2, leader, pc, op, start, val, cached>>

\* The backend makes room, or is flushed.
EvictBackend ==
    /\ l2 # Empty
    /\ l2' = Empty
    /\ UNCHANGED <<now, l1, leader, pc, op, start, val, cached>>

\* Time passes.  A result is taken in the instant it is there, and no call
\* outlives the HTTP timeout: the layer drops it before the clock moves on.
Overdue(c) == pc[c] # "idle" /\ (pc[c] = "done" \/ now >= start[c] + Timeout)
Aged(e) == IF now + 1 < e.expires THEN e ELSE Empty
Tick ==
    /\ now < MaxTime
    /\ \A c \in Callers : ~Overdue(c)
    /\ now' = now + 1
    /\ l1' = [i \in Instances |-> Aged(l1[i])]
    /\ l2' = Aged(l2)
    /\ UNCHANGED <<leader, pc, op, start, val, cached>>

\* The steps of the call itself, as opposed to what is done to it.
Proceed(c) ==
    \/ JoinFlight(c) \/ Lead(c) \/ BackendHit(c) \/ BackendMiss(c)
    \/ FetchOk(c) \/ FetchErr(c) \/ BackendSet(c) \/ FinishFlight(c)
    \/ Wake(c) \/ Promote(c) \/ Return(c)

Next ==
    \/ \E c \in Callers : GetOrFetch(c) \/ Get(c) \/ Set(c) \/ Proceed(c) \/ Abandon(c)
    \/ \E i \in Instances : Evict(i)
    \/ EvictBackend
    \/ Tick

Spec == Init /\ [][Next]_vars

\* Every await of a call resolves: the backend and the registry answer or
\* fail, and moka wakes waiters.  Nobody has to give up, and time may stop.
FairSpec == Spec /\ \A c \in Callers : WF_vars(Proceed(c))

-------------------------------------------------------------------------------
(* Correctness, whatever operations are called *)

LongerOf(a, b) == IF a < b THEN b ELSE a

Pc == {"idle", "join", "wait", "wake", "done"} \cup InFlight

TypeOK ==
    /\ now \in 0..MaxTime
    /\ l1 \in [Instances -> Entry]
    /\ l2 \in Entry
    /\ leader \in [Instances -> Callers \cup {NoCaller}]
    /\ pc \in [Callers -> Pc]
    /\ op \in [Callers -> Ops \cup {"none"}]
    /\ start \in [Callers -> Nat]
    /\ val \in [Callers -> Answer]
    /\ cached \in [Callers -> BOOLEAN]

\* "only ONE fetch operation will be executed" (cache.rs:172-175): within one
\* instance the only get_or_fetch call between the L1 miss and the end of its
\* fetch is the leader, whatever is abandoned on the way.
SingleFlight ==
    \A c \in Callers :
        pc[c] \in InFlight /\ op[c] = "get_or_fetch" => leader[Home[c]] = c

\* A coalesced caller always waits for somebody who is still working for it:
\* when the leader fails or is dropped its waiters are released with it.
NoStrandedWaiter ==
    \A c \in Callers : pc[c] = "wait" =>
        /\ leader[Home[c]] \in Callers
        /\ pc[leader[Home[c]]] \in InFlight

\* A reply that says cached = false was fetched from the registry during that
\* very call.
UncachedIsOwnFetch ==
    \A c \in Callers :
        pc[c] = "done" /\ val[c].status \in Status /\ ~cached[c] =>
            val[c].born >= start[c]

\* cache.rs:21-23: a throttle banner never reaches the tier the whole fleet
\* reads, whoever calls set with one.
ThrottleNotShared == l2.status # "RateLimited"

\* What L1 serves is bounded even if set and the promotion of get write over
\* live entries of another status and inherit their expiry: nothing is served
\* from L1 past one positive TTL after it was stored, nor past the life of an
\* L2 entry and that.
ApiLifetimeBounded ==
    \A i \in Instances : l1[i] # Empty =>
        /\ l1[i].expires <= now + LongerOf(PositiveTtl, NegativeTtl)
        /\ l1[i].expires <= l1[i].born + 2 * (LongerOf(PositiveTtl, NegativeTtl) + Timeout)

-------------------------------------------------------------------------------
(* Correctness of get_or_fetch, the one operation WhoisClient uses *)

\* cache.rs:37-38: a throttle banner is shared with the callers that waited
\* for it, and never persists after that: not in L1, not in L2.
ThrottleNotCached ==
    /\ \A i \in Instances : l1[i].status # "RateLimited"
    /\ ThrottleNotShared

\* The fleet goes upstream only when it has to: while an instance holds a live
\* answer none of its get_or_fetch calls is asking L2 or the registry.
HolderNeverFetches ==
    \A c \in Callers :
        op[c] = "get_or_fetch" /\ pc[c] \in InFlight => l1[Home[c]] = Empty

\* The longest age at which an answer may still be handed out: its life in L2,
\* counted from the store at most Timeout after the fetch, then the promotion
\* and its life in L1, or a waiter that is woken late.
ShelfLife(s) ==
    IF s = "RateLimited" \/ ExpireAfterCreate(s) = 0 THEN 2 * Timeout
    ELSE ExpireAfterCreate(s) + 2 * Timeout + LongerOf(ExpireAfterCreate(s), Timeout)

\* cache.rs:152-153: "an entry's total lifetime is bounded by backend TTL + L1
\* TTL", per status: a NotFound lives on the short negative TTL in both tiers.
LifetimeBounded ==
    /\ \A i \in Instances : l1[i] # Empty =>
          l1[i].expires <= l1[i].born + 2 * (ExpireAfterCreate(l1[i].status) + Timeout)
    /\ l2 # Empty => l2.expires <= l2.born + ExpireAfterCreate(l2.status) + Timeout

\* No reply is older than the shelf life of its status, through every mixture
\* of promotion, coalescing, slow stores and abandoned calls.
RepliesAreFresh ==
    \A c \in Callers :
        pc[c] = "done" /\ val[c].status \in Status =>
            now <= val[c].born + ShelfLife(val[c].status)

\* Every call ends, a coalesced one too when the leader it waits for is dropped,
\* provided calls are not dropped forever: a waiter that is released joins or
\* leads again, and would starve only behind an endless row of dropped leaders.
EveryCallEnds ==
    <>[][\A c \in Callers : ~Abandon(c)]_vars =>
        \A c \in Callers : pc[c] # "idle" ~> pc[c] = "idle"

\* The comment of the is_fresh() branch, cache.rs:222: "This caller (or a
\* coalesced peer) just fetched it".  Read as a claim: a waiter that shares a
\* fetch (cached = false in the shared value) is answered by that branch and
\* keeps the flag.
PeerOfFetchIsFresh ==
    [][\A c \in Callers : pc[c] = "wake" /\ pc'[c] = "done" => cached'[c] = cached[c]]_vars
===============================================================================
