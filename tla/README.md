# A TLA+ model of whois-service

This directory specifies and verifies `alesiancyber/rust-whois`: the two-tier
response cache with its request coalescing; the discovery of RDAP servers
through the IANA bootstrap document; WHOIS lookups with their permits, retries,
self-healing server cache and referrals; and what a client is told, from the
validation of its request to the reply. It names source files relative to the
repository (`src/src/cache.rs` is the crate's `src/cache.rs`).

## 1. The system

`whois-service` answers WHOIS/RDAP lookups of domains and IP addresses, as a
library (`WhoisClient`) and as an HTTP service (axum). One lookup is one
asynchronous task on a multi-threaded tokio runtime: it may be suspended at
every `await`, tasks interleave freely, and a task may be dropped at any `await`
by the HTTP timeout of 60 s or by a client that disconnects.

    HTTP handlers (main.rs) -> WhoisClient (lib.rs)
        -> CacheService (cache.rs) -> CacheBackend / RedisCache (redis_cache.rs)
        -> RdapService (rdap.rs)   -> IANA bootstrap document, RDAP servers
        -> WhoisService (whois.rs) -> discovery, TCP queries, referrals
              -> BufferPool (buffer_pool.rs), parser.rs, dates.rs

| Component | State | Operations | What is hard | What makes it correct |
|---|---|---|---|---|
| `CacheService` cache.rs | moka L1 per process, shared L2, moka's running init futures | `get_or_fetch`, `get`, `set` | coalescing, dropped leaders, errors shared by waiters, two expiry clocks | one fetch at a time, nobody stranded, bounded age, banners never cached, honest `cached` flag |
| `RedisCache` redis_cache.rs | lazy connection | `get`, `set` | outages | an error is a miss |
| `RdapService`, discovery rdap.rs 30-76, 260-405 | bootstrap document, its times, Mutex; server cache, RwLock | `find_rdap_server` | single-flight across a slow fetch, back-off, refresh and clear under two locks | one fetch, back-off kept, stale data served in an outage, servers of listed TLDs only |
| `RdapService`, query rdap.rs 175-258, 416-492 | permits | `lookup`, `lookup_ip` | retries, 404/429 as outcomes | only what is transient is retried; an answer, also a 404, is final |
| `WhoisService`, servers whois.rs 84-101, 203-333 | server cache per TLD | `find_whois_server`, `rediscover_and_retry` | concurrent healing of one TLD | a dead server is replaced, one lookup is enough for it |
| `WhoisService`, referrals whois.rs 103-141, 568-662 | local to a lookup | `follow_referrals` | cycles, self-reference, throttled registrars | no server is asked twice, at most `max_referrals`, never loses the registry's answer |
| queries whois.rs 416-566, buffer_pool.rs | two semaphores, buffer pool | `execute_whois_query`, `read_whois_response` | permits held across retries, time-outs, dropped reads | permits and buffers return on every path, every query has a bounded time |
| `WhoisClient` lib.rs 418-606 | none of its own | `lookup`, `lookup_fresh`, ... | fallback between tiers, two bad answers | RDAP first, WHOIS on failure only; fresh lookups bypass the cache |
| HTTP service main.rs | start time, limiter | handlers | timeout against late answers | -- |
| parser.rs, dates.rs, lib.rs 330-378 | none | `parse_whois_data`, `classify_response`, `fill_missing_from` | phrases beside real records, dates and ages of two servers | a real record is never taken for a banner, ages belong to their dates |
| rate_limiter.rs, metrics.rs | governor buckets, counters | soft checks | -- | limits warn, never reject |
| config.rs | none | `load`, `validate` | zeros, aliases, values that do not parse | the defaults start, no accepted configuration deadlocks |
| ip.rs | none | `detect_rir`, `is_private_or_special` | ends of ranges, overlaps, masks | special addresses are never asked about, one registry per address |
| errors.rs, tld.rs | none | `duplicate`, `into_response`, `extract_tld` | copies for waiters | a copy has the same HTTP status |

`PROJECT.json` lists these components with their status, and under `hazards`
the places in the code where each hard behaviour bites.

## 2. Modules

| Module | What it is |
|---|---|
| `CacheService` | the cache for one key in a fleet of instances: state, one action per stage of each operation, properties |
| `FreshAnswers` | the abstract promise of a cache: answers are given unaltered, come from the registry, and are not too old |
| `CacheRefinement` | the refinement mapping of `CacheService` to `FreshAnswers` |
| `CacheServiceProofs` | theorems about `CacheService` |
| `CacheRefinementProofs` | the theorem that `CacheService` implements `FreshAnswers` |
| `MCCacheService` | instances for TLC, with `MCCache*.cfg` |
| `RdapBootstrap` | bootstrap document, back-off and server cache: state, actions, properties |
| `RdapBootstrapProofs` | theorems about `RdapBootstrap` |
| `MCRdapBootstrap` | instances for TLC, with `MCRdap*.cfg` |
| `ServiceConfig` | `Config`: defaults of a machine, overrides of the environment, validation; pure operators |
| `WhoisQuery` | one query over TCP: permit, attempts, time limits, retries, buffer |
| `WhoisService` | concurrent WHOIS lookups in one TLD, on top of `WhoisQuery`; started with a `ServiceConfig` |
| `FiniteInduction` | induction over finite sets, maxima, powers of two: lemmas the proofs share |
| `WhoisServiceProofs` | theorems about `WhoisService`, `WhoisQuery` and `ServiceConfig` |
| `MCWhoisService` | instances for TLC, with `MCWhois*.cfg` |
| `WhoisText` | records, line parsers, classification, backfill, referral; pure operators |
| `RdapRecord` | the record in an RDAP body; pure operators |
| `IpRanges` | the registries' address ranges and the special ranges; pure operators |
| `Lookup` | one lookup from the request to the reply, composed of the three above |
| `LookupProofs` | theorems about `Lookup` and the operators it is composed of |
| `MCLookup` | texts, bodies and inputs for TLC, with `MCLookup*.cfg` |

Some operators are marked `Mutant`: each is a plausible bug in the definition
that follows it and breaks one property. The specifications do not use them;
they show that each property says something about the code.

### 2.1 CacheService

The model is about ONE normalised key. Entries of different keys meet only in
the capacity of L1, which is the action `Evict`. A response is reduced to its
`lookup_status` and the time `born` at which the registry gave it.

| Model | Code |
|---|---|
| `l1[i]` | the entry in the moka cache of process `i`; `Empty` is absent or expired |
| `l2` | the entry in the shared backend |
| `leader[i]` | moka's record of whose init future runs for the key |
| `pc[c]` | the `await` a call stands at: `join`, `wait`, `wake` inside moka; `backend`, `fetch`, `store`, `insert` for the stages of cache.rs 199-213; `done` |
| `val[c]`, `cached[c]` | the response a call holds, and its `cached` field |
| `GetOrFetch`, `JoinFlight`, `Lead`, `Wake` | `entry().or_try_insert_with`, 196-230 |
| `BackendHit`, `BackendMiss`, `FetchOk`, `FetchErr`, `BackendSet`, `FinishFlight` | the init future, 199-213, and moka's storing of its value |
| `Get`, `Promote`, `Set` | 137-168 |
| `ExpireAfterCreate`, `BackendTtl` | 44-58, 103-110 |
| `Abandon` | the drop of a call's future; a leader's waiters then join or lead again |

**External: moka.** Its behaviour is modelled as its documentation gives it and
as the code relies on it: an insert over a live entry is an *update* and keeps
the remaining time, because `StatusExpiry` does not override
`expire_after_update`; a reader never sees an expired entry; a caller that
becomes leader looks into the cache once more; a dropped init future releases
its waiters; one value or error is shared with all waiters, whose entries are
not `is_fresh()`. A zero TTL is an entry that is expired at once.

**External: the backend.** `BackendSet` may fail without an effect; `BackendMiss`
stands for a miss and for an error. A Redis write that takes effect although its
call was dropped is `BackendSet` followed by `Abandon`. `EvictBackend` is a
flush or an eviction.

**Time.** `now` is discrete, durations are multiples of its unit. `Tick` asks
that nobody has outlived `Timeout` and that results that are there have been
taken. The first is the HTTP layer (`REQUEST_TIMEOUT_SECS`); a library caller
has no such deadline, so the age bounds are statements about the service. Calls
start only where the deadline fits under `MaxTime`, so the bound on the clock
cuts no call short.

### 2.2 RdapBootstrap

Documents IANA publishes are numbered, and a server is represented by the number
of the document it was read from; `Listed[v]` are the TLDs that document `v` has
an entry for, under the whole suffix or its last label (`rdap.rs` 310-317).

| Model | Code |
|---|---|
| `data`, `fetchedAt`, `lastAttempt` | `BootstrapState`, 41-46 |
| `holder` | who holds the Mutex across its fetch; other critical sections have no `await` and are one step |
| `tldServers` | the server cache behind the RwLock |
| `view[t]` | the `Arc` of the document, then the server, that a task holds |
| `decide` | `BootstrapState::decide`, 63-75 |
| `Find`, `Insert` | the two critical sections of `find_rdap_server`, 260-284 |
| `Lock` | lock and decide, 338-353 |
| `Respond`, `Store`, `FetchErr` | 355-377 and `fetch_bootstrap_data` 382-405 |
| `Clear` | 362-367: after the Mutex was released and behind another lock |
| `Publish` | external: IANA publishes the next document |

The discovery semaphore of `fetch_bootstrap_data` is acquired under the Mutex,
by the only task that ever fetches, and is therefore never contended; it is left
out.

### 2.3 WhoisService, WhoisQuery and ServiceConfig

A server is a host. Its behaviour (`reach`) is one of ten kinds, from one that
answers at once, or as late as it can, to one that drips bytes for ever; `Move`
changes it, and the server IANA names, at any moment. Every lookup is for one TLD, whose entry is `tldServer`.
An answer is reduced to the referral in it, `refers[s]`, an arbitrary graph.

| Model | Code |
|---|---|
| `tldServer` | the TLD's entry in `tld_servers`, whois.rs 50 |
| `free` | the permits of `domain_query_semaphore` and `discovery_semaphore` |
| `pool` | the number of buffers in the ArrayQueue |
| `query[t]` | the query a lookup awaits: host, semaphore, whether it is a referral's, attempts made, and its stage |
| `spent[t]` | seconds the lookup has been kept by the network |
| `stage[t]` | the `await` a lookup stands at: a query (`root`, `ask`, `askNew`, `hop`), a connection test, or a write lock (`insert`, `purge`, `keep`) |
| `server`, `failed`, `candidates`, `visited` | the locals `whois_server`, `failed_server`, the hosts still to test, `visited` |
| `AcquirePermit`, `Connect`, `Retry`, `Answers`, `Fails` | `whois_query_with_semaphore`, `referral_whois_query`, `execute_whois_query`, 433-566 |
| `TakeBuffer`, `ReturnBuffer` | `PooledBuffer::new` and `drop` |
| `Begin`, `Insert` | `find_whois_server`, 203-227 |
| `RootAnswers`, `RootFails`, `TestHolds`, `TestFails` | `discover_whois_server_dynamic`, 254-333, and `test_whois_server` |
| `ServerFails`, `Purge`, `NewServerAnswers`, `NewServerFails`, `Keep` | `lookup` 94-101 and `rediscover_and_retry` |
| `Digest`, `HopAnswers`, `HopFails` | `follow_referrals`, 568-602 |
| `TimeOut`, `Disconnect` | the drop of a lookup's future, with its permit and buffer |
| `Start`, `load` | `Config::load` and `WhoisService::new` |

What a task does between two awaits is one step. A query that ends is followed,
in the same step, by what the code does up to the next `await`. `spent` counts
the time the network keeps a lookup. Connecting and reading have a clock each
(whois.rs 510-513, 537-550), and a host either takes no time at all for the one
or the other or all the time there is, whether it then succeeds or not: a host
that is `late` makes its connection and ends its answer at the last moment, and
one that `drags` connects at the last moment and then drips. An attempt may thus
take `TOTAL_TIMEOUT_MULTIPLIER` + 2 limits: one to connect, the total of the
response, and the read that overruns it. A referral query has one budget for
both (437), charged when it reads. Waiting for a permit is not counted, so that
`LookupTimeBounded` is about the code's limits and not about the load; nor is
writing the query, which has no limit in the code, but is one short line into
the buffer of a new connection.

`ServiceConfig` counts memory in MiB and the response size in KiB. Environment
variables are a function from the names that are set to numbers, with
`Unparsable` for a text that is none.

### 2.4 Lookup, WhoisText, RdapRecord and IpRanges

`Lookup` is one client's view, request after request. The servers say any of a
set of texts and bodies, or fail, at each step; which host is asked and how long
that takes belongs to the modules above. A text is a sequence of lines, and a
key is the set of those words of the parsers it contains, so that
`contains("registrar")` is a membership and every arm of the code's `match` is
kept, with its order and its guards. A date is named by its value, so that an
age can be compared with the date it was taken from.

| Model | Code |
|---|---|
| `request`, `reply` | the request in the handler and the response sent for it |
| `stage` | the `await` of `lookup_with_fallback` and below |
| `seen` | the outcomes of the RDAP attempts, in order |
| `chain` | the answers `raw_data` and those of the referrals, with their servers |
| `cache` | the cache with room for one response; its concurrency is `CacheService` |
| `Validate`, `Serve`, `whois_lookup`, `whois_debug` | the handlers, main.rs 245-378, and `ValidatedQuery::new` |
| `FindRdapServer`, `RdapFails`, `RdapAnswers`, `RdapNotFound` | rdap.rs 175-258, 416-492 |
| `FindWhoisServer`, `WhoisFails`, `WhoisAnswers`, `ReferralAnswers`, `ReferralFails` | whois.rs 84-104, 155-173, 568-602 |
| `DomainResult`, `IpResult` | whois.rs 106-140 and 175-200 |
| `Store`, `Send`, `Refuse` | lib.rs 573-606, main.rs 268-284, errors.rs 78-124 |

The word `registrant` is a prefix in the arm for names and a part of the key in
the others; the model has one word for both. `IpRanges` cuts addresses off where
no range of the code looks further.

## 3. Runs

| Run | Properties | Result |
|---|---|---|
| `cache_flight` | `TypeOK`, `SingleFlight`, `NoStrandedWaiter`, `HolderNeverFetches`, `EveryCallEnds` | hold; 51 thousand states |
| `cache_age` | `ThrottleNotCached`, `LifetimeBounded`, `RepliesAreFresh`, `UncachedIsOwnFetch`, `KeepsPromise` | hold; 268 thousand states |
| `cache_api` | `ThrottleNotShared`, `ApiLifetimeBounded` | hold; 605 thousand states |
| `cache_banner` | `ThrottleNotCached` with `set` | violated |
| `cache_peer` | `PeerOfFetchIsFresh` | violated |
| `rdap` | `TypeOK`, `OneFetch`, `ServersComeFromData`, `DataNeverRegresses`, `BackoffRespected`, `OutageServesStale`, `LookupsEnd` | hold |
| `rdap_due` | `DueDataIsRefetched` | violated |
| `rdap_race` | `RefreshDropsOldServers` | violated |
| `whois` | `TypeOK`, `PermitsConserved`, `BuffersBounded`, `DefaultsStart`, `LookupTimeBounded`, `SettledLookupsSucceed`, `ChainBounded`, `EveryLookupEnds`, `TldRecovers` | hold; 266 thousand states |
| `whois_http` | `TldNotBrokenForGood` | violated |
| `lookup` | `TypeOK`, `FieldsKept`, `ThrottleHidden`, `NoticeNeverMasks`, `AnswerIsItsServers`, `AgesMatch`, `OnlyTransientRetried`, `RdapAnswerIsFinal`, `WaitersAgree`, `SpecialNeverAsked`, `RirUnambiguous`, `LiveBypassesCache` | hold; 356 thousand states |
| `lookup_status` | `NegativeMeansNoRecord` | violated |

Bounds, and why they are enough:

- `cache_flight`: three callers of one instance are a leader, a waiter and a
  newcomer, or two waiters that compete when the leader is dropped. A
  `NegativeTtl` of 0 is the disabled negative cache, so that a flight can end
  without leaving an entry. No symmetry: liveness is checked.
- `cache_age`: one call at a time per instance, so that nothing is coalesced here
  (that is `cache_flight`; the theorems about the same properties have any number
  of callers). An answer gets old by a slow store, by its life in L2, by its
  promotion in the other instance and by its life there. Two instances with one
  call each are enough for every link of that chain. `MaxTime` = 8 exceeds the
  longest shelf life, 6, so an over-aged answer would be seen.
- `cache_api`: adds `get` and `set`, with time for a store, a write over the
  live entry, and the expiry of both.
- `rdap`: `MaxTime` = 7 covers two refresh periods of 3; a fetch may last as
  long as the retry window (2 each), the only case in which the Mutex and not
  the back-off prevents concurrent fetches. Two documents, the second of which
  lists a TLD the first does not.

- `whois`: two lookups are enough for a race between a lookup and a healer, or
  two healers, and a single permit for domain queries makes them wait for each
  other. The world changes twice: the registry moves from `alt`, which is lost, to
  `nic`, which gets slow at everything or connects late and drips, and IANA turns
  connections away, also while a discovery is between its test and its query. One client goes away. The hosts refer to each other, so that `max_referrals` = 2
  and `visited` both matter. Time limits of 1 s let all retries happen within
  `RequestTimeout`: `LongestLookup` is 42 s then, so that callers are patient. Those
  of 30 s make the request's limit strike. One retry and not three: a second retry
  repeats the state of the first. With two changes of the world no lookup gets
  near the 42 s, for which every host it asks would have to drag; that the bound
  holds there, too, is what the proof shows.
- `whois_http`: the code's own numbers, a developer's machine, nothing set.
- `lookup`: registries' answers that are full, thin, throttled, empty or all at
  once, with and without a referral; registrars that add, lack, misstate or deny
  what the registry said, refer back, or on; three attempts after the first at
  RDAP; addresses at the ends of the ranges, and 192.0.2.1, 0.0.0.0 and ::1, which
  the code singles out. `MaxReferrals` = 2 makes chains of three answers.

The clock of the cache and of the bootstrap is bounded, so those runs stop in
the end: `CHECK_DEADLOCK FALSE`. That callers do not block each other forever is
what the liveness properties say. `whois` and `lookup` check for deadlock.

**Fairness.** `FairSpec` of the cache: weak fairness of the steps of each call
(the backend and the registry answer or fail, which reqwest's and the WHOIS
time-outs guarantee for the registry; moka wakes waiters). No fairness of
`Tick`, `Abandon` or eviction. `EveryCallEnds` adds a hypothesis in the formula:
calls are dropped finitely often, as a waiter behind an endless row of dropped
leaders would indeed wait on. `FairSpec` of the bootstrap: weak fairness of the
steps of a task (the HTTP client has a timeout), and strong fairness of `Lock`,
as tokio's Mutex is handed to its waiters in FIFO order.

`FairSpec` of `WhoisService`: strong fairness of the steps of each lookup. It is
strong because of permits, which another lookup may take and give back for ever;
tokio's semaphores serve their waiters in FIFO order, so that a waiter is not
passed over. Hosts that never answer are no exception: every read, connection
and attempt has a time limit. Weak fairness of `Begin` says that the TLD goes on
being asked for, without which a dead entry would stay, unseen. `TldRecovers`
needs `Patient`, a caller that lets a lookup run to its end; `whois_http` shows
what happens without. No fairness of `Move` and `Disconnect`. `Lookup` states
no fairness and no liveness.

### What the violated runs show

1. `cache_banner`: `set` of a throttle banner over a live entry is an update for
   moka and inherits that entry's expiry: the banner is then served from L1.
   `cache.rs:37` says rate-limited responses are not cached. `WhoisClient` uses
   `get_or_fetch` only, for which `ThrottleNotCached` holds and is proved.
2. `cache_peer`: a call that was coalesced into a fetch reports `cached = true`
   (and counts as a cache hit in `main.rs`), while the comment at `cache.rs:222`
   counts coalesced peers among those that just fetched.
3. `rdap_due`: cached servers never expire and the bootstrap document is looked
   at only on a miss, so a service asked for known TLDs only never refetches;
   `rdap.rs:333-334` promises that migrated endpoints are picked up.
4. `rdap_race`: a task that took the old document before a refresh inserts its
   server after the refresh has cleared the cache. It stays until the next
   refresh. `PatientSpec` (nobody is dropped) shows that no drop is needed for
   this; a drop between `Store` and `Clear` loses the whole clear.
5. `whois_http`: the cached server of a TLD drops packets. Four attempts of 15 s
   (30 s in production) and the pauses between them exceed the 60 s of the HTTP
   layer, so every request is dropped before `rediscover_and_retry` removes the
   entry, although IANA names a server that answers. `whois.rs:231-232` promises
   that such a server does not permanently break the TLD. A library caller
   without a deadline heals it (`TldRecovers`).
6. `lookup_status`: the registry has a full record and refers to a registrar that
   answers "not found". The reply has the registrar, the creation date and the
   name servers of the registry under the status NotFound, because the status
   was taken before the backfill. `lookup_ip` takes it after.

Two smaller observations that no property is about: a line whose own arm is full
goes on to the arms below, so that "Last Updated by Registrar" can become the
registrar and a second "OrgTechEmail" the registrant's address; and an RDAP 200
whose body is no JSON is a `Found` without a record, which is cached as such.

## 4. Proofs

Every safety invariant and action property of a passing run, and the
refinement, is also a theorem about every value of the constants. The
assumptions are the named ones of the modules: times and limits are naturals,
`Home` maps callers to instances, `NoCaller` and `NoTask` are nobody; there are
finitely many lookups at a time (permits are counted), an environment variable
is a number or `Unparsable`, the constants that describe the world of
`WhoisService` have the types of what they describe, and an input that reads as
an address is one.

### The cache

`CacheServiceProofs`, along five invariants, each inductive together with those
it builds on:

- `TypeInv`: the types, and that only answers are stored. The second part is
  needed for the first: otherwise an error on its way to a store would break the
  type of `l1`.
- `FlightInv`, for `SingleFlight` and `NoStrandedWaiter`: the leader on record
  is a running `get_or_fetch` of that instance, every such call in flight is the
  leader, and waiters wait for a leader on record.
- `OwnFetchInv`, for `UncachedIsOwnFetch`: no call began in the future, and from
  the fetch on a response that is not marked as cached was born during the call
  that holds it. Waiters need no case of their own, since `Wake` marks what they
  return.
- `AgeInv`, for `ThrottleNotCached`, `HolderNeverFetches`, `LifetimeBounded`,
  `RepliesAreFresh`: a call that is not idle began at most `Timeout` ago; what
  each tier may hold and until when; how old a response in transit may be at each
  stage; and that the instance of a call in flight holds no entry. The last part
  is what makes every insert a creation, so that no expiry is inherited.
  It holds for `get_or_fetch` only; with `set` it does
  not, as `cache_banner` shows, and the theorems say so in their hypothesis.
- `ApiInv`, for `ApiLifetimeBounded`, with all operations: an insert may inherit
  an expiry, but that one is at most the longest TTL away, and what is inserted
  was fetched by a call that is still young, or came from L2, whose entries live
  no longer than that TTL after they were written. `ThrottleNotShared` needs no
  more than itself: a write to L2 asks for the TTL of the status, and a throttle
  banner's is zero.

`CacheRefinementProofs` proves `KeepsPromise` for `get_or_fetch`. The mapping
makes the known answers those in either tier or in a call's hands, and shows of
a call whether it runs and what it returned. Each step then is one of four: it
begins or ends a call, it adds the registry's answer, or it changes nothing a
caller sees (a promotion, a store, an expiry, which at most forget). That a
reply is not too old is `AgeInv`; `WakeInv` adds that a woken caller was given an
answer or the error of the fetch. With `get` the promise is not kept in this
form: a promotion over a live entry inherits its expiry.

### The bootstrap document

`RdapBootstrapProofs` proves `TypeOK`, `OneFetch`, `ServersComeFromData`,
`DataNeverRegresses`, `BackoffRespected` and `OutageServesStale`. The
strengthening is `DocumentsInOrder`: what a fetching task has read is no older
than the stored document, since it holds the Mutex.

### WHOIS lookups

`WhoisServiceProofs`:

- `TypeInv` adds to `TypeOK` what it needs to be inductive: which stages have a
  query or a server, that the candidates of a discovery are hosts, and that a
  configuration that was accepted has numbers in all its fields. `DefaultsStart`
  goes through `load` for every machine: each derived value is in the range that
  `validate` asks for.
- `PermitsConserved` is inductive together with the types. Permits that are held are the
  cardinality of a set of lookups, so the proof has one lemma per effect a step
  can have on it (a lookup joins, leaves, or all stay), and every action is shown
  to have one of these effects, the drop of a lookup in whatever stage included.
- `BufferInv` follows from it: a reader holds a permit, so there are never more
  readers than permits; a buffer is taken by a new reader, and one that comes
  back leaves one behind. A service that has not started has no buffers, which
  `BuffersBounded` does not say and its first step needs.
- `ChainInv` ties `visited` to the chain: in a chain, the host being asked has
  been visited and at most `max_referrals` + 1 hosts have; out of it, none.
  Without the first part a referral back to the present host would not be excluded.
- `TimeInv` gives each stage its budget: what the stages before it may have
  spent, and `UsedBy(t)` for the present query: `Used(tries)`, the attempts and
  pauses behind it, and the time its connection took once it reads. After the last
  attempt that is `LongestQuery`. Healing starts with the time of a whole lookup
  spent, `Healing(t)`. The discovery counts down its candidates. A chain of
  referrals has spent one budget for each host in `visited` but the first and the
  one being asked, which is where it needs `ChainInv`. The pauses double, and the prover knows nothing of powers: `FiniteInduction` takes
  2^n as the number of subsets of 1..n.
- `SettledInv`, for `SettledLookupsSucceed`: a lookup that began after the world
  settled heals from a server other than the one the root names; the first
  candidate of its discovery is the named one, and it passes the test. It needs
  `TimeInv`, so that a patient caller's limit never strikes.

### What a client is told

`LookupProofs`, about any texts, bodies and addresses:

- `TypeInv` and `StageInv` are inductive together: a chain has no answer before
  WHOIS was asked, is within its limit, and in a referral names a server that may
  be asked.
- `SeenInv`, for `OnlyTransientRetried` and `RdapAnswerIsFinal`: while RDAP may
  be asked again all outcomes so far were failures of the transport.
- `AnswerInv`, for `FieldsKept`, `ThrottleHidden`, `NoticeNeverMasks`,
  `AnswerIsItsServers` and `AgesMatch`: a response of WHOIS is what `DomainResult`
  or `IpResult` make of the chain, which later requests leave alone until they
  are served, and one of RDAP has the ages of its own dates. What remains are facts
  about operators: `ClassifyStatus` (record data makes a text Found), `FillKeeps`
  (a backfill takes no field), and `ResultFacts`: a result is the record of ONE
  answer, as it is or completed from the first server's.
- `AgesMatch` says whose date an age belongs to. The parsers compute the ages
  from the dates (`CalculatedAges`), `fill_missing_from` copies dates and ages one
  by one (`FilledRecord`). Where the last server's date cannot be read the code
  keeps it and puts the age of the first server's date beside it; that this is the
  only case in which date and age come from two servers is what the property
  adds. A response from the cache has been one of these before; the property does
  not speak of it.
- `RirInv`, for `SpecialNeverAsked`, with `OnlySpecialUnsupported`:
  `is_private_or_special`, which masks bits and shifts, agrees with the ranges
  of the RFCs on every address, and `detect_rir` gives every other address a
  registry, ARIN by default.
- `RirUnambiguous`: an address lies in ranges of at most one registry
  (`OneRegistry4`, `OneRegistry6`), and two ranges that overlap share the first
  address of one of them (`SharedAddress`), so that they are one registry's. The
  tables are constants, so no step of the specification matters here.
- `WaitersAgree` is a case per error; `LiveBypassesCache` one per action.

The proof about special addresses corrected the property: in an earlier form it
named only the ranges, and TLC had found it to hold, as no address of the run was
one that the code singles out without a range: the IPv4 documentation networks,
0.0.0.0, :: and ::1. These are refused as well, the proof failed there, and they
are now part of the property, three of them also of the run.

### Only model-checked

- The liveness properties `EveryCallEnds`, `LookupsEnd`, `EveryLookupEnds` and
  `TldRecovers`: fairness and ENABLED are out of the prover's reach.
- The violated runs, whose counterexamples are the result.
- What a fold over the lines of a text yields for each text: induction over data
  is out of reach as well. The theorems of `Lookup` hold for whatever a parser
  reads from a text.

## 5. Not modelled, and what is left

- The permits of RDAP's `query_semaphore`: one per query, held across its
  retries, as in `WhoisQuery`.
- The rate limiter and the metrics: the limits log and count, and never reject.
- The public suffix list, the syntax of DNS names, date formats, JSON and UTF-8:
  other crates' data; their outcome is an input of the model.
- The text of the root's answer (whois.rs 335-390), reduced to the host in it.
- The lazy connection of `RedisCache` and the form of its keys.
- Routing, OpenAPI, the health check, shutdown, reading /proc/meminfo: I/O.

What the proofs leave open is the step from the code's own numbers to the
theorems about time: `LookupTimeBounded` bounds a lookup by the sum of its
limits, and `whois_http` shows that this sum exceeds the 60 s of the HTTP layer.
A bound on the waiting for permits, which `spent` does not count, would need an
order of the waiters in the model of the semaphores. The modules have no
RECURSIVE operator, so that whatever is added to them can be proved about.
