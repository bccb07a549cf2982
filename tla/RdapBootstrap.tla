---------------------------- MODULE RdapBootstrap -----------------------------
(***************************************************************************)
(* How RdapService (src/src/rdap.rs) finds the RDAP server of a TLD: the   *)
(* IANA bootstrap document behind a Mutex, refreshed daily and fetched by  *)
(* one task at a time, and the cache of discovered servers behind a        *)
(* RwLock.  A task is one domain lookup; it can be dropped at every await. *)
(*                                                                         *)
(* The documents IANA publishes are numbered.  A server is represented by  *)
(* the number of the document it was read from, so that a later number is  *)
(* the endpoint after a migration.                                         *)
(***************************************************************************)
EXTENDS Integers

CONSTANTS
    Tasks,
    Tlds,
    Listed,         \* Listed[v]: the TLDs document v has an entry for, either
                    \* under the whole suffix or under its last label
    RefreshAfter,   \* BOOTSTRAP_REFRESH_SECS
    RetryAfter,     \* BOOTSTRAP_RETRY_SECS
    FetchTimeout,   \* timeout of the HTTP client, whois_timeout_seconds
    MaxVersion,     \* bound on the documents published
    MaxTime,        \* bound on the clock
    NoTask          \* nobody holds the mutex

Versions == 1..MaxVersion
None == 0           \* no document, no server
Never == -1         \* no Instant

ASSUME NoTaskAssumption == NoTask \notin Tasks
ASSUME ListedAssumption == Listed \in [Versions -> SUBSET Tlds]
ASSUME NumberAssumption ==
    /\ RefreshAfter \in Nat /\ RetryAfter \in Nat /\ FetchTimeout \in Nat
    /\ MaxVersion \in Nat \ {0} /\ MaxTime \in Nat

VARIABLES
    now,
    iana,           \* the document IANA publishes at present
    data,           \* BootstrapState.data
    fetchedAt,      \* BootstrapState.fetched_at
    lastAttempt,    \* BootstrapState.last_attempt
    holder,         \* the task that holds the Mutex across its fetch
    tldServers,     \* the cache of discovered servers
    pc,             \* where each task is suspended
    tld,            \* the TLD each task looks up
    refresh,        \* is_refresh of the task that fetches
    view            \* the document a task holds, or the server it returns

state == <<data, fetchedAt, lastAttempt, holder>>
task == <<pc, tld, refresh, view>>
vars == <<now, iana, state, tldServers, task>>

Init ==
    /\ now = 0
    /\ iana = 1
    /\ data = None
    /\ fetchedAt = Never
    /\ lastAttempt = Never
    /\ holder = NoTask
    /\ tldServers = [d \in Tlds |-> None]
    /\ pc = [t \in Tasks |-> "idle"]
    /\ tld \in [Tasks -> Tlds]
    /\ refresh = [t \in Tasks |-> FALSE]
    /\ view = [t \in Tasks |-> None]

-------------------------------------------------------------------------------
(* BootstrapState::decide *)

Within(instant, span) == instant # Never /\ now - instant < span
Fresh == data # None /\ Within(fetchedAt, RefreshAfter)
AttemptedRecently == Within(lastAttempt, RetryAfter)

\* Mutant: without data there is no back-off.
decideEagerly ==
    IF Fresh THEN "UseCached"
    ELSE IF AttemptedRecently /\ data # None THEN "ServeStale"
    ELSE "Fetch"

decide ==
    IF Fresh THEN "UseCached"
    ELSE IF ~AttemptedRecently THEN "Fetch"
    ELSE IF data # None THEN "ServeStale"
    ELSE "Unavailable"

-------------------------------------------------------------------------------
(* find_rdap_server and what it calls *)

Finish(t, v) ==
    /\ pc' = [pc EXCEPT ![t] = "done"]
    /\ view' = [view EXCEPT ![t] = v]

\* discover_rdap_server_bootstrap looks the TLD up in the document it was given.
Discover(t, v) ==
    IF tld[t] \in Listed[v]
    THEN pc' = [pc EXCEPT ![t] = "insert"] /\ view' = [view EXCEPT ![t] = v]
    ELSE Finish(t, None)

\* The read lock: a cached server is the answer, and the bootstrap document is
\* not looked at.
Find(t) ==
    /\ pc[t] = "idle"
    /\ \E d \in Tlds :
          /\ tld' = [tld EXCEPT ![t] = d]
          /\ \/ tldServers[d] # None /\ Finish(t, tldServers[d])
             \/ tldServers[d] = None /\ pc' = [pc EXCEPT ![t] = "lock"] /\ UNCHANGED view
    /\ UNCHANGED <<now, iana, state, tldServers, refresh>>

\* Mutant: the Mutex is not held across the fetch.
LockShared(t) ==
    /\ pc[t] = "lock"
    /\ \/ /\ decide \in {"UseCached", "ServeStale"}
          /\ Discover(t, data)
          /\ UNCHANGED <<state, refresh>>
       \/ /\ decide = "Fetch"
          /\ refresh' = [refresh EXCEPT ![t] = data # None]
          /\ lastAttempt' = now
          /\ holder' = t
          /\ pc' = [pc EXCEPT ![t] = "fetch"]
          /\ UNCHANGED <<data, fetchedAt, view>>
    /\ UNCHANGED <<now, iana, tldServers, tld>>

\* The Mutex is free: decide what to do about the document.
Lock(t) ==
    /\ pc[t] = "lock"
    /\ holder = NoTask
    /\ \/ /\ decide \in {"UseCached", "ServeStale"}
          /\ Discover(t, data)
          /\ UNCHANGED <<state, refresh>>
       \/ /\ decide = "Unavailable"
          /\ Finish(t, None)
          /\ UNCHANGED <<state, refresh>>
       \/ /\ decide = "Fetch"
          /\ refresh' = [refresh EXCEPT ![t] = data # None]
          /\ lastAttempt' = now
          /\ holder' = t
          /\ pc' = [pc EXCEPT ![t] = "fetch"]
          /\ UNCHANGED <<data, fetchedAt, view>>
    /\ UNCHANGED <<now, iana, tldServers, tld>>

\* IANA answers with the document of the moment; the body is still to be read.
Respond(t) ==
    /\ pc[t] = "fetch"
    /\ pc' = [pc EXCEPT ![t] = "body"]
    /\ view' = [view EXCEPT ![t] = iana]
    /\ UNCHANGED <<now, iana, state, tldServers, tld, refresh>>

\* Mutant: the time of expiry is stored for the time of the fetch.
StoreExpiry(t) ==
    /\ pc[t] = "body"
    /\ data' = view[t]
    /\ fetchedAt' = now + RefreshAfter
    /\ holder' = NoTask
    /\ \/ refresh[t] /\ pc' = [pc EXCEPT ![t] = "clear"] /\ UNCHANGED view
       \/ ~refresh[t] /\ Discover(t, view[t])
    /\ UNCHANGED <<now, iana, lastAttempt, tldServers, tld, refresh>>

\* The document is stored and the Mutex released; only then, and behind another
\* lock, a refresh clears the servers found in the old one.
Store(t) ==
    /\ pc[t] = "body"
    /\ data' = view[t]
    /\ fetchedAt' = now
    /\ holder' = NoTask
    /\ \/ refresh[t] /\ pc' = [pc EXCEPT ![t] = "clear"] /\ UNCHANGED view
       \/ ~refresh[t] /\ Discover(t, view[t])
    /\ UNCHANGED <<now, iana, lastAttempt, tldServers, tld, refresh>>

Clear(t) ==
    /\ pc[t] = "clear"
    /\ tldServers' = [d \in Tlds |-> None]
    /\ Discover(t, view[t])
    /\ UNCHANGED <<now, iana, state, tld, refresh>>

\* Mutant: what was read of a document that failed is used nevertheless.
FetchErrUsesBody(t) ==
    /\ pc[t] = "body"
    /\ holder' = NoTask
    /\ Discover(t, view[t])
    /\ UNCHANGED <<now, iana, data, fetchedAt, lastAttempt, tldServers, tld, refresh>>

\* Mutant: a failed refresh fails the lookup.
FetchErrFails(t) ==
    /\ pc[t] \in {"fetch", "body"}
    /\ holder' = NoTask
    /\ Finish(t, None)
    /\ UNCHANGED <<now, iana, data, fetchedAt, lastAttempt, tldServers, tld, refresh>>

\* Mutant: the error path keeps the Mutex.
FetchErrLocks(t) ==
    /\ pc[t] \in {"fetch", "body"}
    /\ \/ data # None /\ Discover(t, data)
       \/ data = None /\ Finish(t, None)
    /\ UNCHANGED <<now, iana, state, tldServers, tld, refresh>>

FetchErr(t) ==
    /\ pc[t] \in {"fetch", "body"}
    /\ holder' = NoTask
    /\ \/ data # None /\ Discover(t, data)
       \/ data = None /\ Finish(t, None)
    /\ UNCHANGED <<now, iana, data, fetchedAt, lastAttempt, tldServers, tld, refresh>>

\* The write lock: an entry that is there already stays, and this task returns
\* the server it found itself.
Insert(t) ==
    /\ pc[t] = "insert"
    /\ tldServers' = [tldServers EXCEPT ![tld[t]] = IF @ = None THEN view[t] ELSE @]
    /\ Finish(t, view[t])
    /\ UNCHANGED <<now, iana, state, tld, refresh>>

-------------------------------------------------------------------------------
(* The environment *)

Rest(t) ==
    /\ pc' = [pc EXCEPT ![t] = "idle"]
    /\ view' = [view EXCEPT ![t] = None]
    /\ refresh' = [refresh EXCEPT ![t] = FALSE]

Return(t) ==
    /\ pc[t] = "done"
    /\ Rest(t)
    /\ UNCHANGED <<now, iana, state, tldServers, tld>>

\* The request is dropped: its guard releases the Mutex, and what it has
\* already written to the state behind the Mutex stays.
Abandon(t) ==
    /\ pc[t] \notin {"idle", "done"}
    /\ holder' = IF holder = t THEN NoTask ELSE holder
    /\ Rest(t)
    /\ UNCHANGED <<now, iana, data, fetchedAt, lastAttempt, tldServers, tld>>

Publish ==
    /\ iana < MaxVersion
    /\ iana' = iana + 1
    /\ UNCHANGED <<now, state, tldServers, task>>

\* The HTTP client gives up before a fetch lasts longer than its timeout.
Tick ==
    /\ now < MaxTime
    /\ holder # NoTask => now < lastAttempt + FetchTimeout
    /\ now' = now + 1
    /\ UNCHANGED <<iana, state, tldServers, task>>

Proceed(t) ==
    \/ Respond(t) \/ Store(t) \/ Clear(t) \/ FetchErr(t) \/ Insert(t) \/ Return(t)

Undisturbed ==
    \/ \E t \in Tasks : Find(t) \/ Lock(t) \/ Proceed(t)
    \/ Publish
    \/ Tick

Next == Undisturbed \/ \E t \in Tasks : Abandon(t)

Spec == Init /\ [][Next]_vars

\* The same, with nobody ever dropped.
PatientSpec == Init /\ [][Undisturbed]_vars

\* A fetch ends, by its timeout at the latest, and the Mutex of tokio is handed
\* to its waiters in turn: a task that waits gets it if it is ever free again.
FairSpec == Spec /\ \A t \in Tasks : WF_vars(Proceed(t)) /\ SF_vars(Lock(t))

-------------------------------------------------------------------------------
(* Correctness *)

Pc == {"idle", "lock", "fetch", "body", "clear", "insert", "done"}

TypeOK ==
    /\ now \in 0..MaxTime
    /\ iana \in Versions
    /\ data \in Versions \cup {None}
    /\ fetchedAt \in 0..MaxTime \cup {Never}
    /\ lastAttempt \in 0..MaxTime \cup {Never}
    /\ holder \in Tasks \cup {NoTask}
    /\ tldServers \in [Tlds -> Versions \cup {None}]
    /\ pc \in [Tasks -> Pc]
    /\ tld \in [Tasks -> Tlds]
    /\ refresh \in [Tasks -> BOOLEAN]
    /\ view \in [Tasks -> Versions \cup {None}]

\* "The Mutex makes concurrent fetches single-flight" (rdap.rs:337), also when
\* the task that fetches is dropped and others are queued behind it.
OneFetch == \A t \in Tasks : pc[t] \in {"fetch", "body"} <=> holder = t

\* A server in the cache, or on its way there, comes from a document that was
\* stored at some time: nothing is served from a fetch that did not complete.
ServersComeFromData ==
    /\ \A d \in Tlds :
          /\ tldServers[d] <= data
          /\ tldServers[d] # None => d \in Listed[tldServers[d]]
    /\ \A t \in Tasks : pc[t] \in {"clear", "insert", "done"} => view[t] <= data

\* The stored document only ever moves forward.
DataNeverRegresses == [][data <= data']_vars

\* rdap.rs:335-336: two requests to IANA are at least one retry window apart,
\* whether the first one failed or its task was dropped, and a whole refresh
\* period apart if the first one brought a document.
BackoffRespected ==
    [][lastAttempt' # lastAttempt /\ lastAttempt # Never =>
          /\ now >= lastAttempt + RetryAfter
          /\ data # None /\ fetchedAt >= lastAttempt => now >= fetchedAt + RefreshAfter]_vars

\* rdap.rs:335: a failed refresh keeps serving the stale data.  A TLD that every
\* document lists is refused only as long as no document was ever stored.
OutageServesStale ==
    [][\A t \in Tasks :
          pc[t] # "done" /\ pc'[t] = "done" /\ view'[t] = None
          /\ (\A v \in Versions : tld'[t] \in Listed[v]) => data = None]_vars

\* Every lookup ends, with a server or without.
LookupsEnd == \A t \in Tasks : pc[t] # "idle" ~> pc[t] = "idle"

\* rdap.rs:333-334: "Data older than BOOTSTRAP_REFRESH_SECS is refetched, so new
\* TLDs and migrated RDAP endpoints are picked up by long-running services".
\* Read as a claim: a lookup that begins when the data is due for a refresh is
\* not answered at once, unless a fetch has been tried since it became due.
DueDataIsRefetched ==
    [][\A t \in Tasks :
          pc[t] = "idle" /\ pc'[t] = "done" /\ ~Fresh =>
              lastAttempt >= fetchedAt + RefreshAfter]_vars

\* rdap.rs:363-364: the servers found in the old document are dropped "so
\* migrated endpoints take effect".  Read as a claim: when nobody is at work, no
\* server of an older document is left.
RefreshDropsOldServers ==
    (\A t \in Tasks : pc[t] = "idle") => \A d \in Tlds : tldServers[d] \in {None, data}
===============================================================================
